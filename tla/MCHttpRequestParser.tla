------------------------- MODULE MCHttpRequestParser -------------------------
(* Requests of a few bytes: those a version needs, two more digits, the      *)
(* separators, and one that is no ASCII.                                     *)
EXTENDS HttpRequestParser

Separators == {SP, CR, LF, Colon}
Version    == {72, 84, 80, 47, 49, 46}

\* Every byte is tried everywhere, but outside of the version only one of each
\* kind is followed: the parser keeps no more of the rest than its length.
Representative ==
    \A i \in DOMAIN input : i \notin 4 .. 14 => input[i] \in Separators \cup {80, 47, 200}

Few == Separators \cup Version \cup {48, 53, 200}
=============================================================================
