-------------------------- MODULE HttpRequestParser --------------------------
(***************************************************************************)
(* The parser of HTTP request headers: src/src/http_request_parser.cpp.    *)
(* It gets a request one byte at a time and must tell, at once, that the   *)
(* request is complete, that it cannot become one, or neither.  On a       *)
(* connection that is kept it is reset and parses the next one.            *)
(*                                                                         *)
(* Method, uri, names and values are reduced to their lengths.  The state  *)
(* header_lws is left out: the value builder is empty at the start of      *)
(* every header line, so that it is never entered.                         *)
(***************************************************************************)
EXTENDS Integers, Sequences, FiniteSets

CONSTANTS
    Bytes,       \* the bytes that may come
    MaxMethod,   \* s_maxMethodSize (10)
    MaxUri,      \* s_maxUriSize (2048)
    MaxHeaders,  \* s_maxHeadersSize (8192)
    UIntRange,   \* number of values of an unsigned (2^32)
    MaxInput,    \* bound on the bytes of one request
    MaxResets    \* bound on the requests after the first

ASSUME ParserAssumption ==
    /\ Bytes \subseteq 0 .. 255
    /\ MaxMethod \in Nat \ {0} /\ MaxUri \in Nat \ {0} /\ MaxHeaders \in Nat \ {0}
    /\ UIntRange \in Nat /\ UIntRange > 99
    /\ MaxInput \in Nat /\ MaxResets \in Nat

VARIABLES
    at,        \* m_state, or "good" or "bad" once consume has said so
    size,      \* characters in m_methodBuilder or m_uriBuilder
    total,     \* m_totalHeadersSize
    minor,     \* m_versionMinor
    resets,    \* number of resets
    input      \* history: the bytes consumed since the last reset

pvars == <<at, size, total, minor, resets, input>>

SP    == 32
CR    == 13
LF    == 10
Colon == 58
Digit == 48 .. 57

IsCtl(c)      == c <= 31 \/ c = 127
IsTSpecial(c) == c \in {9, 32, 34, 40, 41, 44, 47, 58, 59, 60, 61, 62, 63, 64, 91, 92, 93, 123, 125}
IsToken(c)    == c <= 127 /\ ~IsCtl(c) /\ ~IsTSpecial(c)

\* States that want one byte, and the state after it.  The major version is
\* the digit 1: anything else is beyond s_maxVersion.
Literal ==
    [http_version_h            |-> <<72, "http_version_t_1">>,
     http_version_t_1          |-> <<84, "http_version_t_2">>,
     http_version_t_2          |-> <<84, "http_version_p">>,
     http_version_p            |-> <<80, "http_version_slash">>,
     http_version_slash        |-> <<47, "http_version_major_start">>,
     http_version_major_start  |-> <<49, "http_version_major">>,
     http_version_major        |-> <<46, "http_version_minor_start">>,
     expecting_newline_1       |-> <<LF, "header_line_start">>,
     space_before_header_value |-> <<SP, "header_value">>,
     expecting_newline_2       |-> <<LF, "header_line_start">>,
     expecting_newline_3       |-> <<LF, "good">>]

MaxMinor == 1

PInit ==
    /\ at = "method_start" /\ size = 0 /\ total = 0 /\ minor = 0
    /\ resets = 0 /\ input = <<>>

-----------------------------------------------------------------------------
(* consume: Indeterminate with a new state when ok, otherwise Bad *)

Step(ok, next, n, t, m) ==
    IF ok
    THEN at' = next /\ size' = n /\ total' = t /\ minor' = m
    ELSE at' = "bad" /\ UNCHANGED <<size, total, minor>>

Goes(ok, next) == Step(ok, next, 0, total, minor)

Method(c) ==
    \/ at = "method_start" /\ Step(IsToken(c), "method", 1, total, minor)
    \/ at = "method" /\ c = SP /\ Goes(TRUE, "uri")
    \/ at = "method" /\ c # SP /\ Step(IsToken(c) /\ size # MaxMethod, "method", size + 1, total, minor)

Uri(c) ==
    \/ at = "uri" /\ c = SP /\ Goes(size # 0, "http_version_h")
    \/ at = "uri" /\ c # SP /\ Step(~IsCtl(c) /\ size # MaxUri, "uri", size + 1, total, minor)

Expect(c) == at \in DOMAIN Literal /\ Goes(c = Literal[at][1], Literal[at][2])

\* boundedAddDigit: the comparison is of unsigned numbers.
CanAddDigit(n, d, max) == max \div 10 >= n /\ (max - d) % UIntRange >= 10 * n

Minor(c) ==
    \/ at = "http_version_minor_start"
       /\ Step(c \in Digit /\ c - 48 <= MaxMinor, "http_version_minor", 0, total, c - 48)
    \/ at = "http_version_minor" /\ c = CR /\ Goes(TRUE, "expecting_newline_1")
    \/ at = "http_version_minor" /\ c # CR
       /\ Step(c \in Digit /\ CanAddDigit(minor, c - 48, MaxMinor), "http_version_minor", 0, total,
               10 * minor + (c - 48))

\* A character of a name or a value counts.
Counts(ok, next) == Step(ok /\ total # MaxHeaders, next, 0, total + 1, minor)

HeaderLine(c) ==
    \/ at = "header_line_start" /\ c = CR /\ Goes(TRUE, "expecting_newline_3")
    \/ at = "header_line_start" /\ c # CR /\ Counts(IsToken(c), "header_name")
    \/ at = "header_name" /\ c = Colon /\ Goes(TRUE, "space_before_header_value")
    \/ at = "header_name" /\ c # Colon /\ Counts(IsToken(c), "header_name")
    \/ at = "header_value" /\ c = CR /\ Goes(TRUE, "expecting_newline_2")
    \/ at = "header_value" /\ c # CR /\ Counts(~IsCtl(c), "header_value")

Consume(c) ==
    /\ Len(input) < MaxInput
    /\ Method(c) \/ Uri(c) \/ Expect(c) \/ Minor(c) \/ HeaderLine(c)
    /\ input' = Append(input, c)
    /\ UNCHANGED resets

ResetKeepsTotal ==
    /\ at = "good" /\ resets < MaxResets
    /\ at' = "method_start" /\ size' = 0 /\ minor' = 0
    /\ resets' = resets + 1
    /\ input' = <<>>
    /\ UNCHANGED total

Reset ==
    /\ at = "good" /\ resets < MaxResets
    /\ at' = "method_start" /\ size' = 0 /\ total' = 0 /\ minor' = 0
    /\ resets' = resets + 1
    /\ input' = <<>>

PNext == Reset \/ \E c \in Bytes : Consume(c)

PSpec == PInit /\ [][PNext]_pvars

-----------------------------------------------------------------------------
(* What a request is: a reference definition over whole sequences of bytes *)

HttpOne == <<72, 84, 84, 80, 47, 49, 46>>    \* HTTP/1.

\* From i to j a number up to s_maxVersion: zeros, and a 0 or a 1.
IsMinor(s, i, j) ==
    /\ \A m \in i .. j - 1 : s[m] = 48
    /\ s[j] \in {48, 49}

\* A name, a colon and a space, and a value, from i up to j.
IsHeader(s, i, j) ==
    \E k \in i + 1 .. j - 2 :
        /\ s[k] = Colon /\ s[k + 1] = SP
        /\ \A m \in i .. k - 1 : IsToken(s[m])
        /\ \A m \in k + 2 .. j - 1 : ~IsCtl(s[m])

\* The first colon of its line, where the lines begin at f.
Separates(s, f, i) ==
    s[i] = Colon /\ \A m \in f .. i - 1 : s[m] = Colon => \E l \in m .. i : s[l] = LF

\* The characters of names and values.
Characters(s, f) ==
    {i \in f .. Len(s) : s[i] \notin {CR, LF} /\ ~Separates(s, f, i) /\ (i > f => ~Separates(s, f, i - 1))}

Breaks(s, f) == {i \in f .. Len(s) - 1 : s[i] = CR /\ s[i + 1] = LF}
Starts(s, f) == {f} \cup {i + 2 : i \in Breaks(s, f)}

\* Lines from f that end in CR LF; the last one, and no other, is empty.
IsHeaders(s, f) ==
    LET n == Len(s) IN
    /\ n - 1 \in Breaks(s, f) \cap Starts(s, f)
    /\ \A i \in Starts(s, f) \ {n - 1, n + 1} : \E j \in Breaks(s, f) : j > i /\ IsHeader(s, i, j)
    /\ Cardinality(Characters(s, f)) <= MaxHeaders

IsRequest(s) ==
    \E a \in 2 .. MaxMethod + 1 :
        /\ a <= Len(s) /\ s[a] = SP /\ \A i \in 1 .. a - 1 : IsToken(s[i])
        /\ \E b \in a + 2 .. a + MaxUri + 1 :
            /\ b + 8 <= Len(s) /\ s[b] = SP
            /\ \A i \in a + 1 .. b - 1 : ~IsCtl(s[i]) /\ s[i] # SP
            /\ \A i \in 1 .. 7 : s[b + i] = HttpOne[i]
            /\ \E e \in b + 9 .. Len(s) - 1 :
                /\ s[e] = CR /\ s[e + 1] = LF
                /\ IsMinor(s, b + 8, e - 1)
                /\ IsHeaders(s, e + 2)

\* P / HTTP/1.1, with a header P: that has no value
Sample == <<80, SP, 47, SP, 72, 84, 84, 80, 47, 49, 46, 49, CR, LF, 80, Colon, SP, CR, LF, CR, LF>>

\* Some end makes a request of it.
CanBecomeRequest(s) == \E i \in 1 .. Len(Sample) : IsRequest(s \o SubSeq(Sample, i, Len(Sample)))

-----------------------------------------------------------------------------
(* Properties *)

\* The parser says Good of every request, Bad only when nothing can make a
\* request of what it has read, and neither for long otherwise: it neither waits
\* for what cannot come nor gives up too early, for the first request of a
\* connection and for those after a reset.  The exception is a minor version
\* such as 05: boundedAddDigit takes it, because maxVal - digit wraps, and the
\* parser goes on as if it were a version up to s_maxVersion{1, 1}
\* (http_request_parser.h:19), where invalid data should be Bad (h:30-31).
VerdictIsRight ==
    /\ IsRequest(input) => at = "good"
    /\ at = "good" => IsRequest(input) \/ minor > MaxMinor
    /\ at = "bad" => ~(IsRequest(input) \/ CanBecomeRequest(input))
    /\ ~(IsRequest(input) \/ CanBecomeRequest(input)) => at = "bad" \/ minor > MaxMinor
=============================================================================
