-------------------------- MODULE MCHttpConnection --------------------------
(* A client with requests that are in order, and some that are not.  One that *)
(* says how long it is sends as many bytes, or more.                          *)
EXTENDS HttpConnection

Good == [syntax |-> TRUE, target |-> TRUE, length |-> <<2>>, type |-> "soap", keep |-> TRUE,
         body |-> 2, xml |-> "answered", early |-> FALSE]

NoLength == [Good EXCEPT !.length = <<>>, !.type = "none"]

Whole ==
    {Good, NoLength, [Good EXCEPT !.keep = FALSE], [Good EXCEPT !.xml = "ignored"],
     [Good EXCEPT !.xml = "malformed"], [Good EXCEPT !.length = <<1>>, !.body = 1, !.type = "none"],
     [Good EXCEPT !.length = <<0>>, !.body = 0], [NoLength EXCEPT !.body = 1]}

Faulty ==
    {[Good EXCEPT !.syntax = FALSE], [Good EXCEPT !.target = FALSE],
     [Good EXCEPT !.length = <<3>>, !.body = 3], [Good EXCEPT !.length = <<0>>],
     [Good EXCEPT !.type = "other"], [Good EXCEPT !.type = "twice"]}

Early == {[r EXCEPT !.early = TRUE] : r \in Whole}

All == Whole \cup Faulty \cup Early
=============================================================================
