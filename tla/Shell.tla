------------------------------- MODULE Shell --------------------------------
(***************************************************************************)
(* A helper program whose output is read line by line: shell of            *)
(* src/src/sys_util.cpp and LineReader of src/src/sys_util.h.  The pipe     *)
(* hands the output over in pieces that are cut anywhere.                  *)
(*                                                                         *)
(* A line is a sequence of symbols, each of them a bit of text.            *)
(***************************************************************************)
EXTENDS Naturals, Sequences, SequencesExt, FiniteSetsExt

CONSTANT BufferSize     \* m_bufferSize (1024)

ASSUME BufferAssumption == BufferSize \in Nat \ {0}

NL == "newline"

VARIABLES
    helper,    \* the program that runs, or Nobody
    rest,      \* what it has printed or will print, and was not read
    exits,     \* how it will end: 0, or anything else
    buf,       \* the part of a line that was read
    ignore,    \* is that line too long?
    lines,     \* the lines given to the sink
    printed    \* history: all that the helper prints

shellvars == <<helper, rest, exits, buf, ignore, lines, printed>>

Nobody == "nobody"

ShellInit ==
    /\ helper = Nobody /\ rest = <<>> /\ exits = 0
    /\ buf = <<>> /\ ignore = FALSE /\ lines = <<>> /\ printed = <<>>

\* spawn: it throws where there is no such program, which is the caller's part.
Spawn(h, out, code) ==
    /\ helper = Nobody
    /\ helper' = h /\ rest' = out /\ exits' = code
    /\ buf' = <<>> /\ ignore' = FALSE /\ lines' = <<>> /\ printed' = out

-----------------------------------------------------------------------------
(* LineReader *)

\* The lines of s that are ended, and what is after them.
Scan(s) ==
    LET upTo[n \in 0 .. Len(s)] ==
            IF n = 0 THEN <<<<>>, <<>>>>
            ELSE IF s[n] = NL THEN <<Append(upTo[n - 1][1], upTo[n - 1][2]), <<>>>>
            ELSE <<upTo[n - 1][1], Append(upTo[n - 1][2], s[n])>>
    IN  upTo[Len(s)]

\* Mutant: what is left of an overly long line is taken for a line.
ReadChunkForgets(n) ==
    LET scan == Scan(buf \o SubSeq(rest, 1, n)) IN
    /\ n <= BufferSize - Len(buf) /\ n <= Len(rest)
    /\ rest' = SubSeq(rest, n + 1, Len(rest))
    /\ lines' = lines \o scan[1]
    /\ buf' = IF Len(scan[2]) = BufferSize THEN <<>> ELSE scan[2]
    /\ UNCHANGED <<helper, exits, printed, ignore>>

ReadChunk(n) ==
    LET scan == Scan(buf \o SubSeq(rest, 1, n)) IN
    /\ n <= BufferSize - Len(buf) /\ n <= Len(rest)
    /\ rest' = SubSeq(rest, n + 1, Len(rest))
    /\ lines' = lines \o (IF ignore /\ scan[1] # <<>> THEN Tail(scan[1]) ELSE scan[1])
    /\ IF Len(scan[2]) = BufferSize
       THEN buf' = <<>> /\ ignore' = TRUE
       ELSE buf' = scan[2] /\ ignore' = (ignore /\ scan[1] = <<>>)
    /\ UNCHANGED <<helper, exits, printed>>

\* The end of the output: a line without an end is a line.
AllLines == IF buf # <<>> /\ ~ignore THEN Append(lines, buf) ELSE lines

\* The helper is waited for; shell throws where it has failed.
Ends(h) ==
    /\ helper = h /\ rest = <<>>
    /\ helper' = Nobody
    /\ buf' = <<>>
    /\ lines' = AllLines
    /\ UNCHANGED <<rest, exits, ignore, printed>>

Reads == helper # Nobody /\ \E n \in 1 .. BufferSize : ReadChunk(n)

-----------------------------------------------------------------------------
(* Properties *)

\* The lines of a whole text that are shorter than the buffer.
LinesOf(s) ==
    LET end(i) == Min({j \in i .. Len(s) : s[j] = NL} \cup {Len(s) + 1})
        from[i \in 1 .. Len(s) + 1] ==
            IF i = Len(s) + 1 THEN <<>>
            ELSE LET line  == SubSeq(s, i, end(i) - 1)
                     later == IF end(i) = Len(s) + 1 THEN <<>> ELSE from[end(i) + 1]
                 IN  IF Len(line) < BufferSize THEN <<line>> \o later ELSE later
    IN  from[1]

\* Whatever the pieces of its output, the sink gets the lines of the helper, in
\* order, none of them cut and none joined; the ones that do not fit in the
\* buffer are left out as a whole.
LinesExact ==
    /\ helper # Nobody => IsPrefix(lines, LinesOf(printed))
    /\ helper # Nobody /\ rest = <<>> => AllLines = LinesOf(printed)
=============================================================================
