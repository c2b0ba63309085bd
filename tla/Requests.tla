------------------------------ MODULE Requests ------------------------------
(***************************************************************************)
(* How a WSD server answers requests: handleRequest and its helpers in     *)
(* src/src/wsd_server.cpp, from the parsed XML document to the reply.      *)
(* Multicast, unicast and HTTP requests come in any order and any number   *)
(* of times; the server remembers the ids of the last messages, whatever   *)
(* their transport, and is silent when it sees one of them again.          *)
(***************************************************************************)
EXTENDS Naturals, Sequences

CONSTANTS
    Ids,          \* message ids; a message without one has the empty id
    MaxKnown,     \* g_maxKnownMessages (50)
    MaxNew        \* bound on the number of new messages

ASSUME RequestsAssumption ==
    /\ MaxKnown \in Nat \ {0}
    /\ MaxNew \in Nat

VARIABLES
    known,        \* m_knownMessageIds
    lru,          \* m_knownMessageIdsLRU, newest first
    number,       \* m_messageNumber
    answering,    \* "running", "leaving" once Bye is being sent, or "stopped"
    history       \* ids of the messages that were taken for new ones, in order

rvars == <<known, lru, number, answering, history>>

\* What a request says, as far as it decides about the answer.  "Hello" stands
\* for all that is ignored or unknown.
Requests == [id : Ids, header : BOOLEAN, type : {"Udp", "Http"},
             action : {"Probe", "Resolve", "Get", "Hello"}, valid : BOOLEAN]

\* start(): Hello has the first number.
RInit ==
    /\ known = {} /\ lru = <<>>
    /\ number = 1
    /\ answering = "running"
    /\ history = <<>>

-----------------------------------------------------------------------------
(* checkNewMessageId *)

New(id) == id \notin known

\* Mutant: the id that was just added is the one to go.
RememberedNewestOut(id) ==
    /\ history' = Append(history, id)
    /\ IF Len(lru) = MaxKnown
       THEN /\ known' = (known \cup {id}) \ {Head(lru)}
            /\ lru' = <<id>> \o Tail(lru)
       ELSE /\ known' = known \cup {id}
            /\ lru' = <<id>> \o lru

\* A new id is remembered, and the oldest one forgotten when there are too many.
Remembered(id) ==
    /\ history' = Append(history, id)
    /\ IF Len(lru) = MaxKnown
       THEN /\ known' = (known \cup {id}) \ {lru[MaxKnown]}
            /\ lru' = <<id>> \o SubSeq(lru, 1, MaxKnown - 1)
       ELSE /\ known' = known \cup {id}
            /\ lru' = <<id>> \o lru

-----------------------------------------------------------------------------
(* handleRequest *)

\* handleProbe, handleResolve and handleGet.
Handled(r) ==
    \/ r.type = "Udp" /\ r.action \in {"Probe", "Resolve"} /\ r.valid
    \/ r.type = "Http" /\ r.action = "Get"

\* No SOAP header, or a message that was seen already: no reply.
Ignored(r) ==
    /\ answering # "stopped"
    /\ ~r.header \/ ~New(r.id)
    /\ UNCHANGED rvars

\* A new message that is not for us: remembered all the same.
Unhandled(r) ==
    /\ answering # "stopped"
    /\ r.header /\ New(r.id)
    /\ ~Handled(r)
    /\ Remembered(r.id)
    /\ UNCHANGED <<number, answering>>

\* A new message is answered.  Replies by UDP are numbered.
Answered(r) ==
    /\ answering # "stopped"
    /\ r.header /\ New(r.id)
    /\ Handled(r)
    /\ Remembered(r.id)
    /\ number' = IF r.type = "Udp" THEN number + 1 ELSE number
    /\ UNCHANGED answering

\* stop(true): Bye has a number as well.  Requests are answered until its last
\* copy is out.
Bye ==
    /\ answering = "running"
    /\ answering' = "leaving"
    /\ number' = number + 1
    /\ UNCHANGED <<known, lru, history>>

\* stop(false)
StopNow ==
    /\ answering # "stopped"
    /\ answering' = "stopped"
    /\ UNCHANGED <<known, lru, number, history>>

RNext ==
    \/ Bye \/ StopNow
    \/ \E r \in Requests :
        \/ Ignored(r)
        \/ Len(history) < MaxNew /\ (Unhandled(r) \/ Answered(r))

RSpec == RInit /\ [][RNext]_rvars

-----------------------------------------------------------------------------
(* Properties *)

RTypeOK ==
    /\ known \subseteq Ids
    /\ lru \in Seq(Ids) /\ Len(lru) <= MaxKnown
    /\ number \in Nat
    /\ answering \in {"running", "leaving", "stopped"}
    /\ history \in Seq(Ids)

\* The set that is searched and the queue that says what to forget hold the same
\* ids, each once: the iterators in the queue never dangle, and no id stays in
\* the set for ever.
KnownIsQueued ==
    /\ known = {lru[i] : i \in 1..Len(lru)}
    /\ \A i, j \in 1..Len(lru) : lru[i] = lru[j] => i = j

\* The queue is the end of the history, newest first.
QueueIsHistory ==
    /\ Len(lru) = IF Len(history) < MaxKnown THEN Len(history) ELSE MaxKnown
    /\ \A i \in 1..Len(lru) : lru[i] = history[Len(history) - i + 1]

\* A message is answered again only when at least MaxKnown other new messages
\* came in between: the repeats of a message, over whatever transport, get one
\* answer.
RepeatsAreFarApart ==
    \A i, j \in 1..Len(history) :
        i < j /\ history[i] = history[j] => j - i > MaxKnown

\* The inductive invariant behind the two.
RInd == RTypeOK /\ KnownIsQueued /\ QueueIsHistory /\ RepeatsAreFarApart
=============================================================================
