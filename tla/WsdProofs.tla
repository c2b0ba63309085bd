----------------------------- MODULE WsdProofs ------------------------------
(***************************************************************************)
(* Proofs about WsdServer, WsdService and ServerManager.                   *)
(*                                                                         *)
(* For any number of servers and repeats, no pending operation outlives    *)
(* the object its handler points at, a running server listens, and only an *)
(* error cuts a Bye short.  What holds of the life cycle and of the        *)
(* message handling apart holds of the two together, for any capacity and  *)
(* ids, and every answer is sent in full.  And for any addresses and       *)
(* interfaces, a running server is lost to the map, or left without a      *)
(* reference, only by a report of its address on another interface.        *)
(***************************************************************************)
EXTENDS WsdService, ServerManager, TLAPS

-----------------------------------------------------------------------------
(* WsdServer *)

\* What holds of one server between any two completion handlers: its sockets
\* are open exactly while it is Running; then it listens, and something refers
\* to it; and the Byes sent are the ones its repeat count says.
StateInv(s) ==
    /\ handler[s] <=> state[s] = "Running"
    /\ state[s] = "Running" => /\ reads[s] = Sockets
                               /\ accepting[s]
                               /\ owned[s] \/ writes[s]["bye"] # Idle

ByeInv(s) ==
    /\ writes[s]["bye"].at = "send" => byes[s] + writes[s]["bye"].left = MulticastRepeats + 1
    /\ writes[s]["bye"].at = "timer" => byes[s] + writes[s]["bye"].left = MulticastRepeats

ServerInv(s) == StateInv(s) /\ ByeInv(s)

WInd == WTypeOK /\ \A s \in Servers : ServerInv(s)

\* What is sent, and how often UdpServerImpl repeats a Bye.
LEMMA KindsFact == "bye" \in Kinds /\ "hello" \in Kinds /\ "reply" \in Kinds /\ Repeats("bye") = MulticastRepeats
  BY DEF Kinds, Repeats

\* A send starts with all its repeats to do.
LEMMA BeginFact == \A k \in Kinds : Begin(k) \in Writes /\ Begin(k).at = "send" /\ Begin(k).left = Repeats(k)
  BY RepeatsAssumption DEF Begin, Repeats, Writes, Kinds

\* Nothing is being sent.
LEMMA IdleFact == Idle \in Writes /\ Idle.at = "idle"
  BY DEF Idle, Writes

\* The invariant holds before a server was created.
LEMMA WInitInd == WInit => WInd
  BY KindsFact, IdleFact DEF WInit, WInd, WTypeOK, ServerInv, StateInv, ByeInv

\* stop(false) keeps the types and touches no other server.
LEMMA StoppedFact ==
    ASSUME WTypeOK, NEW S, Stopped(S)
    PROVE  /\ state' \in [Servers -> {"none", "Running", "Stopped"}]
           /\ handler' \in [Servers -> BOOLEAN]
           /\ \A s \in S \cap Servers : state'[s] # "Running" /\ handler'[s] = FALSE
           /\ \A s \in Servers \ S : state'[s] = state[s] /\ handler'[s] = handler[s]
  BY DEF WTypeOK, Stopped

\* One step per action: types first.
LEMMA WTypeStep == WTypeOK /\ [WNext]_wvars => WTypeOK'
  <1> SUFFICES ASSUME WTypeOK, [WNext]_wvars PROVE WTypeOK'
    OBVIOUS
  <1> USE DEF WTypeOK
  <1>0. CASE UNCHANGED wvars
    BY <1>0 DEF wvars
  <1>1. ASSUME NEW s \in Servers, NEW sock \in Sockets,
               ReadAborted(s, sock) \/ ReadAnswered(s, sock) \/ ReadFails(s, sock)
        PROVE  WTypeOK'
    <2>1. CASE ReadAborted(s, sock)
      BY <2>1 DEF ReadAborted
    <2>2. CASE ReadAnswered(s, sock)
      BY <2>2, KindsFact, BeginFact DEF ReadAnswered
    <2>3. CASE ReadFails(s, sock)
      BY <2>3, StoppedFact DEF ReadFails
    <2> QED
      BY <1>1, <2>1, <2>2, <2>3
  <1>2. ASSUME NEW s \in Servers, AcceptAborted(s) \/ AcceptFails(s)
        PROVE  WTypeOK'
    BY <1>2, StoppedFact DEF AcceptAborted, AcceptFails
  <1>3. ASSUME NEW s \in Servers, NEW k \in Kinds,
               WriteAborted(s, k) \/ WriteRepeats(s, k) \/ WriteCompletes(s, k)
               \/ WriteFails(s, k) \/ TimerFires(s, k)
        PROVE  WTypeOK'
    <2>1. CASE WriteAborted(s, k)
      BY <2>1, IdleFact DEF WriteAborted
    <2>5. CASE WriteFails(s, k)
      BY <2>5, IdleFact, StoppedFact DEF WriteFails
    <2>2. CASE WriteCompletes(s, k)
      BY <2>2, IdleFact, StoppedFact DEF WriteCompletes
    <2>3. CASE WriteRepeats(s, k)
      BY <2>3 DEF WriteRepeats, Writes, Idle
    <2>4. CASE TimerFires(s, k)
      BY <2>4, IdleFact DEF TimerFires, Writes, Idle
    <2> QED
      BY <1>3, <2>1, <2>2, <2>3, <2>4, <2>5
  <1>4. ASSUME NEW s \in Servers, OwnerStarts(s) PROVE WTypeOK'
    BY <1>4, BeginFact, IdleFact DEF OwnerStarts, Started
  <1>5. ASSUME NEW s \in Servers, OwnerStops(s) PROVE WTypeOK'
    BY <1>5, StoppedFact DEF OwnerStops
  <1>6. ASSUME NEW s \in Servers, OwnerByes(s) PROVE WTypeOK'
    BY <1>6, BeginFact, KindsFact DEF OwnerByes, Byed
  <1> QED
    BY <1>0, <1>1, <1>2, <1>3, <1>4, <1>5, <1>6 DEF WNext, Completes, Happens

\* One repeat less to do, one Bye sent.
LEMMA OneLess ==
    ASSUME NEW n \in Nat, NEW left \in Nat \ {0}, NEW total \in Nat, n + left = total + 1
    PROVE  n + (left - 1) = total
  OBVIOUS

\* A step that leaves what concerns t alone keeps its invariant.
LEMMA Frame ==
    ASSUME NEW t \in Servers, ServerInv(t),
           state'[t] = state[t], handler'[t] = handler[t], reads'[t] = reads[t],
           accepting'[t] = accepting[t], owned'[t] = owned[t], byes'[t] = byes[t],
           writes'[t]["bye"] = writes[t]["bye"]
    PROVE  ServerInv(t)'
  BY DEF ServerInv, StateInv, ByeInv

\* One step per action: the invariant of the server that acts, and of the others.
LEMMA WInvStep == WInd /\ WNext => \A t \in Servers : ServerInv(t)'
  <1> SUFFICES ASSUME WInd, WNext, NEW t \in Servers PROVE ServerInv(t)'
    OBVIOUS
  <1> WTypeOK'
    BY WTypeStep DEF WInd
  <1> USE KindsFact, IdleFact DEF WInd, WTypeOK, ServerInv, StateInv, ByeInv
  <1>1. ASSUME NEW s \in Servers, NEW sock \in Sockets, ReadAborted(s, sock)
        PROVE  ServerInv(t)'
    BY <1>1 DEF ReadAborted
  <1>2. ASSUME NEW s \in Servers, NEW sock \in Sockets, ReadAnswered(s, sock)
        PROVE  ServerInv(t)'
    BY <1>2 DEF ReadAnswered
  <1>3. ASSUME NEW s \in Servers, NEW sock \in Sockets, ReadFails(s, sock)
        PROVE  ServerInv(t)'
    BY <1>3, StoppedFact DEF ReadFails
  <1>4. ASSUME NEW s \in Servers, AcceptAborted(s) PROVE ServerInv(t)'
    BY <1>4 DEF AcceptAborted
  <1>5. ASSUME NEW s \in Servers, AcceptFails(s) PROVE ServerInv(t)'
    BY <1>5, StoppedFact DEF AcceptFails
  <1>6. ASSUME NEW s \in Servers, NEW k \in Kinds, WriteAborted(s, k) PROVE ServerInv(t)'
    BY <1>6 DEF WriteAborted
  <1>7. ASSUME NEW s \in Servers, NEW k \in Kinds, WriteRepeats(s, k) PROVE ServerInv(t)'
    <2> USE <1>7 DEF WriteRepeats
    <2>1. CASE t = s /\ k = "bye"
      <3>1. /\ writes[s]["bye"].left \in Nat \ {0}
            /\ writes'[s]["bye"] = [at |-> "timer", left |-> writes[s]["bye"].left - 1]
            /\ writes'[s]["bye"] # Idle
        BY <2>1 DEF Writes, Idle
      <3>4. /\ byes[s] \in Nat /\ byes'[s] = byes[s]
            /\ byes[s] + writes[s]["bye"].left = MulticastRepeats + 1
        BY <2>1
      <3>5. byes[s] + (writes[s]["bye"].left - 1) = MulticastRepeats
        <4> HIDE <1>7 DEF WInd, WTypeOK, ServerInv, StateInv, ByeInv, WriteRepeats
        <4> QED
          BY <3>1, <3>4, OneLess, RepeatsAssumption
      <3>2. ByeInv(s)'
        BY <3>1, <3>4, <3>5
      <3>3. StateInv(s)'
        BY <2>1, <3>1
      <3> QED
        BY <2>1, <3>2, <3>3
    <2>2. CASE t # s \/ k # "bye"
      BY <2>2, Frame
    <2> QED
      BY <2>1, <2>2
  <1>8. ASSUME NEW s \in Servers, NEW k \in Kinds, WriteCompletes(s, k) PROVE ServerInv(t)'
    <2> USE <1>8 DEF WriteCompletes
    <2>1. CASE t = s /\ k = "bye"
      <3>1. writes'[s]["bye"] = Idle /\ state'[s] # "Running" /\ ~handler'[s]
        BY <2>1, StoppedFact
      <3> QED
        BY <2>1, <3>1
    <2>2. CASE t # s /\ k = "bye"
      <3>1. Stopped({s})
        BY <2>2
      <3>2. state'[t] = state[t] /\ handler'[t] = handler[t]
        BY <2>2, <3>1 DEF Stopped
      <3> QED
        BY <2>2, <3>2, Frame
    <2>3. CASE k # "bye"
      BY <2>3, Frame
    <2> QED
      BY <2>1, <2>2, <2>3
  <1>9. ASSUME NEW s \in Servers, NEW k \in Kinds, WriteFails(s, k) PROVE ServerInv(t)'
    <2> USE <1>9 DEF WriteFails
    <2>1. CASE t # s
      BY <2>1, Frame, StoppedFact
    <2>2. CASE t = s
      <3>1. state'[s] # "Running" /\ ~handler'[s] /\ byes'[s] = byes[s]
        BY StoppedFact
      <3>2. writes'[s]["bye"] = writes[s]["bye"] \/ writes'[s]["bye"] = Idle
        OBVIOUS
      <3> QED
        BY <2>2, <3>1, <3>2
    <2> QED
      BY <2>1, <2>2
  <1>10. ASSUME NEW s \in Servers, NEW k \in Kinds, TimerFires(s, k) PROVE ServerInv(t)'
    BY <1>10 DEF TimerFires, Writes, Idle
  <1>11. ASSUME NEW s \in Servers, OwnerStarts(s) PROVE ServerInv(t)'
    BY <1>11 DEF OwnerStarts, Started
  <1>12. ASSUME NEW s \in Servers, OwnerStops(s) PROVE ServerInv(t)'
    BY <1>12, StoppedFact DEF OwnerStops
  <1>13. ASSUME NEW s \in Servers, OwnerByes(s) PROVE ServerInv(t)'
    BY <1>13, BeginFact, RepeatsAssumption DEF OwnerByes, Byed
  <1> QED
    BY <1>1, <1>2, <1>3, <1>4, <1>5, <1>6, <1>7, <1>8, <1>9, <1>10, <1>11, <1>12, <1>13
    DEF WNext, Completes, Happens

\* The invariant holds throughout.
LEMMA WIndCorrect == WSpec => []WInd
  <1>1. WInd /\ [WNext]_wvars => WInd'
    <2>1. CASE UNCHANGED wvars
      BY <2>1 DEF wvars, WInd, WTypeOK, ServerInv, StateInv, ByeInv
    <2>2. CASE WNext
      BY <2>2, WTypeStep, WInvStep DEF WInd
    <2> QED
      BY <2>1, <2>2
  <1> QED
    BY WInitInd, <1>1, PTL DEF WSpec

\* The states, handlers, pending operations and counters keep their types.
THEOREM WTypeCorrect == WSpec => []WTypeOK
  <1>1. WInd => WTypeOK
    BY DEF WInd
  <1> QED
    BY <1>1, WIndCorrect, PTL

\* With an owner that stops a server before it releases it, no completion
\* handler of its UDP or HTTP server ever finds m_handler dangling.
THEOREM NoDanglingHandlerAlways == WSpec => []NoDanglingHandler
  <1>1. WInd => NoDanglingHandler
    BY DEF WInd, ServerInv, StateInv, NoDanglingHandler, Alive
  <1> QED
    BY <1>1, WIndCorrect, PTL

\* A running server always has both read waits and its accept pending.
THEOREM RunningListensAlways == WSpec => []RunningListens
  <1>1. WInd => RunningListens
    BY DEF WInd, ServerInv, StateInv, RunningListens
  <1> QED
    BY <1>1, WIndCorrect, PTL

\* Arithmetic for the count of Byes.
LEMMA SuccessorInjective == \A m, n \in Nat : m + 1 = n + 1 => m = n
  OBVIOUS

\* Only an error ends a graceful stop before the last Bye is out.
THEOREM ByeIsCompleteAlways == WSpec => ByeIsComplete
  <1>1. WInd /\ [WNext]_wvars =>
          [\A s \in Servers :
              /\ state[s] = "Running" /\ state'[s] = "Stopped"
              /\ ~owned[s] /\ ~failed'[s]
              => byes[s] = MulticastRepeats]_wvars
    <2> SUFFICES ASSUME WInd, WNext, NEW s \in Servers,
                        state[s] = "Running", state'[s] = "Stopped",
                        ~owned[s], ~failed'[s]
                 PROVE  byes[s] = MulticastRepeats
      BY DEF wvars
    <2> USE DEF WInd, WTypeOK
    <2>1. \E k \in Kinds : WriteCompletes(s, k)
      <3>1. ASSUME NEW t \in Servers, t # s, Completes(t) \/ Happens(t)
            PROVE  FALSE
        <4>1. Stopped({t}) => state'[s] = state[s]
          BY <3>1 DEF Stopped
        <4>2. Stopped({t}) \/ UNCHANGED state
          BY <3>1 DEF Completes, Happens, ReadAborted, ReadAnswered, ReadFails,
             AcceptAborted, AcceptFails, WriteAborted, WriteRepeats, WriteCompletes, WriteFails,
             TimerFires
        <4> QED
          BY <4>1, <4>2
      <3>2. ASSUME NEW t \in Servers, OwnerStarts(t) \/ OwnerStops(t) \/ OwnerByes(t)
            PROVE  FALSE
        <4>1. CASE OwnerStarts(t)
          BY <4>1 DEF OwnerStarts, Started
        <4>2. CASE OwnerStops(t)
          <5>1. t # s /\ Stopped({t})
            BY <4>2 DEF OwnerStops
          <5> QED
            BY <5>1 DEF Stopped
        <4>3. CASE OwnerByes(t)
          BY <4>3 DEF OwnerByes
        <4> QED
          BY <3>2, <4>1, <4>2, <4>3
      <3>3. ASSUME Happens(s) PROVE FALSE
        BY <3>3, KindsFact DEF Happens, ReadAnswered, ReadFails, AcceptFails, WriteFails
      <3>4. ASSUME Completes(s) PROVE \E k \in Kinds : WriteCompletes(s, k)
        BY <3>4 DEF Completes, ReadAborted, AcceptAborted, WriteAborted, WriteRepeats, TimerFires
      <3> QED
        BY <3>1, <3>2, <3>3, <3>4 DEF WNext
    <2>2. PICK k \in Kinds : WriteCompletes(s, k)
      BY <2>1
    <2>3. k = "bye"
      BY <2>2 DEF WriteCompletes
    <2>4. writes[s]["bye"].at = "send" /\ writes[s]["bye"].left = 1 /\ byes[s] \in Nat
      BY <2>2, <2>3 DEF WriteCompletes
    <2>5. byes[s] + 1 = MulticastRepeats + 1
      BY <2>4 DEF ServerInv, ByeInv
    <2>6. byes[s] \in Nat /\ MulticastRepeats \in Nat
      BY <2>4, RepeatsAssumption
    <2> HIDE DEF WInd, WTypeOK
    <2> QED
      BY <2>5, <2>6, SuccessorInjective
  <1> QED
    BY <1>1, WIndCorrect, PTL DEF WSpec, ByeIsComplete

-----------------------------------------------------------------------------
(* WsdService *)

(* The message ids a server remembers (Requests), for every number of them    *)
(* and every sequence of requests.  The set and the queue agree because both  *)
(* are the end of the history; repeats are far apart because a new id is none *)
(* of the last MaxKnown.                                                      *)

\* What pushing an id to the front of the queue makes of it.
LEMMA PushFront ==
    ASSUME NEW id \in Ids, NEW q \in Seq(Ids), NEW n \in Nat, n <= Len(q)
    PROVE  LET r == <<id>> \o SubSeq(q, 1, n) IN
           /\ r \in Seq(Ids)
           /\ Len(r) = n + 1
           /\ r[1] = id
           /\ \A i \in 2..n + 1 : r[i] = q[i - 1]
<1>1. SubSeq(q, 1, n) \in Seq(Ids) /\ Len(SubSeq(q, 1, n)) = n
  OBVIOUS
<1>2. \A i \in 1..n : SubSeq(q, 1, n)[i] = q[i]
  OBVIOUS
<1> QED
  BY <1>1, <1>2

\* checkNewMessageId with a new id keeps all parts of the invariant.
LEMMA RememberStep ==
    ASSUME RInd, NEW id \in Ids, New(id), Remembered(id)
    PROVE  /\ known' \subseteq Ids
           /\ lru' \in Seq(Ids) /\ Len(lru') <= MaxKnown
           /\ history' \in Seq(Ids)
           /\ KnownIsQueued'
           /\ QueueIsHistory'
           /\ RepeatsAreFarApart'
<1> DEFINE n == IF Len(lru) = MaxKnown THEN MaxKnown - 1 ELSE Len(lru)
           h == Len(history)
<1>t. lru \in Seq(Ids) /\ history \in Seq(Ids) /\ known \subseteq Ids /\ Len(lru) <= MaxKnown
  BY DEF RInd, RTypeOK
<1>m. MaxKnown \in Nat /\ MaxKnown > 0
  BY RequestsAssumption
<1>n. n \in Nat /\ n <= Len(lru) /\ n < MaxKnown
  BY <1>t, <1>m
<1>l. lru' = <<id>> \o SubSeq(lru, 1, n)
  <2>1. CASE Len(lru) = MaxKnown
    BY <2>1 DEF Remembered
  <2>2. CASE Len(lru) # MaxKnown
    <3>1. SubSeq(lru, 1, Len(lru)) = lru
      BY <1>t
    <3> QED
      BY <2>2, <3>1 DEF Remembered
  <2> QED
    BY <2>1, <2>2
<1>1. /\ lru' \in Seq(Ids)
      /\ Len(lru') = n + 1
      /\ lru'[1] = id
      /\ \A i \in 2..n + 1 : lru'[i] = lru[i - 1]
  BY <1>t, <1>n, <1>l, PushFront
<1>h. /\ history' \in Seq(Ids)
      /\ Len(history') = h + 1
      /\ history'[h + 1] = id
      /\ \A i \in 1..h : history'[i] = history[i]
  BY <1>t DEF Remembered
<1>2. known' = {lru[i] : i \in 1..n} \cup {id}
  <2>1. known = {lru[i] : i \in 1..Len(lru)} /\ \A i, j \in 1..Len(lru) : lru[i] = lru[j] => i = j
    BY DEF RInd, KnownIsQueued
  <2>2. CASE Len(lru) = MaxKnown
    <3>1. known' = (known \cup {id}) \ {lru[MaxKnown]}
      BY <2>2 DEF Remembered
    <3>2. lru[MaxKnown] # id
      BY <2>1, <2>2, <1>m DEF New
    <3>3. \A i \in 1..Len(lru) : i \in 1..n <=> lru[i] # lru[MaxKnown]
      BY <2>1, <2>2, <1>m, <1>t
    <3>4. 1..n \subseteq 1..Len(lru)
      BY <1>n, <1>t
    <3> HIDE DEF n
    <3> QED
      BY <2>1, <3>1, <3>2, <3>3, <3>4
  <2>3. CASE Len(lru) # MaxKnown
    <3>1. n = Len(lru) /\ known' = known \cup {id}
      BY <2>3 DEF Remembered
    <3> QED
      BY <2>1, <3>1
  <2> QED
    BY <2>2, <2>3
<1>3. \A i \in 1..n : lru[i] # id
  BY <1>n, <1>t DEF RInd, KnownIsQueued, New
<1>4. KnownIsQueued'
  <2>1. known' = {lru'[i] : i \in 1..Len(lru')}
    <3>1. ASSUME NEW x \in known' PROVE \E i \in 1..Len(lru') : x = lru'[i]
      <4>1. CASE x = id
        BY <4>1, <1>1, <1>n
      <4>2. CASE x # id
        <5>1. PICK i \in 1..n : x = lru[i]
          BY <4>2, <1>2
        <5>2. i + 1 \in 2..n + 1 /\ i + 1 \in 1..Len(lru') /\ (i + 1) - 1 = i
          BY <1>1, <1>n
        <5> QED
          BY <5>1, <5>2, <1>1
      <4> QED
        BY <4>1, <4>2
    <3>2. ASSUME NEW i \in 1..Len(lru') PROVE lru'[i] \in known'
      <4>1. CASE i = 1
        BY <4>1, <1>1, <1>2
      <4>2. CASE i # 1
        <5>1. i \in 2..n + 1 /\ i - 1 \in 1..n
          BY <4>2, <1>1, <1>n
        <5> QED
          BY <5>1, <1>1, <1>2
      <4> QED
        BY <4>1, <4>2
    <3> QED
      BY <3>1, <3>2
  <2>2. ASSUME NEW i \in 1..Len(lru'), NEW j \in 1..Len(lru'), lru'[i] = lru'[j], i < j
        PROVE FALSE
    <3>1. j \in 2..n + 1 /\ j - 1 \in 1..n /\ lru'[j] = lru[j - 1]
      BY <2>2, <1>1, <1>n
    <3>2. CASE i = 1
      BY <3>1, <3>2, <2>2, <1>1, <1>3
    <3>3. CASE i # 1
      <4>1. i \in 2..n + 1 /\ lru'[i] = lru[i - 1] /\ i - 1 # j - 1
        BY <3>3, <2>2, <1>1, <1>n
      <4>2. i - 1 \in 1..Len(lru) /\ j - 1 \in 1..Len(lru)
        BY <3>1, <4>1, <1>n, <1>t
      <4> QED
        BY <2>2, <3>1, <4>1, <4>2 DEF RInd, KnownIsQueued
    <3> QED
      BY <3>2, <3>3
  <2>3. \A i, j \in 1..Len(lru') : lru'[i] = lru'[j] => i = j
    <3> SUFFICES ASSUME NEW i \in 1..Len(lru'), NEW j \in 1..Len(lru'), lru'[i] = lru'[j], i # j
                 PROVE FALSE
      OBVIOUS
    <3>1. i < j \/ j < i
      BY <1>1
    <3> QED
      BY <3>1, <2>2
  <2> QED
    BY <2>1, <2>3 DEF KnownIsQueued
<1>5. QueueIsHistory'
  <2>1. n = IF h < MaxKnown THEN IF h = MaxKnown THEN MaxKnown - 1 ELSE h ELSE MaxKnown - 1
    BY <1>t, <1>m DEF RInd, QueueIsHistory
  <2>l. h \in Nat
    BY <1>t
  <2>2. Len(lru') = IF Len(history') < MaxKnown THEN Len(history') ELSE MaxKnown
    BY <2>1, <1>1, <1>h, <1>m, <1>t
  <2>3. ASSUME NEW i \in 1..Len(lru') PROVE lru'[i] = history'[Len(history') - i + 1]
    <3>1. CASE i = 1
      BY <3>1, <1>1, <1>h, <1>t
    <3>2. CASE i # 1
      <4>n. n <= h
        BY <2>1, <2>l, <1>m
      <4>1. i \in 2..n + 1 /\ i - 1 \in 1..Len(lru) /\ n <= h
        <5> HIDE DEF n, h
        <5> QED
          BY <3>2, <4>n, <1>1, <1>n, <1>t
      <4>2. lru'[i] = lru[i - 1] /\ lru[i - 1] = history[h - (i - 1) + 1]
        BY <4>1, <1>1 DEF RInd, QueueIsHistory
      <4>3. h - (i - 1) + 1 \in 1..h /\ h - (i - 1) + 1 = (h + 1) - i + 1
        BY <4>1, <1>n, <1>t
      <4> QED
        BY <4>2, <4>3, <1>h
    <3> QED
      BY <3>1, <3>2
  <2> QED
    BY <2>2, <2>3 DEF QueueIsHistory
<1>6. RepeatsAreFarApart'
  <2> SUFFICES ASSUME NEW i \in 1..Len(history'), NEW j \in 1..Len(history'),
                      i < j, history'[i] = history'[j]
               PROVE j - i > MaxKnown
    BY DEF RepeatsAreFarApart
  <2>1. CASE j # h + 1
    <3>1. i \in 1..h /\ j \in 1..h
      BY <2>1, <1>h, <1>t
    <3> QED
      BY <3>1, <1>h DEF RInd, RepeatsAreFarApart
  <2>2. CASE j = h + 1
    <3>1. i \in 1..h /\ history[i] = id
      BY <2>2, <1>h, <1>t
    <3>2. SUFFICES ASSUME h + 1 - i <= MaxKnown PROVE FALSE
      BY <2>2, <1>m, <1>t, <3>1
    <3>3. h + 1 - i \in 1..Len(lru) /\ h - (h + 1 - i) + 1 = i
      BY <3>1, <3>2, <1>t, <1>m DEF RInd, QueueIsHistory
    <3>4. lru[h + 1 - i] = id
      BY <3>1, <3>3 DEF RInd, QueueIsHistory
    <3> QED
      BY <3>3, <3>4 DEF RInd, KnownIsQueued, New
  <2> QED
    BY <2>1, <2>2
<1>7. known' \subseteq Ids
  BY <1>t DEF Remembered
<1>8. Len(lru') <= MaxKnown
  BY <1>1, <1>n, <1>m
<1> QED
  BY <1>1, <1>h, <1>4, <1>5, <1>6, <1>7, <1>8

\* The invariant holds when the server starts.
LEMMA RInitInd == RInit => RInd
BY RequestsAssumption DEF RInit, RInd, RTypeOK, KnownIsQueued, QueueIsHistory, RepeatsAreFarApart

\* Every request keeps it.
LEMMA RStepInd == RInd /\ [RNext]_rvars => RInd'
<1> SUFFICES ASSUME RInd, [RNext]_rvars PROVE RInd'
  OBVIOUS
<1>1. CASE Bye \/ StopNow \/ UNCHANGED rvars \/ \E r \in Requests : Ignored(r)
  <2>1. UNCHANGED <<known, lru, history>>
    BY <1>1 DEF Bye, StopNow, rvars, Ignored
  <2>2. number' \in Nat /\ answering' \in {"running", "leaving", "stopped"}
    BY <1>1 DEF Bye, StopNow, rvars, Ignored, RInd, RTypeOK
  <2> QED
    BY <2>1, <2>2 DEF RInd, RTypeOK, KnownIsQueued, QueueIsHistory, RepeatsAreFarApart
<1>2. ASSUME NEW r \in Requests, Unhandled(r) \/ Answered(r) PROVE RInd'
  <2>1. r.id \in Ids /\ New(r.id) /\ Remembered(r.id)
    BY <1>2 DEF Unhandled, Answered, Requests
  <2>2. number' \in Nat /\ answering' \in {"running", "leaving", "stopped"}
    BY <1>2 DEF Unhandled, Answered, RInd, RTypeOK
  <2> QED
    BY <2>1, <2>2, RememberStep DEF RInd, RTypeOK
<1> QED
  BY <1>1, <1>2 DEF RNext

\* The invariant holds always.
LEMMA RIndAlways == RSpec => []RInd
BY RInitInd, RStepInd, PTL DEF RSpec

\* Type correctness of the bookkeeping of message ids (checkNewMessageId).
THEOREM RTypeCorrect == RSpec => []RTypeOK
<1>1. RInd => RTypeOK
  BY DEF RInd
<1> QED
  BY <1>1, RIndAlways, PTL

\* m_knownMessageIds and m_knownMessageIdsLRU never disagree.
THEOREM KnownIsQueuedAlways == RSpec => []KnownIsQueued
<1>1. RInd => KnownIsQueued
  BY DEF RInd
<1> QED
  BY <1>1, RIndAlways, PTL

\* A message is taken for new again only after more than MaxKnown others.
THEOREM RepeatsAreFarApartAlways == RSpec => []RepeatsAreFarApart
<1>1. RInd => RepeatsAreFarApart
  BY DEF RInd
<1> QED
  BY <1>1, RIndAlways, PTL

-----------------------------------------------------------------------------
(* The composition *)

\* A handler of the composition is a handler of the life cycle, or leaves that
\* alone.
LEMMA ServerPart == [SNext]_svars => [WNext]_wvars
  <1> SUFFICES ASSUME [SNext]_svars PROVE [WNext]_wvars
    OBVIOUS
  <1>0. CASE UNCHANGED svars
    BY <1>0 DEF svars
  <1>1. ASSUME NEW s \in Servers, ServerStarts(s) \/ ServerLeaves(s) PROVE WNext
    BY <1>1 DEF ServerStarts, ServerLeaves, WNext
  <1>2. ASSUME NEW s \in Servers, ServerContinues(s) PROVE WNext
    BY <1>2 DEF ServerContinues, WNext, Completes, Happens
  <1>3. ASSUME NEW s \in Servers, NEW k \in Kinds, CopySent(s, k) PROVE WNext
    BY <1>3 DEF CopySent, WNext, Completes
  <1>4. ASSUME NEW s \in Servers, NEW sock \in Sockets, NEW r \in Requests, DatagramAnswered(s, sock, r) PROVE WNext
    BY <1>4 DEF DatagramAnswered, WNext, Happens
  <1>5. ASSUME NEW s \in Servers, NEW sock \in Sockets, NEW r \in Requests, DatagramIgnored(s, sock, r) \/ HttpRequest(s, r) PROVE UNCHANGED wvars
    BY <1>5 DEF DatagramIgnored, HttpRequest
  <1>6. Sockets # {}
    BY DEF Sockets
  <1> QED
    BY <1>0, <1>1, <1>2, <1>3, <1>4, <1>5, <1>6 DEF SNext

\* The server of the composition is a server: the theorems on WsdServer
\* hold of it.
THEOREM ServiceIsServer == SSpec => WSpec
  <1>1. SInit => WInit
    BY DEF SInit
  <1> QED
    BY <1>1, ServerPart, PTL DEF SSpec, WSpec

\* A server without messages satisfies the invariant of the message handling.
LEMMA Forgotten ==
    /\ SInit => RInd
    /\ \A s \in Servers : ServerStarts(s) => RInd'
  <1> USE RequestsAssumption DEF RInd, RTypeOK, KnownIsQueued, QueueIsHistory, RepeatsAreFarApart
  <1>1. SInit => RInd
    BY DEF SInit
  <1>2. ASSUME NEW s \in Servers, ServerStarts(s) PROVE RInd'
    BY <1>2 DEF ServerStarts
  <1> QED
    BY <1>1, <1>2

\* A handler of the composition handles a message, forgets all of them, or leaves
\* them alone.
LEMMA RequestsPart ==
    ASSUME [SNext]_svars
    PROVE  [RNext]_rvars \/ \E s \in Servers : ServerStarts(s)
  <1>0. CASE UNCHANGED svars
    BY <1>0 DEF svars
  <1>1. ASSUME NEW s \in Servers, ServerContinues(s) PROVE [RNext]_rvars
    BY <1>1 DEF ServerContinues, StopsAnswering, RNext
  <1>2. ASSUME NEW s \in Servers, ServerLeaves(s) PROVE [RNext]_rvars
    BY <1>2 DEF ServerLeaves, RNext
  <1>3. ASSUME NEW s \in Servers, NEW k \in Kinds, CopySent(s, k) PROVE UNCHANGED rvars
    BY <1>3 DEF CopySent
  <1>4. ASSUME NEW s \in Servers, NEW sock \in Sockets, NEW r \in Requests,
               DatagramAnswered(s, sock, r) \/ DatagramIgnored(s, sock, r) \/ HttpRequest(s, r)
        PROVE  [RNext]_rvars
    BY <1>4 DEF DatagramAnswered, DatagramIgnored, HttpRequest, RNext
  <1>5. Sockets # {}
    BY DEF Sockets
  <1> QED
    BY <1>0, <1>1, <1>2, <1>3, <1>4, <1>5 DEF SNext

\* The messages of the composition are handled as those of Requests.
LEMMA ServiceRInd == SSpec => []RInd
  <1>1. SInit => RInd
    BY Forgotten
  <1>2. RInd /\ [SNext]_svars => RInd'
    BY RequestsPart, RStepInd, Forgotten
  <1> QED
    BY <1>1, <1>2, PTL DEF SSpec

\* With sends, stops and restarts in between, a message is still answered
\* again only after more than the capacity of other ones.
THEOREM ServiceRepeatsAreFarApart == SSpec => []RepeatsAreFarApart
  <1>1. RInd => RepeatsAreFarApart
    BY DEF RInd
  <1> QED
    BY <1>1, ServiceRInd, PTL

-----------------------------------------------------------------------------
(* Until when a server answers, and the copies that are owed. *)

\* The life cycle's inductive invariant, in the composition.
LEMMA ServiceWInd == SSpec => []WInd
  BY ServiceIsServer, WIndCorrect, PTL

\* A reply under way keeps the type of a write.
LEMMA WriteFact ==
    ASSUME WInd, NEW s \in Servers, NEW k \in Kinds
    PROVE  writes[s][k] \in Writes
  BY DEF WInd, WTypeOK

\* A server that stopped has not begun a Bye again, and while it runs the phase
\* is what its Bye says.
LEMMA PhaseStep == WInd /\ WInd' /\ PhaseFollowsState /\ [SNext]_svars => PhaseFollowsState'
  <1> SUFFICES ASSUME WInd, WInd', PhaseFollowsState, [SNext]_svars PROVE PhaseFollowsState'
    OBVIOUS
  <1> USE OneServerAssumption, KindsFact, IdleFact, BeginFact DEF PhaseFollowsState
  <1>0. CASE UNCHANGED svars
    BY <1>0 DEF svars, wvars, rvars
  <1>1. ASSUME NEW s \in Servers, ServerStarts(s) PROVE PhaseFollowsState'
    BY <1>1 DEF ServerStarts, OwnerStarts, Started, WInd, WTypeOK
  <1>2. ASSUME NEW s \in Servers, ServerContinues(s) PROVE PhaseFollowsState'
    <2>1. owned'[s] => owned[s]
      BY <1>2 DEF ServerContinues, ReadAborted, ReadFails, AcceptAborted, AcceptFails, WriteAborted,
            WriteRepeats, WriteCompletes, WriteFails, OwnerStops, WInd, WTypeOK
    <2>2. state'[s] = state[s] \/ (state[s] = "Running" /\ state'[s] = "Stopped")
      BY <1>2 DEF ServerContinues, ReadAborted, ReadFails, AcceptAborted, AcceptFails, WriteAborted,
            WriteRepeats, WriteCompletes, WriteFails, OwnerStops, Stopped, WInd, WTypeOK
    <2>3. CASE state'[s] = state[s] /\ state[s] = "Running"
      <3>1. writes'[s]["bye"] = Idle <=> writes[s]["bye"] = Idle
        BY <1>2, <2>3 DEF ServerContinues, ReadAborted, ReadFails, AcceptAborted, AcceptFails, WriteAborted,
            WriteRepeats, WriteCompletes, WriteFails, OwnerStops, Stopped, WInd, WTypeOK, ServerInv, StateInv, Idle
      <3> QED
        BY <1>2, <2>1, <2>3, <3>1 DEF ServerContinues, StopsAnswering, rvars
    <2>4. CASE state'[s] = state[s] /\ state[s] # "Running"
      BY <1>2, <2>4 DEF ServerContinues, StopsAnswering, rvars
    <2>5. CASE state'[s] # state[s]
      BY <1>2, <2>2, <2>5 DEF ServerContinues, StopsAnswering, StopNow
    <2> QED
      BY <2>3, <2>4, <2>5
  <1>3. ASSUME NEW s \in Servers, NEW k \in Kinds, CopySent(s, k) PROVE PhaseFollowsState'
    BY <1>3 DEF CopySent, TimerFires, rvars, WInd, WTypeOK, ServerInv, StateInv, Idle
  <1>4. ASSUME NEW s \in Servers, ServerLeaves(s) PROVE PhaseFollowsState'
    BY <1>4 DEF ServerLeaves, OwnerByes, Byed, Bye, rvars, WInd, WTypeOK
  <1>5. ASSUME NEW s \in Servers, NEW sock \in Sockets, NEW r \in Requests,
               DatagramAnswered(s, sock, r) \/ DatagramIgnored(s, sock, r) \/ HttpRequest(s, r)
        PROVE  PhaseFollowsState'
    BY <1>5 DEF DatagramAnswered, DatagramIgnored, HttpRequest, ReadAnswered, Answered, Unhandled, Ignored,
          wvars, rvars, WInd, WTypeOK
  <1>6. Sockets # {}
    BY DEF Sockets
  <1> QED
    BY <1>0, <1>1, <1>2, <1>3, <1>4, <1>5, <1>6 DEF SNext

\* Requests are answered exactly while the server runs, up to the last Bye.
THEOREM PhaseFollowsStateAlways == SSpec => []PhaseFollowsState
  <1>1. SInit => PhaseFollowsState
    BY DEF SInit, WInit, PhaseFollowsState
  <1> QED
    BY <1>1, PhaseStep, ServiceWInd, PTL DEF SSpec

\* Each answer adds the copies its send will repeat, each repeat takes one away.
LEMMA OwedStep == WInd /\ WInd' /\ AnswersInFull /\ [SNext]_svars => AnswersInFull'
  <1> SUFFICES ASSUME WInd, WInd', AnswersInFull, [SNext]_svars PROVE AnswersInFull'
    OBVIOUS
  <1> USE OneServerAssumption, RepeatsAssumption, KindsFact, IdleFact, BeginFact DEF AnswersInFull
  <1>0. CASE UNCHANGED svars
    BY <1>0 DEF svars, wvars
  <1>1. ASSUME NEW s \in Servers, ServerStarts(s) PROVE AnswersInFull'
    BY <1>1 DEF ServerStarts, OwnerStarts, Started, WInd, WTypeOK, Idle
  <1>2. ASSUME NEW s \in Servers, ServerContinues(s) PROVE AnswersInFull'
    <2>1. SUFFICES ASSUME state'[s] = "Running"
                   PROVE  owed' = IF writes'[s]["reply"].at = "send" THEN writes'[s]["reply"].left - 1
                                  ELSE writes'[s]["reply"].left
      OBVIOUS
    <2>2. state[s] = "Running" /\ handler[s] /\ owed' = owed
      BY <1>2, <2>1 DEF ServerContinues, ReadAborted, ReadFails, AcceptAborted, AcceptFails, WriteAborted,
            WriteRepeats, WriteCompletes, WriteFails, OwnerStops, Stopped, WInd, WTypeOK, ServerInv, StateInv
    <2>3. writes[s]["reply"] \in Writes
      BY WriteFact
    <2>4. \/ writes'[s]["reply"] = writes[s]["reply"]
          \/ /\ writes[s]["reply"].at = "send"
             /\ \/ writes'[s]["reply"] = [at |-> "timer", left |-> writes[s]["reply"].left - 1]
                \/ writes[s]["reply"].left = 1 /\ writes'[s]["reply"] = Idle
      BY <1>2, <2>1, <2>2 DEF ServerContinues, ReadAborted, ReadFails, AcceptAborted, AcceptFails, WriteAborted,
            WriteRepeats, WriteCompletes, WriteFails, OwnerStops, Stopped, WInd, WTypeOK
    <2> QED
      BY <2>2, <2>3, <2>4 DEF Writes, Idle
  <1>3. ASSUME NEW s \in Servers, NEW k \in Kinds, CopySent(s, k) PROVE AnswersInFull'
    <2>1. writes[s]["reply"] \in Writes
      BY WriteFact
    <2>2. CASE k = "reply"
      BY <1>3, <2>1, <2>2 DEF CopySent, TimerFires, WInd, WTypeOK, ServerInv, StateInv, Writes, Idle
    <2>3. CASE k # "reply"
      BY <1>3, <2>3 DEF CopySent, TimerFires, WInd, WTypeOK
    <2> QED
      BY <2>2, <2>3
  <1>4. ASSUME NEW s \in Servers, ServerLeaves(s) PROVE AnswersInFull'
    BY <1>4 DEF ServerLeaves, OwnerByes, Byed, WInd, WTypeOK
  <1>5. ASSUME NEW s \in Servers, NEW sock \in Sockets, NEW r \in Requests, DatagramAnswered(s, sock, r)
        PROVE  AnswersInFull'
    <2>1. writes'[s]["reply"] = Begin("reply") /\ owed' = owed + UnicastRepeats - 1 /\ state' = state
      BY <1>5 DEF DatagramAnswered, ReadAnswered, WInd, WTypeOK
    <2>2. state[s] = "Running" => owed = 0
      BY <1>5 DEF DatagramAnswered, ReadAnswered, Idle
    <2> QED
      BY <2>1, <2>2 DEF Begin, Repeats
  <1>6. ASSUME NEW s \in Servers, NEW sock \in Sockets, NEW r \in Requests,
               DatagramIgnored(s, sock, r) \/ HttpRequest(s, r)
        PROVE  AnswersInFull'
    BY <1>6 DEF DatagramIgnored, HttpRequest, wvars
  <1>7. Sockets # {}
    BY DEF Sockets
  <1> QED
    BY <1>0, <1>1, <1>2, <1>3, <1>4, <1>5, <1>6, <1>7 DEF SNext

\* For any number of repeats, a request that was taken for new gets all copies
\* of its answer while the server runs.
THEOREM AnswersInFullAlways == SSpec => []AnswersInFull
  <1>1. SInit => AnswersInFull
    BY DEF SInit, WInit, AnswersInFull
  <1> QED
    BY <1>1, OwedStep, ServiceWInd, PTL DEF SSpec

-----------------------------------------------------------------------------
(* ServerManager *)

SMTypeOK ==
    /\ WTypeOK
    /\ servers \in [Addrs -> Servers \cup {Absent, Null}]
    /\ ifaceOf \in [Servers -> Ifaces \cup {NoIface}]
    /\ addrOf \in [Servers -> Addrs \cup {NoAddr}]
    /\ moved \subseteq Servers
    /\ monitoring \in BOOLEAN
    /\ phase \in {"run", "stopping", "returned", "failed", "undefined"}

\* The map and the servers agree: an entry is the server that was created for
\* its address, and the map refers to the servers of its entries only.
MapInv ==
    /\ \A a \in Addrs : servers[a] \in Servers => addrOf[servers[a]] = a /\ owned[servers[a]]
    /\ \A s \in Servers : owned[s] => addrOf[s] \in Addrs /\ servers[addrOf[s]] = s

\* A server has its sockets open exactly while it is Running; it then has an
\* address, and unless that moved, the map refers to it, or the Bye of the
\* graceful stop does.
RunInv(s) ==
    /\ handler[s] <=> state[s] = "Running"
    /\ state[s] = "Running" => addrOf[s] \in Addrs
    /\ state[s] = "Running" /\ s \notin moved =>
          \/ owned[s]
          \/ phase # "run" /\ writes[s]["bye"] # Idle

SMInd == SMTypeOK /\ MapInv /\ \A s \in Servers : RunInv(s)

\* The invariant holds before an address was reported.
LEMMA SMInitInd == SMInit => SMInd
  <1> SUFFICES ASSUME SMInit PROVE SMInd
    OBVIOUS
  <1>1. WTypeOK
    BY WInitInd DEF SMInit, WInd
  <1>2. SMTypeOK
    BY <1>1, ManagerAssumption DEF SMTypeOK, SMInit
  <1>3. MapInv
    BY ManagerAssumption DEF SMInit, WInit, MapInv
  <1>4. \A s \in Servers : RunInv(s)
    BY DEF SMInit, WInit, RunInv
  <1> QED
    BY <1>2, <1>3, <1>4 DEF SMInd

-----------------------------------------------------------------------------
(* Completion handlers of the servers *)

\* What a completion handler leaves alone, and what it may do to each server: it
\* stops a server or does not touch its state; and it takes the Bye from a server
\* only when that is not, or no longer, running.
LEMMA ServerStepFact ==
    ASSUME SMInd, NEW s \in Servers, Completes(s) \/ Happens(s)
    PROVE  /\ WTypeOK'
           /\ owned' = owned
           /\ \A t \in Servers :
                /\ state'[t] = "Running" => state[t] = "Running"
                /\ handler'[t] <=> state'[t] = "Running"
                /\ state'[t] = "Running" /\ writes[t]["bye"] # Idle => writes'[t]["bye"] # Idle
  <1> USE DEF SMInd, SMTypeOK, RunInv
  <1>1. WTypeOK'
    BY WTypeStep DEF WNext
  <1> DEFINE Kept == /\ owned' = owned
                     /\ \A t \in Servers :
                          /\ state'[t] = "Running" => state[t] = "Running"
                          /\ handler'[t] <=> state'[t] = "Running"
                          /\ state'[t] = "Running" /\ writes[t]["bye"] # Idle => writes'[t]["bye"] # Idle
  <1> USE <1>1, KindsFact, IdleFact DEF WTypeOK
  <1>w. ASSUME NEW k \in Kinds, Stopped({s}), owned' = owned, writes' = [writes EXCEPT ![s][k] = Idle]
        PROVE  Kept
    <2>1. /\ state'[s] # "Running" /\ handler'[s] = FALSE
          /\ \A t \in Servers \ {s} : state'[t] = state[t] /\ handler'[t] = handler[t]
      BY <1>w, StoppedFact
    <2>2. \A t \in Servers \ {s} : writes'[t] = writes[t]
      BY <1>w
    <2>3. \A t \in Servers \ {s} : handler[t] <=> state[t] = "Running"
      OBVIOUS
    <2> QED
      BY <1>w, <2>1, <2>2, <2>3
  <1>2. ASSUME NEW sock \in Sockets, ReadAborted(s, sock) \/ ReadAnswered(s, sock) PROVE Kept
    BY <1>2 DEF ReadAborted, ReadAnswered
  <1>3. ASSUME NEW sock \in Sockets, ReadFails(s, sock) PROVE Kept
    BY <1>3, StoppedFact DEF ReadFails
  <1>4. CASE AcceptAborted(s)
    BY <1>4 DEF AcceptAborted
  <1>5. CASE AcceptFails(s)
    BY <1>5, StoppedFact DEF AcceptFails
  <1>6. ASSUME NEW k \in Kinds, WriteAborted(s, k) PROVE Kept
    BY <1>6 DEF WriteAborted
  <1>7. ASSUME NEW k \in Kinds, WriteRepeats(s, k) PROVE Kept
    <2>1. [at |-> "timer", left |-> writes[s][k].left - 1] # Idle
      BY DEF Idle
    <2> QED
      BY <1>7, <2>1 DEF WriteRepeats
  <1>8. ASSUME NEW k \in Kinds, WriteCompletes(s, k) PROVE Kept
    <2>1. CASE k = "bye"
      <3>1. Stopped({s}) /\ owned' = owned /\ writes' = [writes EXCEPT ![s][k] = Idle]
        BY <1>8, <2>1 DEF WriteCompletes
      <3> QED
        BY <3>1, <1>w
    <2>2. CASE k # "bye"
      BY <1>8, <2>2 DEF WriteCompletes
    <2> QED
      BY <2>1, <2>2
  <1>9. ASSUME NEW k \in Kinds, WriteFails(s, k) PROVE Kept
    <2>1. Stopped({s}) /\ owned' = owned /\ writes' = [writes EXCEPT ![s][k] = Idle]
      BY <1>9 DEF WriteFails
    <2> QED
      BY <2>1, <1>w
  <1>10. ASSUME NEW k \in Kinds, TimerFires(s, k) PROVE Kept
    <2>1. writes[s][k] \in [at : {"send", "timer"}, left : Nat \ {0}]
      BY <1>10 DEF TimerFires, Writes, Idle
    <2>2. [writes[s][k] EXCEPT !.at = "send"].at = "send"
      BY <2>1
    <2>3. [writes[s][k] EXCEPT !.at = "send"] # Idle
      BY <2>2 DEF Idle
    <2> QED
      BY <1>10, <2>3 DEF TimerFires
  <1>11. Kept
    <2> HIDE DEF SMInd, SMTypeOK, RunInv, WTypeOK
    <2>1. CASE Completes(s)
      BY <2>1, <1>2, <1>4, <1>6, <1>7, <1>8, <1>10 DEF Completes
    <2>2. CASE Happens(s)
      BY <2>2, <1>2, <1>3, <1>5, <1>9 DEF Happens
    <2> QED
      BY <2>1, <2>2
  <1> QED
    BY <1>1, <1>11

\* The event loop keeps the invariant.
LEMMA ServerStepInd ==
    ASSUME SMInd, NEW s \in Servers, ServerStep(s)
    PROVE  SMInd'
  <1>1. UNCHANGED mvars /\ (Completes(s) \/ Happens(s))
    BY DEF ServerStep
  <1>2. SMTypeOK'
    BY <1>1, ServerStepFact DEF SMInd, SMTypeOK, mvars
  <1>3. MapInv'
    BY <1>1, ServerStepFact DEF SMInd, MapInv, mvars
  <1>4. ASSUME NEW t \in Servers PROVE RunInv(t)'
    BY <1>1, ServerStepFact DEF SMInd, RunInv, mvars
  <1> QED
    BY <1>2, <1>3, <1>4 DEF SMInd

-----------------------------------------------------------------------------
(* addAddress, removeAddress and stop *)

\* The entry of an address loses its server: no other entry has that server.
LEMMA EntryErased ==
    ASSUME SMInd, NEW a \in Addrs, NEW x, x \notin Servers,
           owned' = [t \in Servers |-> owned[t] /\ t # servers[a]],
           servers' = [servers EXCEPT ![a] = x],
           UNCHANGED addrOf
    PROVE  MapInv'
  <1> USE DEF SMInd, SMTypeOK, WTypeOK
  <1>1. ASSUME NEW b \in Addrs, servers'[b] \in Servers
        PROVE  addrOf'[servers'[b]] = b /\ owned'[servers'[b]]
    <2>1. b # a /\ servers'[b] = servers[b] /\ servers[b] \in Servers
      BY <1>1
    <2>2. addrOf[servers[b]] = b /\ owned[servers[b]]
      BY <2>1 DEF MapInv
    <2>3. servers[b] # servers[a]
      BY <2>1, <2>2 DEF MapInv
    <2> QED
      BY <2>1, <2>2, <2>3
  <1>2. ASSUME NEW t \in Servers, owned'[t]
        PROVE  addrOf'[t] \in Addrs /\ servers'[addrOf'[t]] = t
    <2>1. owned[t] /\ t # servers[a]
      BY <1>2
    <2>2. addrOf[t] \in Addrs /\ servers[addrOf[t]] = t
      BY <2>1 DEF MapInv
    <2> QED
      BY <2>1, <2>2
  <1> QED
    BY <1>1, <1>2 DEF MapInv

\* A new server takes the entry.  Its address was free to bind to, so that the
\* server that had the entry was not running any more.
LEMMA AddCreatesInd ==
    ASSUME SMInd, NEW i \in Ifaces, NEW a \in Addrs, AddCreates(i, a)
    PROVE  SMInd'
  <1> USE DEF SMInd, SMTypeOK, WTypeOK
  <1>1. PICK n \in Servers :
          /\ Gone(n) /\ Started(n)
          /\ owned' = [t \in Servers |-> t = n \/ (owned[t] /\ t # servers[a])]
          /\ servers' = [servers EXCEPT ![a] = n]
          /\ ifaceOf' = [ifaceOf EXCEPT ![n] = i]
          /\ addrOf' = [addrOf EXCEPT ![n] = a]
          /\ moved' = (moved \ {n}) \cup Overwritten(i, a)
    BY DEF AddCreates
  <1>2. phase = "run" /\ Bindable(a) /\ UNCHANGED <<monitoring, phase>>
    BY DEF AddCreates
  <1>3. ~owned[n]
    BY <1>1 DEF Gone, Alive
  <1>4. SMTypeOK'
    BY <1>1, <1>2, BeginFact, IdleFact DEF Started, Overwritten
  <1>5. MapInv'
    <2>1. ASSUME NEW b \in Addrs, servers'[b] \in Servers
          PROVE  addrOf'[servers'[b]] = b /\ owned'[servers'[b]]
      <3>1. CASE b = a
        BY <1>1, <3>1
      <3>2. CASE b # a
        <4>1. servers'[b] = servers[b] /\ servers[b] \in Servers
          BY <1>1, <2>1, <3>2
        <4>2. addrOf[servers[b]] = b /\ owned[servers[b]]
          BY <4>1 DEF MapInv
        <4>3. servers[b] # n /\ servers[b] # servers[a]
          BY <1>3, <3>2, <4>1, <4>2 DEF MapInv
        <4> QED
          BY <1>1, <4>1, <4>2, <4>3
      <3> QED
        BY <3>1, <3>2
    <2>2. ASSUME NEW t \in Servers, owned'[t]
          PROVE  addrOf'[t] \in Addrs /\ servers'[addrOf'[t]] = t
      BY <1>1, <1>3, <2>2 DEF MapInv
    <2> QED
      BY <2>1, <2>2 DEF MapInv
  <1>6. ASSUME NEW t \in Servers PROVE RunInv(t)'
    <2>1. CASE t = n
      BY <1>1, <1>2, <2>1 DEF Started, RunInv
    <2>2. CASE t # n
      <3>1. /\ state'[t] = state[t] /\ handler'[t] = handler[t] /\ writes'[t] = writes[t]
            /\ addrOf'[t] = addrOf[t] /\ (owned'[t] <=> owned[t] /\ t # servers[a])
            /\ t \notin moved' => t \notin moved
        BY <1>1, <2>2 DEF Started
      <3>2. state[t] = "Running" /\ owned[t] => t # servers[a]
        BY <1>2 DEF Bindable, RunInv, MapInv
      <3> QED
        BY <1>2, <3>1, <3>2 DEF RunInv
    <2> QED
      BY <2>1, <2>2
  <1> QED
    BY <1>4, <1>5, <1>6

\* The entry is left without a server.  If its server runs it was overwritten,
\* because addAddress returns early when the interface is the same.
LEMMA AddFailsInd ==
    ASSUME SMInd, NEW i \in Ifaces, NEW a \in Addrs, AddFails(i, a)
    PROVE  SMInd'
  <1> USE DEF SMInd, SMTypeOK, WTypeOK, AddFails
  <1>1. SMTypeOK'
    BY DEF Overwritten
  <1>2. MapInv'
    BY EntryErased, ManagerAssumption
  <1>3. ASSUME NEW t \in Servers PROVE RunInv(t)'
    <2>1. state[t] = "Running" /\ t = servers[a] => t \in moved'
      BY DEF Serves, Overwritten
    <2>2. /\ state'[t] = state[t] /\ handler'[t] = handler[t] /\ writes'[t] = writes[t]
          /\ addrOf'[t] = addrOf[t] /\ (owned'[t] <=> owned[t] /\ t # servers[a])
          /\ t \notin moved' => t \notin moved
      OBVIOUS
    <2> QED
      BY <2>1, <2>2 DEF RunInv
  <1> QED
    BY <1>1, <1>2, <1>3

\* The server of the entry is stopped before the entry goes.
LEMMA RemoveAddressInd ==
    ASSUME SMInd, NEW i \in Ifaces, NEW a \in Addrs, RemoveAddress(i, a)
    PROVE  SMInd'
  <1> USE DEF SMInd, SMTypeOK, RemoveAddress
  <1>0. /\ state' \in [Servers -> {"none", "Running", "Stopped"}]
        /\ handler' \in [Servers -> BOOLEAN]
        /\ \A s \in {servers[a]} \cap Servers : state'[s] # "Running" /\ handler'[s] = FALSE
        /\ \A s \in Servers \ {servers[a]} : state'[s] = state[s] /\ handler'[s] = handler[s]
    BY StoppedFact
  <1>1. SMTypeOK'
    BY <1>0 DEF WTypeOK
  <1>2. MapInv'
    BY EntryErased, ManagerAssumption
  <1>3. ASSUME NEW t \in Servers PROVE RunInv(t)'
    BY <1>0 DEF RunInv, WTypeOK
  <1> QED
    BY <1>1, <1>2, <1>3

\* Every running server of the map says Bye, which from then on refers to it.
LEMMA StopInd ==
    ASSUME SMInd, Stop
    PROVE  SMInd'
  <1> USE DEF SMInd, SMTypeOK, Stop
  <1>1. SMTypeOK'
    BY KindsFact, BeginFact DEF WTypeOK, Byed
  <1>2. MapInv'
    BY ManagerAssumption DEF MapInv, WTypeOK
  <1>3. ASSUME NEW t \in Servers PROVE RunInv(t)'
    <2>1. state[t] = "Running" /\ t \notin moved => t \in Mapped
      BY DEF RunInv, MapInv, Mapped
    <2>2. state[t] = "Running" /\ t \notin moved => writes'[t]["bye"] = Begin("bye")
      BY <2>1, KindsFact DEF Byed, WTypeOK
    <2>3. Begin("bye") # Idle
      BY DEF Begin, Idle
    <2> QED
      BY <2>2, <2>3 DEF RunInv
  <1> QED
    BY <1>1, <1>2, <1>3

\* The invariant holds throughout.
LEMMA SMIndCorrect == SMSpec => []SMInd
  <1>1. ASSUME SMInd, [SMNext]_smvars PROVE SMInd'
    <2>1. ASSUME UNCHANGED wvars, UNCHANGED <<servers, ifaceOf, addrOf, moved>>,
                 phase' \in {"stopping", "returned", "failed", "undefined"} \/ phase' = phase,
                 monitoring' \in BOOLEAN
          PROVE  SMInd'
      <3>1. SMTypeOK'
        BY <1>1, <2>1 DEF SMInd, SMTypeOK, WTypeOK, wvars
      <3>2. MapInv'
        BY <1>1, <2>1 DEF SMInd, MapInv, wvars
      <3>3. ASSUME NEW t \in Servers PROVE RunInv(t)'
        BY <1>1, <2>1 DEF SMInd, RunInv, wvars
      <3> QED
        BY <3>1, <3>2, <3>3 DEF SMInd
    <2>2. ASSUME NEW r \in Reports,
                 \/ AddCreates(r[1], r[2]) \/ AddFails(r[1], r[2]) \/ AddThrows(r[1], r[2])
                 \/ RemoveAddress(r[1], r[2])
          PROVE  SMInd'
      <3>1. r[1] \in Ifaces /\ r[2] \in Addrs
        BY ManagerAssumption
      <3>2. CASE AddThrows(r[1], r[2])
        BY <1>1, <2>1, <3>2 DEF AddThrows, SMInd, SMTypeOK
      <3> QED
        BY <1>1, <2>2, <3>1, <3>2, AddCreatesInd, AddFailsInd, RemoveAddressInd
    <2>3. ASSUME NEW s \in Servers, ServerStep(s) \/ CallsDestroyed(s) PROVE SMInd'
      <3>1. CASE ServerStep(s)
        BY <1>1, <3>1, ServerStepInd
      <3>2. CASE CallsDestroyed(s)
        BY <1>1, <2>1, <3>2 DEF CallsDestroyed, SMInd, SMTypeOK
      <3> QED
        BY <2>3, <3>1, <3>2
    <2>4. CASE MonitorFails \/ MonitorAborted \/ RunReturns
      BY <1>1, <2>1, <2>4 DEF MonitorFails, MonitorAborted, RunReturns, SMInd, SMTypeOK
    <2>5. CASE Stop
      BY <1>1, <2>5, StopInd
    <2>6. CASE Ended \/ UNCHANGED smvars
      BY <1>1, <2>1, <2>6 DEF Ended, smvars, mvars, SMInd, SMTypeOK
    <2> QED
      BY <1>1, <2>2, <2>3, <2>4, <2>5, <2>6 DEF SMNext, Address
  <1> QED
    BY SMInitInd, <1>1, PTL DEF SMSpec

-----------------------------------------------------------------------------
\* However many addresses, interfaces and servers there are, removeAddress and
\* stop find every running server in the map, except those whose address was
\* reported on another interface.
THEOREM RunningIsMappedAlways == SMSpec => []RunningIsMapped
  <1>1. SMInd => RunningIsMapped
    BY DEF SMInd, MapInv, RunInv, RunningIsMapped
  <1> QED
    BY <1>1, SMIndCorrect, PTL

\* Such a move is also the only way to a completion handler that calls a
\* destroyed WsdServerImpl, in any phase of the event loop.
THEOREM DanglingNeedsMoveAlways == SMSpec => []DanglingNeedsMove
  <1>1. SMInd => DanglingNeedsMove
    BY DEF SMInd, RunInv, DanglingNeedsMove, Alive
  <1> QED
    BY <1>1, SMIndCorrect, PTL
=============================================================================
