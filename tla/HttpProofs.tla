----------------------------- MODULE HttpProofs -----------------------------
(***************************************************************************)
(* Proofs about HttpServer, the connections of an HTTP server, about       *)
(* HttpConnection, the requests of one of them, and about                  *)
(* HttpRequestParser, the bytes of a request.                              *)
(***************************************************************************)
EXTENDS HttpServer, HttpConnection, HttpRequestParser, FiniteSetTheorems, SequenceTheorems, TLAPS

-----------------------------------------------------------------------------
(* HttpServer, for every number of connections, every limit and every maximal *)
(* duration.  The heart is WaitIsTimely: the timer is set only when all       *)
(* connections are younger than the maximal duration, so that no connection   *)
(* passes twice that before the timer is due.                                 *)

\* The invariant holds at the start.
LEMMA HInitInd == HInit => HInd
<1> SUFFICES ASSUME HInit PROVE HInd
  OBVIOUS
<1>1. HTypeOK /\ StoppedHasNone /\ CollectionDue /\ NoIdleConnection /\ WaitIsTimely /\ AgeBound
  BY DEF HInit, HTypeOK, StoppedHasNone, CollectionDue, NoIdleConnection, WaitIsTimely, AgeBound
<1>2. conns = {} /\ IsFiniteSet(conns)
  BY FS_EmptySet DEF HInit
<1>3. SameAddrBound
  <2>1. \A a \in Addrs : SameAddr(a) = {}
    BY <1>2 DEF SameAddr
  <2> QED
    BY <2>1, FS_EmptySet, HttpAssumption DEF SameAddrBound
<1> QED
  BY <1>1, <1>2, <1>3 DEF HInd

\* Fewer connections, with the addresses of before, respect the limit.
LEMMA FewerConns ==
    ASSUME HInd, conns' \subseteq conns, \A c \in conns' : addrOf'[c] = addrOf[c]
    PROVE  IsFiniteSet(conns') /\ SameAddrBound'
<1>1. IsFiniteSet(conns) /\ IsFiniteSet(conns')
  BY FS_Subset DEF HInd
<1>2. ASSUME NEW a \in Addrs PROVE Cardinality(SameAddr(a)') <= MaxSameAddr
  <2>1. SameAddr(a)' \subseteq SameAddr(a) /\ SameAddr(a) \subseteq conns
    BY DEF SameAddr
  <2>2. IsFiniteSet(SameAddr(a)) /\ IsFiniteSet(SameAddr(a)')
    BY <1>1, <2>1, FS_Subset
  <2>3. /\ Cardinality(SameAddr(a)') <= Cardinality(SameAddr(a))
        /\ Cardinality(SameAddr(a)) \in Nat /\ Cardinality(SameAddr(a)') \in Nat
    BY <2>1, <2>2, FS_Subset, FS_CardinalityType
  <2>4. Cardinality(SameAddr(a)) <= MaxSameAddr
    BY DEF HInd, SameAddrBound
  <2> QED
    BY <2>3, <2>4, HttpAssumption
<1> QED
  BY <1>1, <1>2 DEF SameAddrBound

\* What goes when a connection from a comes in.
LEMMA EvictedFacts ==
    ASSUME HInd, NEW a \in Addrs, NEW out \in Evicted(a)
    PROVE  /\ out \subseteq SameAddr(a)
           /\ Cardinality(SameAddr(a) \ out) < MaxSameAddr
           /\ \A c \in out, d \in SameAddr(a) : startOf[c] <= startOf[d]
<1>1. IsFiniteSet(SameAddr(a)) /\ Cardinality(SameAddr(a)) \in Nat
  <2>1. SameAddr(a) \subseteq conns /\ IsFiniteSet(conns)
    BY DEF SameAddr, HInd
  <2> QED
    BY <2>1, FS_Subset, FS_CardinalityType
<1>2. CASE Cardinality(SameAddr(a)) < MaxSameAddr
  <2>1. out = {} /\ SameAddr(a) \ out = SameAddr(a)
    BY <1>2 DEF Evicted
  <2> QED
    BY <2>1, <1>2
<1>3. CASE ~(Cardinality(SameAddr(a)) < MaxSameAddr)
  <2>1. PICK c \in SameAddr(a) : out = {c} /\ \A d \in SameAddr(a) : startOf[c] <= startOf[d]
    BY <1>3 DEF Evicted
  <2>2. Cardinality(SameAddr(a) \ {c}) = Cardinality(SameAddr(a)) - 1
    BY <2>1, <1>1, FS_RemoveElement
  <2>3. Cardinality(SameAddr(a)) <= MaxSameAddr
    BY DEF HInd, SameAddrBound
  <2> QED
    BY <2>1, <2>2, <2>3, <1>1, HttpAssumption
<1> QED
  BY <1>2, <1>3

\* An accepted connection keeps the limit: it replaces one, or there was room.
LEMMA AcceptBound ==
    ASSUME HInd, NEW c \in Conns, NEW a \in Addrs, Accept(c, a)
    PROVE  IsFiniteSet(conns') /\ SameAddrBound'
<1>1. PICK out \in Evicted(a) : conns' = (conns \ out) \cup {c}
  BY DEF Accept
<1>2. c \notin conns
  BY DEF Accept, HInd, NoIdleConnection
<1>3. /\ out \subseteq SameAddr(a)
      /\ Cardinality(SameAddr(a) \ out) < MaxSameAddr
  BY EvictedFacts
<1>4. IsFiniteSet(conns) /\ IsFiniteSet(conns \ out) /\ IsFiniteSet(conns')
  <2>1. IsFiniteSet(conns) /\ conns \ out \subseteq conns
    BY DEF HInd
  <2>2. IsFiniteSet(conns \ out)
    BY <2>1, FS_Subset
  <2> QED
    BY <1>1, <2>1, <2>2, FS_AddElement
<1>5. addrOf \in [Conns -> Addrs \cup {NoAddr}] /\ addrOf' = [addrOf EXCEPT ![c] = a] /\ conns \subseteq Conns
  BY DEF Accept, HInd, HTypeOK
<1>6. ASSUME NEW b \in Addrs PROVE Cardinality(SameAddr(b)') <= MaxSameAddr
  <2>1. CASE b = a
    <3>1. SameAddr(a)' = (SameAddr(a) \ out) \cup {c}
      BY <1>1, <1>2, <1>5 DEF SameAddr
    <3>2. IsFiniteSet(SameAddr(a) \ out) /\ c \notin SameAddr(a) \ out
      <4>1. SameAddr(a) \ out \subseteq conns
        BY DEF SameAddr
      <4> QED
        BY <4>1, <1>2, <1>4, FS_Subset
    <3>3. /\ Cardinality(SameAddr(a)') = Cardinality(SameAddr(a) \ out) + 1
          /\ Cardinality(SameAddr(a) \ out) \in Nat
      BY <3>1, <3>2, FS_AddElement, FS_CardinalityType
    <3> QED
      BY <2>1, <3>3, <1>3, HttpAssumption
  <2>2. CASE b # a
    <3>1. SameAddr(b)' \subseteq SameAddr(b) /\ SameAddr(b) \subseteq conns
      BY <2>2, <1>1, <1>2, <1>5 DEF SameAddr
    <3>2. IsFiniteSet(SameAddr(b)) /\ IsFiniteSet(SameAddr(b)')
      BY <3>1, <1>4, FS_Subset
    <3>3. /\ Cardinality(SameAddr(b)') <= Cardinality(SameAddr(b))
          /\ Cardinality(SameAddr(b)) \in Nat /\ Cardinality(SameAddr(b)') \in Nat
      BY <3>1, <3>2, FS_Subset, FS_CardinalityType
    <3>4. Cardinality(SameAddr(b)) <= MaxSameAddr
      BY DEF HInd, SameAddrBound
    <3> QED
      BY <3>3, <3>4, HttpAssumption
  <2> QED
    BY <2>1, <2>2
<1> QED
  BY <1>4, <1>6 DEF SameAddrBound

\* Accepting a connection keeps the rest of the invariant.
LEMMA AcceptRest ==
    ASSUME HInd, NEW c \in Conns, NEW a \in Addrs, Accept(c, a)
    PROVE  HTypeOK' /\ StoppedHasNone' /\ CollectionDue' /\ NoIdleConnection' /\ WaitIsTimely' /\ AgeBound'
<1>1. PICK out \in Evicted(a) : conns' = (conns \ out) \cup {c}
  BY DEF Accept
<1>t. /\ conns \subseteq Conns /\ addrOf \in [Conns -> Addrs \cup {NoAddr}]
      /\ startOf \in [Conns -> Nat]
      /\ op \in [Conns -> {"none", "read", "reply", "last"}]
      /\ armed \in Nat \cup {-1} /\ expired \in Nat /\ aborted \in Nat /\ now \in Nat
      /\ MaxDuration \in Nat /\ MaxDuration > 0
  BY HttpAssumption DEF HInd, HTypeOK
<1>2. /\ addrOf' = [addrOf EXCEPT ![c] = a] /\ startOf' = [startOf EXCEPT ![c] = now]
      /\ op' = [op EXCEPT ![c] = "read"]
      /\ UNCHANGED <<handler, accepting, expired, now, broken>>
  BY DEF Accept
<1>s. StoppedHasNone'
  BY DEF Accept, StoppedHasNone
<1>3. CASE conns = {}
  <2>1. conns' = {c} /\ armed' = now + MaxDuration /\ aborted' \in Nat
    <3>1. out = {} \/ out \subseteq conns
      BY EvictedFacts DEF SameAddr
    <3> QED
      BY <1>1, <1>3, <1>t, <3>1 DEF Accept, ScheduleGC
  <2>2. HTypeOK'
    BY <2>1, <1>2, <1>t DEF HTypeOK, HInd
  <2>3. CollectionDue' /\ NoIdleConnection'
    BY <2>1, <1>2, <1>t DEF CollectionDue, NoIdleConnection
  <2>4. WaitIsTimely' /\ AgeBound'
    BY <2>1, <1>2, <1>t DEF WaitIsTimely, AgeBound
  <2> QED
    BY <1>s, <2>2, <2>3, <2>4
<1>4. CASE conns # {}
  <2>1. UNCHANGED <<armed, aborted>>
    BY <1>4 DEF Accept
  <2>2. HTypeOK'
    BY <2>1, <1>1, <1>2, <1>t DEF HTypeOK, HInd
  <2>3. CollectionDue' /\ NoIdleConnection'
    BY <2>1, <1>1, <1>2, <1>4, <1>t DEF CollectionDue, NoIdleConnection, HInd
  <2>4. \A d \in conns' : startOf'[d] = now \/ (d \in conns /\ startOf'[d] = startOf[d])
    BY <1>1, <1>2, <1>t
  <2>5. WaitIsTimely'
    <3>1. \A d \in conns' : startOf'[d] \in Nat
      BY <1>1, <1>2, <1>t
    <3> QED
      BY <2>1, <2>4, <3>1, <1>2, <1>t DEF WaitIsTimely, HInd
  <2>6. AgeBound'
    BY <2>4, <1>2, <1>t DEF AgeBound, HInd
  <2> QED
    BY <1>s, <2>2, <2>3, <2>5, <2>6
<1> QED
  BY <1>3, <1>4

\* A step that ends connections, and touches nothing else of those that stay,
\* keeps the invariant, provided that a collection stays due and is timely.
LEMMA EndsStep ==
    ASSUME HInd, HTypeOK', now' = now,
           conns' \subseteq conns,
           \A c \in conns' : addrOf'[c] = addrOf[c] /\ startOf'[c] = startOf[c] /\ op'[c] # "none",
           CollectionDue', StoppedHasNone',
           armed' # -1 =>
               \/ armed' = armed
               \/ armed' = now + MaxDuration /\ \A c \in conns' : now - startOf[c] <= MaxDuration
    PROVE  HInd'
<1>1. IsFiniteSet(conns') /\ SameAddrBound'
  BY FewerConns
<1>2. NoIdleConnection'
  BY DEF NoIdleConnection
<1>t. /\ startOf \in [Conns -> Nat] /\ conns \subseteq Conns
      /\ now \in Nat /\ MaxDuration \in Nat /\ armed \in Nat \cup {-1}
  BY HttpAssumption DEF HInd, HTypeOK
<1>3. AgeBound'
  BY <1>t DEF AgeBound, HInd
<1>4. WaitIsTimely'
  <2>1. CASE armed' = armed
    BY <2>1, <1>t DEF WaitIsTimely, HInd
  <2>2. CASE armed' = now + MaxDuration /\ \A c \in conns' : now - startOf[c] <= MaxDuration
    <3>1. \A c \in conns' : startOf[c] \in Nat /\ now - startOf[c] <= MaxDuration /\ startOf'[c] = startOf[c]
      BY <2>2, <1>t
    <3> QED
      BY <2>2, <3>1, <1>t DEF WaitIsTimely
  <2> QED
    BY <2>1, <2>2 DEF WaitIsTimely
<1> QED
  BY <1>1, <1>2, <1>3, <1>4 DEF HInd

\* stop() drops all connections.
LEMMA StoppedStep ==
    ASSUME HInd, Stopped, CancelGC, UNCHANGED expired, accepting' \in BOOLEAN
    PROVE  HInd'
<1>1. /\ conns' = {} /\ armed' = -1 /\ aborted' \in Nat
      /\ UNCHANGED <<addrOf, startOf, op, now, broken>> /\ handler' = FALSE
  BY DEF Stopped, CancelGC, HInd, HTypeOK
<1>2. HTypeOK' /\ StoppedHasNone' /\ CollectionDue'
  BY <1>1 DEF HInd, HTypeOK, StoppedHasNone, CollectionDue
<1> QED
  BY <1>1, <1>2, EndsStep

\* The collection drops what is too old and sets the timer for the rest.
LEMMA CollectStep ==
    ASSUME HInd, Collect PROVE HInd'
<1>t. /\ armed \in Nat \cup {-1} /\ expired \in Nat /\ aborted \in Nat
      /\ now \in Nat /\ MaxDuration \in Nat
  BY HttpAssumption DEF HInd, HTypeOK
<1>1. expired > 0 /\ expired' = expired - 1 /\ UNCHANGED <<handler, accepting, addrOf, startOf, op, now, broken>>
  BY DEF Collect
<1>2. CASE ~handler
  <2>1. UNCHANGED <<conns, armed, aborted>>
    BY <1>2 DEF Collect
  <2>2. CASE conns = {}
    <3>1. HTypeOK' /\ StoppedHasNone' /\ CollectionDue'
      BY <1>1, <1>t, <2>1, <2>2 DEF HInd, HTypeOK, StoppedHasNone, CollectionDue
    <3> QED
      BY <1>1, <2>1, <2>2, <3>1, EndsStep
  <2> QED
    BY <2>2, <1>2 DEF HInd, StoppedHasNone
<1>3. CASE handler
  <2>1. conns' = {c \in conns : now - startOf[c] <= MaxDuration}
    BY <1>3 DEF Collect
  <2>2. CASE conns' # {}
    <3>1. armed' = now + MaxDuration /\ aborted' \in Nat
      BY <1>3, <1>t, <2>2 DEF Collect, ScheduleGC
    <3>2. HTypeOK' /\ StoppedHasNone' /\ CollectionDue'
      BY <1>1, <1>t, <2>1, <3>1 DEF HInd, HTypeOK, StoppedHasNone, CollectionDue
    <3>3. \A c \in conns' : op'[c] # "none" /\ now - startOf[c] <= MaxDuration /\ c \in conns
      BY <1>1, <2>1 DEF HInd, NoIdleConnection
    <3> QED
      BY <1>1, <2>1, <3>1, <3>2, <3>3, EndsStep
  <2>3. CASE conns' = {}
    <3>1. UNCHANGED <<armed, aborted>>
      BY <1>3, <2>3 DEF Collect
    <3>2. HTypeOK' /\ StoppedHasNone' /\ CollectionDue'
      BY <1>1, <1>t, <2>3, <3>1 DEF HInd, HTypeOK, StoppedHasNone, CollectionDue
    <3> QED
      BY <1>1, <2>3, <3>1, <3>2, EndsStep
  <2> QED
    BY <2>2, <2>3
<1> QED
  BY <1>2, <1>3

\* A connection ends, and with the last one the timer.
LEMMA FinishStep ==
    ASSUME HInd, NEW c \in Conns, Finish(c) PROVE HInd'
<1>t. /\ conns \subseteq Conns /\ addrOf \in [Conns -> Addrs \cup {NoAddr}]
      /\ startOf \in [Conns -> Nat] /\ op \in [Conns -> {"none", "read", "reply", "last"}]
      /\ armed \in Nat \cup {-1} /\ aborted \in Nat
  BY DEF HInd, HTypeOK
<1>1. /\ conns' = conns \ {c} /\ UNCHANGED <<handler, accepting, expired, now, broken>>
      /\ op' = [op EXCEPT ![c] = "none"]
      /\ addrOf' = [addrOf EXCEPT ![c] = NoAddr]
      /\ startOf' = [startOf EXCEPT ![c] = 0]
  BY DEF Finish, Finished, Destroyed
<1>2. IF conns' = {} THEN armed' = -1 /\ aborted' \in Nat ELSE UNCHANGED <<armed, aborted>>
  BY <1>t DEF Finish, Finished, CancelGC
<1>3. \A d \in conns' : /\ d \in conns /\ addrOf'[d] = addrOf[d] /\ startOf'[d] = startOf[d]
                        /\ op'[d] # "none"
  BY <1>t, <1>1 DEF HInd, NoIdleConnection
<1>4. HTypeOK'
  BY <1>t, <1>1, <1>2, <1>3 DEF HInd, HTypeOK
<1>5. CollectionDue' /\ StoppedHasNone' /\ (armed' # -1 => armed' = armed)
  BY <1>1, <1>2 DEF HInd, CollectionDue, StoppedHasNone
<1> QED
  BY <1>1, <1>3, <1>4, <1>5, EndsStep

\* A read or a write of a connection ends and the next one begins, or the last
\* handler of a connection that was dropped runs.
LEMMA OpStep ==
    ASSUME HInd, NEW c \in Conns, OpAborted(c) \/ RequestRead(c) \/ ReplySent(c) PROVE HInd'
<1>t. /\ conns \subseteq Conns /\ addrOf \in [Conns -> Addrs \cup {NoAddr}]
      /\ startOf \in [Conns -> Nat] /\ op \in [Conns -> {"none", "read", "reply", "last"}]
  BY DEF HInd, HTypeOK
<1>1. UNCHANGED <<handler, accepting, conns, gcvars, now, broken>>
  BY DEF OpAborted, RequestRead, ReplySent
<1>2. \A d \in conns : addrOf'[d] = addrOf[d] /\ startOf'[d] = startOf[d] /\ op'[d] # "none"
  BY <1>t DEF OpAborted, Destroyed, RequestRead, ReplySent, HInd, NoIdleConnection
<1>3. /\ addrOf' \in [Conns -> Addrs \cup {NoAddr}] /\ startOf' \in [Conns -> Nat]
      /\ op' \in [Conns -> {"none", "read", "reply", "last"}]
  BY <1>t DEF OpAborted, Destroyed, RequestRead, ReplySent
<1>4. HTypeOK' /\ StoppedHasNone' /\ CollectionDue'
  BY <1>1, <1>2, <1>3 DEF HInd, HTypeOK, StoppedHasNone, CollectionDue, gcvars
<1> QED
  BY <1>1, <1>2, <1>4, EndsStep DEF gcvars

\* Time passes only while the pending wait is not due.
LEMMA TickStep ==
    ASSUME HInd, Tick PROVE HInd'
<1>t. /\ startOf \in [Conns -> Nat] /\ conns \subseteq Conns
      /\ armed \in Nat \cup {-1} /\ now \in Nat /\ MaxDuration \in Nat
  BY HttpAssumption DEF HInd, HTypeOK
<1>1. /\ now' = now + 1 /\ expired = 0 /\ (armed = -1 \/ now < armed)
      /\ UNCHANGED <<handler, accepting, conns, addrOf, startOf, op, gcvars, broken>>
  BY DEF Tick
<1>2. HTypeOK' /\ StoppedHasNone' /\ CollectionDue' /\ NoIdleConnection'
  BY <1>1, <1>t DEF HInd, HTypeOK, StoppedHasNone, CollectionDue, NoIdleConnection, gcvars
<1>3. IsFiniteSet(conns') /\ SameAddrBound'
  BY <1>1, FewerConns
<1>4. WaitIsTimely'
  BY <1>1, <1>t DEF HInd, WaitIsTimely, gcvars
<1>5. AgeBound'
  <2> SUFFICES ASSUME NEW c \in conns PROVE (now + 1) - startOf[c] <= 2 * MaxDuration
    BY <1>1 DEF AgeBound
  <2>1. armed # -1 /\ now < armed
    BY <1>1 DEF HInd, CollectionDue
  <2>2. armed - startOf[c] <= 2 * MaxDuration
    BY <2>1 DEF HInd, WaitIsTimely
  <2> QED
    BY <2>1, <2>2, <1>t
<1> QED
  BY <1>2, <1>3, <1>4, <1>5 DEF HInd

\* Every step keeps the invariant.
LEMMA HStepInd == HInd /\ [HNext]_hvars => HInd'
<1> SUFFICES ASSUME HInd, [HNext]_hvars PROVE HInd'
  OBVIOUS
<1>1. ASSUME NEW c \in Conns, NEW a \in Addrs, Accept(c, a) PROVE HInd'
  BY <1>1, AcceptBound, AcceptRest DEF HInd
<1>2. CASE AcceptThrows \/ AcceptAborted \/ UNCHANGED hvars
  <2>1. UNCHANGED <<handler, conns, addrOf, startOf, op, gcvars, now>>
    BY <1>2 DEF AcceptThrows, AcceptAborted, hvars, gcvars
  <2>2. handler' \in BOOLEAN /\ accepting' \in BOOLEAN /\ broken' \in BOOLEAN
    BY <1>2 DEF AcceptThrows, AcceptAborted, hvars, HInd, HTypeOK
  <2>3. HTypeOK' /\ StoppedHasNone' /\ CollectionDue'
    BY <2>1, <2>2 DEF HInd, HTypeOK, StoppedHasNone, CollectionDue, gcvars
  <2>4. \A d \in conns : op'[d] # "none"
    BY <2>1 DEF HInd, NoIdleConnection
  <2> QED
    BY <2>1, <2>3, <2>4, EndsStep DEF gcvars
<1>3. CASE AcceptFails \/ Stop
  <2>1. Stopped /\ CancelGC /\ UNCHANGED expired /\ accepting' \in BOOLEAN
    BY <1>3 DEF AcceptFails, Stop, HInd, HTypeOK
  <2> QED
    BY <2>1, StoppedStep
<1>4. CASE TimerExpires \/ CollectAborted
  <2>1. UNCHANGED <<handler, accepting, conns, addrOf, startOf, op, now, broken>>
    BY <1>4 DEF TimerExpires, CollectAborted
  <2>2. HTypeOK' /\ StoppedHasNone' /\ CollectionDue' /\ (armed' # -1 => armed' = armed)
    BY <1>4, <2>1 DEF HInd, HTypeOK, StoppedHasNone, CollectionDue, TimerExpires, CollectAborted
  <2>3. \A d \in conns : op'[d] # "none"
    BY <2>1 DEF HInd, NoIdleConnection
  <2> QED
    BY <2>1, <2>2, <2>3, EndsStep
<1>5. CASE Collect
  BY <1>5, CollectStep
<1>6. ASSUME NEW c \in Conns, OpAborted(c) \/ RequestRead(c) \/ ReplySent(c) \/ Finish(c) PROVE HInd'
  BY <1>6, OpStep, FinishStep
<1>7. CASE Tick
  BY <1>7, TickStep
<1> QED
  BY <1>1, <1>2, <1>3, <1>4, <1>5, <1>6, <1>7 DEF HNext

\* The invariant holds always.
LEMMA HIndAlways == HSpec => []HInd
BY HInitInd, HStepInd, PTL DEF HSpec

\* Type correctness of the HTTP server's connections and timer.
THEOREM HTypeCorrect == HSpec => []HTypeOK
<1>1. HInd => HTypeOK
  BY DEF HInd
<1> QED
  BY <1>1, HIndAlways, PTL

\* scheduleGC, onConnectionFinished and handleConnection never leave a
\* connection without a collection on its way.
THEOREM CollectionDueAlways == HSpec => []CollectionDue
<1>1. HInd => CollectionDue
  BY DEF HInd
<1> QED
  BY <1>1, HIndAlways, PTL

\* No connection of the server is without a pending read or write.
THEOREM NoIdleConnectionAlways == HSpec => []NoIdleConnection
<1>1. HInd => NoIdleConnection
  BY DEF HInd
<1> QED
  BY <1>1, HIndAlways, PTL

\* handleConnection keeps the limit per remote address.
THEOREM SameAddrBoundAlways == HSpec => []SameAddrBound
<1>1. HInd => SameAddrBound
  BY DEF HInd
<1> QED
  BY <1>1, HIndAlways, PTL

\* No connection gets older than twice the maximal duration.
THEOREM AgeBoundAlways == HSpec => []AgeBound
<1>1. HInd => AgeBound
  BY DEF HInd
<1> QED
  BY <1>1, HIndAlways, PTL

-----------------------------------------------------------------------------
(* HttpConnection: an Ok answers a request that was read whole, and of the    *)
(* requests that say how long they are at most one gets it, for every set of  *)
(* requests, however they are cut into reads, pipelined or lost.              *)
(* The inductive invariant *)

\* The pieces of the first n requests.
PieceOf(n) == {"part", "head", "body"} \X (1 .. n)

AnyPiece   == {"part", "head", "body"} \X Nat

IsHead(p) == p[1] = "head"

HeaderPieces(n) == <<<<"part", n>>, <<"head", n>>>>

\* What is still to be parsed, of n requests, when header h was the last one:
\* the headers to come are later ones, in order, and a header is not followed
\* by the body of another request.
GoodStream(s, h, n) ==
    /\ s \in Seq(PieceOf(n))
    /\ \A i \in 1 .. Len(s) : IsHead(s[i]) => h < s[i][2]
    /\ \A i, j \in 1 .. Len(s) : i < j /\ IsHead(s[i]) /\ IsHead(s[j]) => s[i][2] < s[j][2]
    /\ \A i \in 1 .. Len(s) - 1 : IsHead(s[i]) /\ s[i + 1][1] = "body" => s[i + 1][2] = s[i][2]

\* If s begins with a body, it is that of request h.
Follows(s, h) == s # <<>> /\ s[1][1] = "body" => s[1][2] = h

Statuses == {"none", "Ok", "BadRequest", "NotFound"}

\* A reply to one of n requests, and what that was read from.
Answers(n) == Statuses \X (0 .. n) \X Seq(AnyPiece)

CTypeOK ==
    /\ sent \in Seq(Requests)
    /\ wire \in Seq(PieceOf(Len(sent))) /\ buffer \in Seq(PieceOf(Len(sent)))
    /\ pc \in {"read", "parse", "write", "closed"}
    /\ state \in {"InHeader", "InBody"}
    /\ header \in Seq(AnyPiece) /\ got \in Seq(AnyPiece)
    /\ lengths \in Seq(Nat) /\ types \in Seq({"soap", "other"})
    /\ remaining \in Nat /\ fed \in Seq(PieceOf(Len(sent)))
    /\ reply[1] \in Statuses /\ heads \in 0 .. Len(sent)
    /\ replies \in Seq(Answers(Len(sent)))

StreamInv ==
    /\ pc \in {"read", "write"} => buffer = <<>>
    /\ GoodStream(buffer \o wire, heads, Len(sent))

\* A body is being read, or an Ok is being written.
Accepted == (pc \in {"read", "parse"} /\ state = "InBody") \/ (pc = "write" /\ reply[1] = "Ok")

\* The header of an accepted request was in order and read whole, and is newer
\* than what was answered; its body is what is fed to the parser.
AcceptedInv ==
    /\ pc = "write" => (reply[1] = "Ok" /\ state = "InHeader") \/ (reply[1] # "Ok" /\ reply[2] = TRUE)
    /\ Accepted =>
        /\ heads \in DOMAIN sent /\ sent[heads].syntax /\ sent[heads].target
        /\ sent[heads].type \in {"none", "soap"}
        /\ got = HeaderPieces(heads)
        /\ \A j \in 1 .. Len(replies) : replies[j][2] < heads
    /\ pc = "write" /\ reply[1] = "Ok" => sent[heads].xml = "answered" /\ got \o fed = Pieces(heads, sent[heads])
    /\ pc \in {"read", "parse"} /\ state = "InBody" =>
        /\ Follows(fed, heads)
        /\ fed = <<>> => Follows(buffer \o wire, heads)

AnsweredWithLength(i) == Status(i) = "Ok" /\ sent[replies[i][2]].length # <<>>

\* Once a request with a length of its own was answered, the lengths of the
\* connection are no longer empty.
LengthInv ==
    /\ \A i \in 1 .. Len(replies) : AnsweredWithLength(i) => lengths # <<>>
    /\ Accepted /\ sent[heads].length # <<>> =>
        lengths # <<>> /\ \A i \in 1 .. Len(replies) : ~AnsweredWithLength(i)

\* An accepted request has a length.  It is its own, or that of a request that
\* was answered: of no other one is the connection still open.
SourceInv ==
    /\ Accepted => lengths # <<>>
    /\ lengths # <<>> /\ (pc \in {"read", "parse"} \/ Accepted) =>
        \/ \E j \in 1 .. Len(replies) : AnsweredWithLength(j)
        \/ Accepted /\ sent[heads].length # <<>>

\* Every reply counts a request that was sent; an Ok has its number.
ReplyInv ==
    /\ \A i \in 1 .. Len(replies) : replies[i][2] <= heads
    /\ \A i \in 1 .. Len(replies) : Status(i) = "Ok" => replies[i][2] \in 1 .. Len(sent)

\* Of two replies, not both are an Ok to a request with a length of its own.
OneLength == \A i, j \in 1 .. Len(replies) : i < j => ~(AnsweredWithLength(i) /\ AnsweredWithLength(j))

ConnInd ==
    CTypeOK /\ StreamInv /\ AcceptedInv /\ LengthInv /\ SourceInv /\ ReplyInv /\ OkIsOwn /\ OneLength
-----------------------------------------------------------------------------
(* Lemmas about streams of pieces *)

\* More requests have more pieces.
LEMMA PiecesGrow ==
    ASSUME NEW n \in Nat, NEW s \in Seq(PieceOf(n))
    PROVE  s \in Seq(PieceOf(n + 1))
  <1>1. PieceOf(n) \subseteq PieceOf(n + 1)
    BY DEF PieceOf
  <1> QED
    BY <1>1, SeqMonotonic

\* The pieces of a request: two of its header, then its body.
LEMMA PiecesOfRequest ==
    ASSUME NEW n \in Nat, NEW r \in Requests
    PROVE  /\ Pieces(n + 1, r) \in Seq(PieceOf(n + 1))
           /\ Len(Pieces(n + 1, r)) = 2 + r.body
           /\ \A i \in 1 .. 2 + r.body :
                 Pieces(n + 1, r)[i] = <<IF i = 1 THEN "part" ELSE IF i = 2 THEN "head" ELSE "body", n + 1>>
  <1> DEFINE b == [i \in 1 .. r.body |-> <<"body", n + 1>>]
             a == <<<<"part", n + 1>>, <<"head", n + 1>>>>
  <1>1. r.body \in Nat
    BY ConnectionAssumption DEF RequestType
  <1>2. b \in Seq(PieceOf(n + 1)) /\ Len(b) = r.body
    BY <1>1 DEF PieceOf
  <1>3. a \in Seq(PieceOf(n + 1)) /\ Len(a) = 2
    BY DEF PieceOf
  <1>4. \A i \in 1 .. r.body : b[i] = <<"body", n + 1>>
    OBVIOUS
  <1>5. a[1] = <<"part", n + 1>> /\ a[2] = <<"head", n + 1>>
    OBVIOUS
  <1>6. Pieces(n + 1, r) = a \o b
    BY DEF Pieces
  <1> HIDE DEF a, b
  <1>7. /\ a \o b \in Seq(PieceOf(n + 1)) /\ Len(a \o b) = 2 + r.body
        /\ \A i \in 1 .. 2 + r.body : (a \o b)[i] = IF i <= 2 THEN a[i] ELSE b[i - 2]
    <2>1. /\ a \o b \in Seq(PieceOf(n + 1)) /\ Len(a \o b) = Len(a) + Len(b)
          /\ \A i \in 1 .. Len(a) + Len(b) : (a \o b)[i] = IF i <= Len(a) THEN a[i] ELSE b[i - Len(a)]
      BY <1>2, <1>3, ConcatProperties
    <2> QED
      BY <1>2, <1>3, <2>1
  <1>8. ASSUME NEW i \in 1 .. 2 + r.body
        PROVE (a \o b)[i] = <<IF i = 1 THEN "part" ELSE IF i = 2 THEN "head" ELSE "body", n + 1>>
    <2>1. CASE i = 1
      BY <1>5, <1>7, <2>1
    <2>2. CASE i = 2
      BY <1>5, <1>7, <2>2
    <2>3. CASE i > 2
      <3>1. i - 2 \in 1 .. r.body
        BY <1>1, <2>3
      <3> QED
        BY <1>1, <1>4, <1>7, <2>3, <3>1
    <2>4. i = 1 \/ i = 2 \/ i > 2
      BY <1>1
    <2> QED
      BY <2>1, <2>2, <2>3, <2>4
  <1> QED
    BY <1>6, <1>7, <1>8

\* What is left of a stream is one.
LEMMA StreamSuffix ==
    ASSUME NEW s, NEW h \in Nat, NEW n \in Nat, GoodStream(s, h, n),
           NEW t \in Seq(PieceOf(n)), NEW k \in Nat, Len(s) = Len(t) + k,
           \A i \in 1 .. Len(t) : t[i] = s[i + k]
    PROVE  GoodStream(t, h, n)
  <1>1. \A i \in 1 .. Len(t) : i + k \in 1 .. Len(s)
    OBVIOUS
  <1>2. \A i \in 1 .. Len(t) - 1 : i + k \in 1 .. Len(s) - 1 /\ i + 1 \in 1 .. Len(t) /\ (i + k) + 1 = (i + 1) + k
    OBVIOUS
  <1>3. \A i \in 1 .. Len(t) : IsHead(t[i]) => h < t[i][2]
    BY <1>1 DEF GoodStream
  <1>4. ASSUME NEW i \in 1 .. Len(t), NEW j \in 1 .. Len(t), i < j, IsHead(t[i]), IsHead(t[j])
        PROVE t[i][2] < t[j][2]
    <2>1. i + k < j + k
      BY <1>4
    <2> QED
      BY <1>1, <1>4, <2>1 DEF GoodStream
  <1>5. ASSUME NEW i \in 1 .. Len(t) - 1, IsHead(t[i]), t[i + 1][1] = "body"
        PROVE t[i + 1][2] = t[i][2]
    <2>1. i \in 1 .. Len(t) /\ t[i] = s[i + k] /\ t[i + 1] = s[(i + k) + 1]
      BY <1>2
    <2>2. i + k \in 1 .. Len(s) - 1 /\ IsHead(s[i + k]) /\ s[(i + k) + 1][1] = "body"
      BY <1>2, <1>5, <2>1
    <2>3. s[(i + k) + 1][2] = s[i + k][2]
      BY <2>2 DEF GoodStream
    <2> QED
      BY <2>1, <2>3
  <1> QED
    BY <1>3, <1>4, <1>5 DEF GoodStream

\* After a header come later headers, and its own body if any.
LEMMA StreamPastHeader ==
    ASSUME NEW s, NEW h \in Nat, NEW n \in Nat, GoodStream(s, h, n), s # <<>>, IsHead(s[1])
    PROVE  GoodStream(Tail(s), s[1][2], n) /\ Follows(Tail(s), s[1][2]) /\ s[1][2] \in 1 .. n /\ h < s[1][2]
  <1> DEFINE t == Tail(s)
  <1>1. /\ t \in Seq(PieceOf(n)) /\ Len(t) = Len(s) - 1 /\ Len(s) \in Nat /\ Len(t) \in Nat
        /\ \A i \in 1 .. Len(t) : t[i] = s[i + 1]
    BY HeadTailProperties DEF GoodStream
  <1> HIDE DEF t
  <1>2. 1 \in 1 .. Len(s) /\ s[1] \in PieceOf(n)
    BY <1>1, ElementOfSeq DEF GoodStream
  <1>3. s[1][2] \in 1 .. n /\ h < s[1][2]
    BY <1>2 DEF GoodStream, PieceOf
  <1>4. GoodStream(t, h, n)
    BY <1>1, StreamSuffix
  <1>5. \A i \in 1 .. Len(t) : IsHead(t[i]) => s[1][2] < t[i][2]
    <2> SUFFICES ASSUME NEW i \in 1 .. Len(t), IsHead(t[i]) PROVE s[1][2] < t[i][2]
      OBVIOUS
    <2>1. i + 1 \in 1 .. Len(s) /\ 1 < i + 1 /\ t[i] = s[i + 1]
      BY <1>1
    <2> QED
      BY <1>2, <2>1 DEF GoodStream
  <1>6. GoodStream(t, s[1][2], n)
    BY <1>4, <1>5 DEF GoodStream
  <1>7. Follows(t, s[1][2])
    <2> SUFFICES ASSUME t # <<>>, t[1][1] = "body" PROVE t[1][2] = s[1][2]
      BY DEF Follows
    <2>1. Len(t) > 0
      BY <1>1
    <2>2. 1 \in 1 .. Len(s) - 1 /\ t[1] = s[1 + 1]
      BY <1>1, <2>1
    <2> QED
      BY <2>2 DEF GoodStream
  <1> QED
    BY <1>3, <1>6, <1>7 DEF t

\* The client adds a request at the end.
LEMMA StreamGrows ==
    ASSUME NEW s, NEW h \in Nat, NEW n \in Nat, h <= n, GoodStream(s, h, n), NEW r \in Requests
    PROVE  GoodStream(s \o Pieces(n + 1, r), h, n + 1)
  <1> DEFINE p == Pieces(n + 1, r)
             t == s \o p
  <1>1. s \in Seq(PieceOf(n)) /\ s \in Seq(PieceOf(n + 1)) /\ Len(s) \in Nat
    BY PiecesGrow DEF GoodStream
  <1>2. /\ p \in Seq(PieceOf(n + 1)) /\ Len(p) \in Nat
        /\ \A i \in 1 .. Len(p) : /\ p[i][2] = n + 1 /\ (IsHead(p[i]) <=> i = 2) /\ (i = 1 => p[i][1] # "body")
    <2>1. r.body \in Nat
      BY ConnectionAssumption DEF RequestType
    <2> QED
      BY <2>1, PiecesOfRequest DEF IsHead
  <1> HIDE DEF p
  <1>3. /\ t \in Seq(PieceOf(n + 1)) /\ Len(t) = Len(s) + Len(p)
        /\ \A i \in 1 .. Len(t) : t[i] = IF i <= Len(s) THEN s[i] ELSE p[i - Len(s)]
    BY <1>1, <1>2, ConcatProperties
  <1>4. \A i \in 1 .. Len(s) : s[i][2] \in 1 .. n
    BY <1>1, ElementOfSeq DEF PieceOf
  <1> HIDE DEF t
  <1>5. ASSUME NEW i \in 1 .. Len(t), i > Len(s)
        PROVE  i - Len(s) \in 1 .. Len(p) /\ t[i] = p[i - Len(s)] /\ t[i][2] = n + 1
    BY <1>1, <1>2, <1>3, <1>5
  <1>6. ASSUME NEW i \in 1 .. Len(t), i <= Len(s)
        PROVE  i \in 1 .. Len(s) /\ t[i] = s[i] /\ t[i][2] \in 1 .. n
    BY <1>1, <1>3, <1>4, <1>6
  <1>7. \A i \in 1 .. Len(t) : IsHead(t[i]) => h < t[i][2]
    <2> SUFFICES ASSUME NEW i \in 1 .. Len(t), IsHead(t[i]) PROVE h < t[i][2]
      OBVIOUS
    <2>1. CASE i <= Len(s)
      BY <1>6, <2>1 DEF GoodStream
    <2>2. CASE i > Len(s)
      BY <1>5, <2>2
    <2> QED
      BY <1>1, <2>1, <2>2
  <1>8. ASSUME NEW i \in 1 .. Len(t), NEW j \in 1 .. Len(t), i < j, IsHead(t[i]), IsHead(t[j])
        PROVE  t[i][2] < t[j][2]
    <2>1. CASE j <= Len(s)
      <3>1. i <= Len(s)
        BY <1>1, <1>8, <2>1
      <3> QED
        BY <1>6, <1>8, <2>1, <3>1 DEF GoodStream
    <2>2. CASE j > Len(s) /\ i <= Len(s)
      BY <1>5, <1>6, <2>2
    <2>3. CASE j > Len(s) /\ i > Len(s)
      <3>1. i - Len(s) = 2 /\ j - Len(s) = 2
        BY <1>2, <1>5, <1>8, <2>3
      <3> QED
        BY <1>1, <1>8, <3>1
    <2> QED
      BY <1>1, <2>1, <2>2, <2>3
  <1>9. ASSUME NEW i \in 1 .. Len(t) - 1, IsHead(t[i]), t[i + 1][1] = "body"
        PROVE  t[i + 1][2] = t[i][2]
    <2>0. i \in 1 .. Len(t) /\ i + 1 \in 1 .. Len(t)
      BY <1>1, <1>2, <1>3
    <2>1. CASE i + 1 <= Len(s)
      <3>1. i <= Len(s) /\ i \in 1 .. Len(s) - 1
        BY <1>1, <2>1
      <3>2. t[i] = s[i] /\ t[i + 1] = s[i + 1]
        BY <1>6, <2>0, <2>1, <3>1
      <3>3. IsHead(s[i]) /\ s[i + 1][1] = "body" => s[i + 1][2] = s[i][2]
        BY <3>1 DEF GoodStream
      <3> QED
        BY <1>9, <3>2, <3>3
    <2>2. CASE i = Len(s)
      <3>1. t[i + 1] = p[1] /\ 1 \in 1 .. Len(p)
        BY <1>1, <1>5, <2>0, <2>2
      <3> QED
        BY <1>2, <1>9, <3>1
    <2>3. CASE i > Len(s)
      BY <1>1, <1>5, <2>0, <2>3
    <2> QED
      BY <1>1, <2>0, <2>1, <2>2, <2>3
  <1>10. GoodStream(t, h, n + 1)
    BY <1>3, <1>7, <1>8, <1>9 DEF GoodStream
  <1> QED
    BY <1>10 DEF t, p
-----------------------------------------------------------------------------
(* Every variable keeps its type *)

\* The first piece of what was read, and the rest.
LEMMA BufferParts ==
    ASSUME CTypeOK, buffer # <<>>
    PROVE  /\ Head(buffer) = buffer[1] /\ buffer[1] \in PieceOf(Len(sent)) /\ Len(buffer) \in Nat \ {0}
           /\ Tail(buffer) \in Seq(PieceOf(Len(sent))) /\ Len(Tail(buffer)) = Len(buffer) - 1
           /\ \A i \in 1 .. Len(buffer) - 1 : Tail(buffer)[i] = buffer[i + 1]
  <1>1. buffer \in Seq(PieceOf(Len(sent)))
    BY DEF CTypeOK
  <1>2. Len(buffer) \in Nat \ {0}
    BY <1>1, EmptySeq
  <1> QED
    BY <1>1, <1>2, HeadTailProperties

\* What is fed to the parser next.
LEMMA ChunkType ==
    ASSUME CTypeOK
    PROVE  /\ Chunk \in Seq(PieceOf(Len(sent))) /\ Len(Chunk) = IF remaining < Len(buffer) THEN remaining ELSE Len(buffer)
           /\ \A i \in 1 .. Len(Chunk) : Chunk[i] = buffer[i]
           /\ fed \o Chunk \in Seq(PieceOf(Len(sent)))
  <1> DEFINE m == IF remaining < Len(buffer) THEN remaining ELSE Len(buffer)
  <1>1. buffer \in Seq(PieceOf(Len(sent))) /\ Len(buffer) \in Nat /\ m \in 0 .. Len(buffer)
    BY DEF CTypeOK
  <1>2. \A i \in 1 .. m : buffer[i] \in PieceOf(Len(sent))
    BY <1>1, ElementOfSeq
  <1>3. /\ SubSeq(buffer, 1, m) \in Seq(PieceOf(Len(sent)))
        /\ Len(SubSeq(buffer, 1, m)) = m
        /\ \A i \in 1 .. m : SubSeq(buffer, 1, m)[i] = buffer[i]
    <2>1. /\ SubSeq(buffer, 1, m) \in Seq(PieceOf(Len(sent)))
          /\ Len(SubSeq(buffer, 1, m)) = IF 1 <= m THEN m - 1 + 1 ELSE 0
          /\ \A i \in 1 .. m - 1 + 1 : SubSeq(buffer, 1, m)[i] = buffer[1 + i - 1]
      BY <1>1, <1>2, SubSeqProperties
    <2> QED
      BY <1>1, <2>1
  <1> QED
    BY <1>1, <1>3, ConcatProperties DEF Chunk, CTypeOK

\* What the header parser has got, and a reply.
LEMMA PiecesAny ==
    ASSUME NEW n \in Nat, NEW s \in Seq(PieceOf(n))
    PROVE  s \in Seq(AnyPiece)
  <1>1. PieceOf(n) \subseteq AnyPiece
    BY DEF PieceOf, AnyPiece
  <1> QED
    BY <1>1, SeqMonotonic

LEMMA TakenType ==
    ASSUME CTypeOK, buffer # <<>>
    PROVE  /\ Taken \in Seq(AnyPiece) /\ Len(header) \in Nat /\ Len(Taken) = Len(header) + 1
           /\ Taken[Len(header) + 1] = Head(buffer)
  <1>1. Head(buffer) \in PieceOf(Len(sent)) /\ Len(sent) \in Nat /\ header \in Seq(AnyPiece)
    BY BufferParts DEF CTypeOK
  <1>2. Head(buffer) \in AnyPiece
    BY <1>1 DEF PieceOf, AnyPiece
  <1> QED
    BY <1>1, <1>2, AppendProperties, LenProperties DEF Taken

LEMMA AnswerType ==
    ASSUME CTypeOK
    PROVE  <<reply[1], heads, got \o fed>> \in Answers(Len(sent))
  <1>1. Len(sent) \in Nat /\ fed \in Seq(PieceOf(Len(sent))) /\ got \in Seq(AnyPiece)
    BY DEF CTypeOK
  <1>2. fed \in Seq(AnyPiece)
    BY <1>1, PiecesAny
  <1>3. got \o fed \in Seq(AnyPiece)
    BY <1>1, <1>2, ConcatProperties
  <1> QED
    BY <1>3 DEF CTypeOK, Answers

\* The two parts of a reply.
LEMMA PairParts ==
    ASSUME NEW a, NEW b
    PROVE  <<a, b>>[1] = a /\ <<a, b>>[2] = b
  OBVIOUS

\* A reply ends the parsing of what was read.
LEMMA RepliesParts ==
    ASSUME NEW status, NEW final, Replies(status, final)
    PROVE  reply'[1] = status /\ reply'[2] = final /\ buffer' = <<>> /\ pc' = "write"
  BY PairParts DEF Replies

\* A refusal ends the connection.
LEMMA RefusalParts ==
    ASSUME Replies("BadRequest", TRUE) \/ Replies("NotFound", TRUE)
    PROVE  reply'[1] # "Ok" /\ reply'[2] = TRUE /\ buffer' = <<>> /\ pc' = "write"
  <1>1. reply' \in {<<"BadRequest", TRUE>>, <<"NotFound", TRUE>>} /\ buffer' = <<>> /\ pc' = "write"
    BY DEF Replies
  <1>2. \A status, final : <<status, final>>[1] = status /\ <<status, final>>[2] = final
    BY PairParts
  <1>3. CASE reply' = <<"BadRequest", TRUE>>
    <2>1. <<"BadRequest", TRUE>>[1] = "BadRequest" /\ <<"BadRequest", TRUE>>[2] = TRUE
      BY <1>2, Zenon
    <2>2. reply'[1] = "BadRequest" /\ reply'[2] = TRUE
      BY <1>3, <2>1, Zenon
    <2> QED
      BY <1>1, <2>2, Zenon
  <1>4. CASE reply' = <<"NotFound", TRUE>>
    <2>1. <<"NotFound", TRUE>>[1] = "NotFound" /\ <<"NotFound", TRUE>>[2] = TRUE
      BY <1>2, Zenon
    <2>2. reply'[1] = "NotFound" /\ reply'[2] = TRUE
      BY <1>4, <2>1, Zenon
    <2> QED
      BY <1>1, <2>2, Zenon
  <1> QED
    BY <1>1, <1>3, <1>4, Zenon

LEMMA CTypeStep ==
    ASSUME CTypeOK, [CNext]_cvars
    PROVE  CTypeOK'
  <1> USE DEF headervars, bodyvars, Statuses
  <1>1. CASE UNCHANGED cvars
    BY <1>1 DEF CTypeOK, cvars
  <1>2. ASSUME NEW r \in Requests, ClientSends(r) PROVE CTypeOK'
    <2>1. /\ sent' = Append(sent, r) /\ wire' = wire \o Pieces(Len(sent) + 1, r)
          /\ UNCHANGED <<pc, buffer, state, header, lengths, types, remaining, fed, reply, heads, got, replies>>
      BY <1>2 DEF ClientSends
    <2>2. sent' \in Seq(Requests) /\ Len(sent') = Len(sent) + 1 /\ Len(sent) \in Nat
      BY <2>1 DEF CTypeOK
    <2>3. /\ wire \in Seq(PieceOf(Len(sent) + 1)) /\ buffer \in Seq(PieceOf(Len(sent) + 1))
          /\ fed \in Seq(PieceOf(Len(sent) + 1))
      BY <2>2, PiecesGrow DEF CTypeOK
    <2>4. wire' \in Seq(PieceOf(Len(sent) + 1))
      BY <2>1, <2>2, <2>3, PiecesOfRequest, ConcatProperties
    <2>5. replies \in Seq(Answers(Len(sent) + 1))
      <3>1. Answers(Len(sent)) \subseteq Answers(Len(sent) + 1)
        BY <2>2 DEF Answers
      <3> QED
        BY <3>1, SeqMonotonic DEF CTypeOK
    <2> QED
      BY <2>1, <2>2, <2>3, <2>4, <2>5 DEF CTypeOK
  <1>3. ASSUME NEW n \in 1 .. Len(wire), Read(n) PROVE CTypeOK'
    <2>1. wire \in Seq(PieceOf(Len(sent))) /\ Len(wire) \in Nat
      BY DEF CTypeOK
    <2>2. \A i \in 1 .. Len(wire) : wire[i] \in PieceOf(Len(sent))
      BY <2>1, ElementOfSeq
    <2>3. SubSeq(wire, 1, n) \in Seq(PieceOf(Len(sent)))
      BY <2>1, <2>2, SubSeqProperties
    <2>4. SubSeq(wire, n + 1, Len(wire)) \in Seq(PieceOf(Len(sent)))
      BY <2>1, <2>2, SubSeqProperties
    <2> QED
      BY <1>3, <2>3, <2>4 DEF Read, CTypeOK
  <1>4. CASE ReadFails \/ ReadOn
    BY <1>4 DEF ReadFails, ReadOn, CTypeOK
  <1>12. CASE WriteFails
    <2>1. reply'[1] = "none"
      BY <1>12, PairParts DEF WriteFails, NoReply
    <2> QED
      BY <1>12, <2>1 DEF WriteFails, CTypeOK
  <1>5. CASE ParsePart
    <2>1. buffer # <<>> /\ header' = Append(header, Head(buffer)) /\ buffer' = Tail(buffer)
      BY <1>5 DEF ParsePart, InHeader, Taken
    <2>2. header' \in Seq(AnyPiece) /\ Tail(buffer) \in Seq(PieceOf(Len(sent)))
      BY <2>1, TakenType, BufferParts DEF Taken
    <2> QED
      BY <1>5, <2>1, <2>2 DEF ParsePart, CTypeOK
  <1>6. CASE ParseGarbage
    <2>1. reply'[1] \in {"BadRequest", "NotFound"} /\ buffer' = <<>> /\ pc' = "write"
      BY <1>6, RepliesParts DEF ParseGarbage
    <2>2. header' \in Seq(AnyPiece)
      BY <1>6, TakenType DEF ParseGarbage, InHeader
    <2> QED
      BY <1>6, <2>1, <2>2 DEF ParseGarbage, CTypeOK
  <1>7. CASE ParseHeader
    <2> DEFINE r == HeaderOf(Head(buffer))
    <2>1. buffer # <<>> /\ Head(buffer) \in PieceOf(Len(sent)) /\ Tail(buffer) \in Seq(PieceOf(Len(sent)))
      BY <1>7, BufferParts DEF ParseHeader, InHeader
    <2>2. Head(buffer)[2] \in 1 .. Len(sent)
      BY <2>1 DEF PieceOf
    <2>3. r \in RequestType
      BY <2>2, ElementOfSeq, ConnectionAssumption DEF HeaderOf, CTypeOK
    <2> HIDE DEF r
    <2>4. r.length \in Seq(Nat) /\ TypesOf(r) \in Seq({"soap", "other"})
      <3>1. r.length \in Seq(Nat) /\ r.type \in {"none", "soap", "other", "twice"}
        BY <2>3 DEF RequestType
      <3>2. TypesOf(r) \in {<<>>, <<"soap", "soap">>, <<"soap">>, <<"other">>}
        BY <3>1 DEF TypesOf
      <3>3. /\ <<>> \in Seq({"soap", "other"}) /\ <<"soap", "soap">> \in Seq({"soap", "other"})
            /\ <<"soap">> \in Seq({"soap", "other"}) /\ <<"other">> \in Seq({"soap", "other"})
        OBVIOUS
      <3> QED
        BY <3>1, <3>2, <3>3
    <2>5. lengths' = lengths \o r.length /\ types' = types \o TypesOf(r) /\ heads' = Head(buffer)[2]
      BY <1>7 DEF ParseHeader, r
    <2>11. got' \in Seq(AnyPiece) /\ header' \in Seq(AnyPiece)
      <3>1. got' = Taken /\ header' \in {<<>>, header}
        BY <1>7 DEF ParseHeader
      <3>2. header \in Seq(AnyPiece) /\ <<>> \in Seq(AnyPiece) /\ Taken \in Seq(AnyPiece)
        <4>1. header \in Seq(AnyPiece)
          BY DEF CTypeOK
        <4> QED
          BY <2>1, <4>1, TakenType
      <3> QED
        BY <3>1, <3>2
    <2>6. lengths' \in Seq(Nat) /\ types' \in Seq({"soap", "other"}) /\ heads' \in 0 .. Len(sent)
      BY <2>2, <2>4, <2>5, ConcatProperties DEF CTypeOK
    <2>7. UNCHANGED <<sent, wire, replies>>
      BY <1>7 DEF ParseHeader
    <2>8. \/ /\ ContentLengthOk(lengths') /\ remaining' = lengths'[1] /\ fed' = <<>>
             /\ state' = "InBody" /\ buffer' = Tail(buffer) /\ UNCHANGED <<pc, reply>>
          \/ /\ Replies("NotFound", TRUE) \/ Replies("BadRequest", TRUE)
             /\ UNCHANGED <<state, remaining, fed>>
      BY <1>7 DEF ParseHeader
    <2>9. CASE /\ ContentLengthOk(lengths') /\ remaining' = lengths'[1] /\ fed' = <<>>
               /\ state' = "InBody" /\ buffer' = Tail(buffer) /\ UNCHANGED <<pc, reply>>
      <3>1. remaining' \in Nat
        <4>1. Len(lengths') = 1
          BY <2>9 DEF ContentLengthOk
        <4>2. lengths'[1] \in Nat
          <5>1. 1 \in 1 .. Len(lengths')
            BY <4>1
          <5> QED
            BY <2>6, <5>1, ElementOfSeq
        <4> QED
          BY <2>9, <4>2
      <3> QED
        BY <2>1, <2>6, <2>7, <2>9, <2>11, <3>1 DEF CTypeOK
    <2>10. CASE (Replies("NotFound", TRUE) \/ Replies("BadRequest", TRUE)) /\ UNCHANGED <<state, remaining, fed>>
      <3>1. reply'[1] \in {"NotFound", "BadRequest"} /\ buffer' = <<>> /\ pc' = "write"
        BY <2>10, RepliesParts
      <3> QED
        BY <2>6, <2>7, <2>10, <2>11, <3>1 DEF CTypeOK
    <2> QED
      BY <2>8, <2>9, <2>10
  <1>8. CASE ParseBodyPart
    BY <1>8, ChunkType DEF ParseBodyPart, CTypeOK
  <1>9. CASE ParseBodyEnd
    <2>1. /\ remaining' = 0 /\ fed' = fed \o Chunk
          /\ UNCHANGED <<sent, wire, header, lengths, types, heads, got, replies>>
          /\ buffer' = <<>> /\ pc' = "write" /\ reply'[1] \in Statuses
          /\ state' \in {state, "InHeader"}
      <3>1. Replies("BadRequest", TRUE) \/ Replies("Ok", ~keepAlive)
        BY <1>9 DEF ParseBodyEnd
      <3>2. buffer' = <<>> /\ pc' = "write" /\ reply'[1] \in {"BadRequest", "Ok"}
        BY <3>1, RepliesParts
      <3> QED
        BY <1>9, <3>2 DEF ParseBodyEnd
    <2> QED
      BY <2>1, ChunkType DEF CTypeOK
  <1>10. CASE ParseBodyBreaks
    <2>1. /\ remaining' = remaining - Len(Chunk) /\ fed' = fed \o Chunk /\ remaining > Len(buffer)
          /\ UNCHANGED <<sent, wire, state, header, lengths, types, heads, got, replies>>
          /\ buffer' = <<>> /\ pc' = "write" /\ reply'[1] \in Statuses
      BY <1>10, RepliesParts DEF ParseBodyBreaks
    <2> QED
      BY <2>1, ChunkType DEF CTypeOK
  <1>11. CASE WriteDone
    <2>1. <<reply[1], heads, got \o fed>> \in Answers(Len(sent))
      BY AnswerType
    <2>2. replies' \in Seq(Answers(Len(sent)))
      BY <1>11, <2>1, AppendProperties DEF WriteDone, CTypeOK
    <2>3. reply'[1] = "none"
      BY <1>11, PairParts DEF WriteDone, NoReply
    <2> QED
      BY <1>11, <2>2, <2>3 DEF WriteDone, CTypeOK
  <1> HIDE DEF CTypeOK
  <1> QED
    BY <1>1, <1>2, <1>3, <1>4, <1>5, <1>6, <1>7, <1>8, <1>9, <1>10, <1>11, <1>12 DEF CNext, Parse, Reads
-----------------------------------------------------------------------------
(* The stream stays in order *)

\* Consuming a piece of what was read consumes one of the stream.
LEMMA DropFirst ==
    ASSUME CTypeOK, buffer # <<>>
    PROVE  /\ Tail(buffer) \o wire = Tail(buffer \o wire)
           /\ buffer \o wire # <<>> /\ (buffer \o wire)[1] = buffer[1]
  <1> DEFINE P == PieceOf(Len(sent))
             s == buffer \o wire
             t == Tail(buffer) \o wire
  <1>1. /\ buffer \in Seq(P) /\ wire \in Seq(P) /\ Len(wire) \in Nat
        /\ Len(buffer) \in Nat \ {0} /\ Tail(buffer) \in Seq(P) /\ Len(Tail(buffer)) = Len(buffer) - 1
        /\ \A i \in 1 .. Len(buffer) - 1 : Tail(buffer)[i] = buffer[i + 1]
    BY BufferParts DEF CTypeOK
  <1> HIDE DEF P
  <1>2. /\ s \in Seq(P) /\ Len(s) = Len(buffer) + Len(wire)
        /\ \A i \in 1 .. Len(buffer) + Len(wire) : s[i] = IF i <= Len(buffer) THEN buffer[i] ELSE wire[i - Len(buffer)]
    BY <1>1, ConcatProperties
  <1>3. /\ t \in Seq(P) /\ Len(t) = Len(Tail(buffer)) + Len(wire)
        /\ \A i \in 1 .. Len(Tail(buffer)) + Len(wire) :
              t[i] = IF i <= Len(Tail(buffer)) THEN Tail(buffer)[i] ELSE wire[i - Len(Tail(buffer))]
    BY <1>1, ConcatProperties
  <1> HIDE DEF s, t
  <1>4. s # <<>> /\ s[1] = buffer[1]
    BY <1>1, <1>2
  <1>5. Tail(s) \in Seq(P) /\ Len(Tail(s)) = Len(s) - 1 /\ \A i \in 1 .. Len(Tail(s)) : Tail(s)[i] = s[i + 1]
    BY <1>2, <1>4, HeadTailProperties
  <1>6. Len(Tail(s)) = Len(t)
    BY <1>1, <1>2, <1>3, <1>5
  <1>7. ASSUME NEW i \in 1 .. Len(t) PROVE Tail(s)[i] = t[i]
    <2>1. Tail(s)[i] = s[i + 1]
      BY <1>5, <1>6
    <2>2. CASE i <= Len(buffer) - 1
      <3>1. s[i + 1] = buffer[i + 1]
        BY <1>1, <1>2, <2>2
      <3>2. t[i] = buffer[i + 1]
        BY <1>1, <1>3, <2>2
      <3> QED
        BY <2>1, <3>1, <3>2
    <2>3. CASE i > Len(buffer) - 1
      <3>1. s[i + 1] = wire[(i + 1) - Len(buffer)]
        BY <1>1, <1>2, <1>3, <2>3
      <3>2. t[i] = wire[i - (Len(buffer) - 1)]
        BY <1>1, <1>3, <2>3
      <3>3. (i + 1) - Len(buffer) = i - (Len(buffer) - 1)
        BY <1>1
      <3> QED
        BY <2>1, <3>1, <3>2, <3>3
    <2>4. i <= Len(buffer) - 1 \/ i > Len(buffer) - 1
      BY <1>1
    <2> QED
      BY <2>2, <2>3, <2>4
  <1>8. Tail(s) = t
    BY <1>3, <1>5, <1>6, <1>7, SeqEqual
  <1> QED
    BY <1>4, <1>8 DEF s, t

\* Forgetting what was read leaves what is on the wire.
LEMMA Forget ==
    ASSUME NEW b, NEW w, NEW h \in Nat, NEW n \in Nat,
           b \in Seq(PieceOf(n)), w \in Seq(PieceOf(n)), GoodStream(b \o w, h, n)
    PROVE  GoodStream(<<>> \o w, h, n)
  <1>1. Len(b) \in Nat /\ Len(w) \in Nat
    OBVIOUS
  <1>2. /\ Len(b \o w) = Len(b) + Len(w)
        /\ \A i \in 1 .. Len(b) + Len(w) : (b \o w)[i] = IF i <= Len(b) THEN b[i] ELSE w[i - Len(b)]
    BY ConcatProperties
  <1>3. ASSUME NEW i \in 1 .. Len(w) PROVE w[i] = (b \o w)[i + Len(b)]
    <2>1. i + Len(b) \in 1 .. Len(b) + Len(w) /\ ~(i + Len(b) <= Len(b)) /\ (i + Len(b)) - Len(b) = i
      BY <1>1
    <2> QED
      BY <1>2, <2>1
  <1> DEFINE s == b \o w
  <1>6. GoodStream(s, h, n) /\ Len(s) = Len(w) + Len(b) /\ \A i \in 1 .. Len(w) : w[i] = s[i + Len(b)]
    BY <1>1, <1>2, <1>3
  <1> HIDE DEF s
  <1>4. GoodStream(w, h, n)
    BY <1>1, <1>6, StreamSuffix
  <1>5. <<>> \o w = w
    BY ConcatEmptySeq
  <1> QED
    BY <1>4, <1>5

\* A whole header is that of the request of its last piece.
LEMMA WholeHeaderParts ==
    ASSUME CTypeOK, buffer # <<>>, WholeHeader(Taken)
    PROVE  Taken = HeaderPieces(Head(buffer)[2]) /\ Head(buffer)[1] = "head"
  <1>1. PICK n : n = Taken[1][2]
    OBVIOUS
  <1>2. Taken = HeaderPieces(n)
    BY <1>1 DEF WholeHeader, HeaderPieces
  <1>3. Len(HeaderPieces(n)) = 2 /\ HeaderPieces(n)[2] = <<"head", n>>
    BY DEF HeaderPieces
  <1>4. Len(header) \in Nat /\ Len(header) + 1 = 2 /\ Taken[Len(header) + 1] = Head(buffer)
    BY <1>2, <1>3, TakenType
  <1>5. Head(buffer) = <<"head", n>>
    BY <1>2, <1>3, <1>4
  <1>6. <<"head", n>>[1] = "head" /\ <<"head", n>>[2] = n
    BY PairParts
  <1> QED
    BY <1>2, <1>5, <1>6

\* After a header was parsed: what is left, with or without the rest of the read.
LEMMA HeaderStream ==
    ASSUME CTypeOK, StreamInv, InHeader, WholeHeader(Taken)
    PROVE  /\ Taken = HeaderPieces(Head(buffer)[2])
           /\ Head(buffer)[2] \in 1 .. Len(sent) /\ heads < Head(buffer)[2]
           /\ GoodStream(Tail(buffer) \o wire, Head(buffer)[2], Len(sent))
           /\ GoodStream(<<>> \o wire, Head(buffer)[2], Len(sent))
           /\ Follows(Tail(buffer) \o wire, Head(buffer)[2])
  <1>0. Taken = HeaderPieces(Head(buffer)[2]) /\ Head(buffer)[1] = "head"
    BY WholeHeaderParts DEF InHeader
  <1>1. buffer # <<>> /\ Head(buffer)[1] = "head" /\ Head(buffer) = buffer[1]
    BY <1>0, BufferParts DEF InHeader
  <1>2. (buffer \o wire)[1] = Head(buffer) /\ buffer \o wire # <<>> /\ Tail(buffer) \o wire = Tail(buffer \o wire)
    BY <1>1, DropFirst
  <1>3. Len(sent) \in Nat /\ heads \in Nat
    BY DEF CTypeOK
  <1>4. IsHead((buffer \o wire)[1])
    BY <1>1, <1>2 DEF IsHead
  <1>5. /\ GoodStream(Tail(buffer) \o wire, Head(buffer)[2], Len(sent))
        /\ Follows(Tail(buffer) \o wire, Head(buffer)[2])
        /\ Head(buffer)[2] \in 1 .. Len(sent) /\ heads < Head(buffer)[2]
    BY <1>2, <1>3, <1>4, StreamPastHeader DEF StreamInv
  <1>6. Tail(buffer) \in Seq(PieceOf(Len(sent))) /\ wire \in Seq(PieceOf(Len(sent)))
    BY <1>1, BufferParts DEF CTypeOK
  <1>7. GoodStream(<<>> \o wire, Head(buffer)[2], Len(sent))
    <2>1. Head(buffer)[2] \in Nat
      BY <1>5
    <2> QED
      BY <1>3, <1>5, <1>6, <2>1, Forget
  <1> QED
    BY <1>0, <1>5, <1>7

\* What each way out of parseHeader does.
HeaderAccepted ==
    /\ HeaderOf(Head(buffer)).syntax /\ HeaderOf(Head(buffer)).target
    /\ ContentLengthOk(lengths') /\ ContentTypeOk(types')
    /\ fed' = <<>> /\ state' = "InBody" /\ buffer' = Tail(buffer) /\ pc' = pc

HeaderRefused == (Replies("NotFound", TRUE) \/ Replies("BadRequest", TRUE)) /\ state' = state

LEMMA HeaderKinds ==
    ASSUME ParseHeader
    PROVE  /\ InHeader /\ WholeHeader(Taken) /\ pc = "parse" /\ UNCHANGED <<sent, wire, replies>>
           /\ heads' = Head(buffer)[2] /\ got' = Taken
           /\ lengths' = lengths \o HeaderOf(Head(buffer)).length
           /\ types' = types \o TypesOf(HeaderOf(Head(buffer)))
           /\ HeaderAccepted \/ HeaderRefused
  BY DEF ParseHeader, InHeader, HeaderAccepted, HeaderRefused

LEMMA StreamStep ==
    ASSUME CTypeOK, StreamInv, [CNext]_cvars
    PROVE  StreamInv'
  <1> USE DEF StreamInv
  <1>0. /\ Len(sent) \in Nat /\ heads \in Nat /\ heads <= Len(sent)
        /\ wire \in Seq(PieceOf(Len(sent))) /\ buffer \in Seq(PieceOf(Len(sent)))
    BY DEF CTypeOK
  <1>1. CASE UNCHANGED cvars
    BY <1>1 DEF cvars
  <1>2. ASSUME NEW r \in Requests, ClientSends(r) PROVE StreamInv'
    <2> DEFINE P == Pieces(Len(sent) + 1, r)
    <2>1. sent' = Append(sent, r) /\ wire' = wire \o P /\ UNCHANGED <<pc, buffer, heads>>
      BY <1>2 DEF ClientSends, headervars
    <2>2. Len(sent') = Len(sent) + 1
      BY <2>1 DEF CTypeOK
    <2>3. /\ wire \in Seq(PieceOf(Len(sent) + 1)) /\ buffer \in Seq(PieceOf(Len(sent) + 1))
          /\ P \in Seq(PieceOf(Len(sent) + 1))
      BY <1>0, PiecesGrow, PiecesOfRequest
    <2> HIDE DEF P
    <2>4. buffer \o (wire \o P) = (buffer \o wire) \o P
      <3> DEFINE Q == PieceOf(Len(sent) + 1)
      <3>1. wire \in Seq(Q) /\ buffer \in Seq(Q) /\ P \in Seq(Q)
        BY <2>3
      <3> HIDE DEF Q
      <3>2. \A b, w, p \in Seq(Q) : (b \o w) \o p = b \o (w \o p)
        <4> TAKE b, w, p \in Seq(Q)
        <4> QED
          BY ONLY ConcatAssociative, b \in Seq(Q), w \in Seq(Q), p \in Seq(Q)
      <3> QED
        BY <3>1, <3>2, Zenon
    <2>5. GoodStream((buffer \o wire) \o P, heads, Len(sent) + 1)
      BY <1>0, StreamGrows DEF P
    <2> QED
      BY <2>1, <2>2, <2>4, <2>5
  <1>3. ASSUME NEW n \in 1 .. Len(wire), Read(n) PROVE StreamInv'
    <2>1. /\ buffer' = SubSeq(wire, 1, n) /\ wire' = SubSeq(wire, n + 1, Len(wire))
          /\ UNCHANGED <<sent, heads>> /\ pc = "read" /\ pc' = "parse"
      BY <1>3 DEF Read, headervars
    <2>2. buffer' \o wire' = SubSeq(wire, 1, Len(wire))
      <3>1. 1 \in 1 .. Len(wire) + 1 /\ n \in 1 - 1 .. Len(wire) /\ Len(wire) \in n .. Len(wire)
        BY <1>0
      <3> QED
        BY <1>0, <2>1, <3>1, ConcatAdjacentSubSeq
    <2>3. buffer' \o wire' = wire
      BY <1>0, <2>2, SubSeqFull
    <2>4. buffer \o wire = wire
      BY <1>0, <2>1, ConcatEmptySeq
    <2> QED
      BY <2>1, <2>3, <2>4
  <1>4. CASE ReadFails \/ ReadOn \/ WriteFails
    BY <1>4 DEF ReadFails, ReadOn, WriteFails, headervars
  <1>5. CASE ParsePart
    <2>1. buffer # <<>> /\ buffer' = Tail(buffer) /\ UNCHANGED <<sent, wire, heads, pc>> /\ pc = "parse"
      BY <1>5 DEF ParsePart, InHeader, headervars
    <2> DEFINE s == buffer \o wire
    <2>2. Tail(buffer) \o wire = Tail(s) /\ s # <<>>
      BY <2>1, DropFirst
    <2>3. GoodStream(s, heads, Len(sent))
      OBVIOUS
    <2> HIDE DEF s
    <2>4. /\ Tail(s) \in Seq(PieceOf(Len(sent))) /\ Len(s) = Len(Tail(s)) + 1
          /\ \A i \in 1 .. Len(Tail(s)) : Tail(s)[i] = s[i + 1]
      BY <1>0, <2>2, <2>3, HeadTailProperties DEF GoodStream
    <2>5. GoodStream(Tail(s), heads, Len(sent))
      BY <1>0, <2>3, <2>4, StreamSuffix
    <2> QED
      BY <2>1, <2>2, <2>5
  <1>6. CASE ParseGarbage \/ ParseBodyEnd \/ ParseBodyBreaks \/ ParseBodyPart
    <2>1. buffer' = <<>> /\ UNCHANGED <<sent, wire, heads>>
      BY <1>6 DEF ParseGarbage, ParseBodyEnd, ParseBodyBreaks, ParseBodyPart, Replies, headervars
    <2> QED
      BY <1>0, <2>1, Forget
  <1>7. CASE ParseHeader
    <2>1. UNCHANGED <<sent, wire>> /\ heads' = Head(buffer)[2] /\ InHeader /\ WholeHeader(Taken) /\ pc = "parse"
      BY <1>7, HeaderKinds
    <2>2. \/ buffer' = Tail(buffer) /\ pc' = pc
          \/ buffer' = <<>>
      BY <1>7, HeaderKinds DEF HeaderAccepted, HeaderRefused, Replies
    <2> QED
      BY <2>1, <2>2, HeaderStream
  <1>8. CASE WriteDone
    BY <1>8 DEF WriteDone, headervars
  <1> HIDE DEF StreamInv
  <1> QED
    BY <1>1, <1>2, <1>3, <1>4, <1>5, <1>6, <1>7, <1>8 DEF CNext, Parse, Reads
-----------------------------------------------------------------------------
(* What is accepted, and its body *)

\* The requests sent so far stay what they are.
LEMMA SentStays ==
    ASSUME CTypeOK, [CNext]_cvars
    PROVE  /\ Len(sent) \in Nat /\ Len(sent') \in Nat /\ Len(sent) <= Len(sent')
           /\ DOMAIN sent = 1 .. Len(sent) /\ DOMAIN sent' = 1 .. Len(sent')
           /\ \A i \in 1 .. Len(sent) : sent'[i] = sent[i]
  <1>1. CASE UNCHANGED sent
    BY <1>1 DEF CTypeOK
  <1>2. ASSUME NEW r \in Requests, sent' = Append(sent, r)
        PROVE  /\ Len(sent') = Len(sent) + 1 /\ DOMAIN sent' = 1 .. Len(sent')
               /\ \A i \in 1 .. Len(sent) : sent'[i] = sent[i]
    BY <1>2 DEF CTypeOK
  <1>3. (\E r \in Requests : sent' = Append(sent, r)) \/ UNCHANGED sent
    BY DEF CNext, Parse, Reads, ClientSends, Read, ReadFails, ReadOn, ParsePart, ParseGarbage, ParseHeader,
           ParseBodyPart, ParseBodyEnd, ParseBodyBreaks, WriteDone, WriteFails, cvars
  <1>4. Len(sent) \in Nat /\ DOMAIN sent = 1 .. Len(sent)
    BY DEF CTypeOK
  <1> QED
    BY <1>1, <1>2, <1>3, <1>4

\* A header that is accepted leaves a type that will do.
LEMMA AcceptedType ==
    ASSUME NEW ts, ts \in Seq({"soap", "other"}), NEW r \in RequestType, ContentTypeOk(ts \o TypesOf(r))
    PROVE  r.type \in {"none", "soap"}
  <1>1. r.type \in {"none", "soap", "other", "twice"}
    BY DEF RequestType
  <1>2. Len(ts) \in Nat
    OBVIOUS
  <1>3. ASSUME r.type = "twice" PROVE FALSE
    <2>1. TypesOf(r) = <<"soap", "soap">>
      BY <1>3 DEF TypesOf
    <2>2. Len(ts \o <<"soap", "soap">>) = Len(ts) + 2
      OBVIOUS
    <2>3. Len(ts \o <<"soap", "soap">>) \in {0, 1}
      <3>1. ts \o <<"soap", "soap">> \in {<<>>, <<"soap">>}
        BY <2>1 DEF ContentTypeOk
      <3>2. Len(<<>>) = 0 /\ Len(<<"soap">>) = 1
        OBVIOUS
      <3> QED
        BY <3>1, <3>2
    <2> QED
      BY <1>2, <2>2, <2>3
  <1>4. ASSUME r.type = "other" PROVE FALSE
    <2>1. TypesOf(r) = <<"other">>
      BY <1>4 DEF TypesOf
    <2>2. Len(ts \o <<"other">>) = Len(ts) + 1 /\ (ts \o <<"other">>)[Len(ts) + 1] = "other"
      OBVIOUS
    <2>3. ts \o <<"other">> = <<>> \/ ts \o <<"other">> = <<"soap">>
      BY <2>1 DEF ContentTypeOk
    <2>4. ts \o <<"other">> = <<"soap">> /\ Len(ts) = 0
      <3>1. Len(<<>>) = 0 /\ Len(<<"soap">>) = 1
        OBVIOUS
      <3>2. Len(ts \o <<"other">>) # 0
        BY <1>2, <2>2
      <3> QED
        BY <1>2, <2>2, <2>3, <3>1, <3>2
    <2>5. (ts \o <<"other">>)[1] = "other" /\ (ts \o <<"other">>)[1] = "soap"
      BY <2>2, <2>4
    <2> QED
      BY <2>5
  <1> QED
    BY <1>1, <1>3, <1>4

\* What is fed begins with what was fed before, or with what comes next.
LEMMA FedFollows ==
    ASSUME CTypeOK, buffer # <<>>, Follows(fed, heads), fed = <<>> => Follows(buffer \o wire, heads)
    PROVE  Follows(fed \o Chunk, heads)
  <1> SUFFICES ASSUME fed \o Chunk # <<>>, (fed \o Chunk)[1][1] = "body"
               PROVE  (fed \o Chunk)[1][2] = heads
    BY DEF Follows
  <1> DEFINE P == PieceOf(Len(sent))
  <1>1. /\ fed \in Seq(P) /\ Chunk \in Seq(P) /\ Len(fed) \in Nat /\ Len(Chunk) \in Nat
        /\ \A i \in 1 .. Len(Chunk) : Chunk[i] = buffer[i]
    <2>1. fed \in Seq(P)
      BY DEF CTypeOK
    <2> QED
      BY <2>1, ChunkType
  <1> HIDE DEF P
  <1>2. /\ Len(fed \o Chunk) = Len(fed) + Len(Chunk) /\ fed \o Chunk \in Seq(P)
        /\ \A i \in 1 .. Len(fed) + Len(Chunk) : (fed \o Chunk)[i] = IF i <= Len(fed) THEN fed[i] ELSE Chunk[i - Len(fed)]
    BY <1>1, ConcatProperties
  <1>3. Len(fed) + Len(Chunk) >= 1
    BY <1>1, <1>2, EmptySeq
  <1>4. CASE fed # <<>>
    <2>1. Len(fed) >= 1
      BY <1>1, <1>4
    <2>2. (fed \o Chunk)[1] = fed[1]
      BY <1>1, <1>2, <2>1
    <2> QED
      BY <1>4, <2>2 DEF Follows
  <1>5. CASE fed = <<>>
    <2>1. Len(fed) = 0 /\ Len(Chunk) >= 1
      BY <1>1, <1>3, <1>5
    <2>2. (fed \o Chunk)[1] = Chunk[1 - 0]
      BY <1>1, <1>2, <2>1
    <2>3. (fed \o Chunk)[1] = (buffer \o wire)[1] /\ buffer \o wire # <<>>
      BY <1>1, <2>1, <2>2, DropFirst
    <2> QED
      BY <1>5, <2>3 DEF Follows
  <1> QED
    BY <1>4, <1>5

LEMMA AcceptedStep ==
    ASSUME CTypeOK, StreamInv, AcceptedInv, ReplyInv, [CNext]_cvars
    PROVE  AcceptedInv'
  <1>0. /\ Len(sent) \in Nat /\ Len(sent') \in Nat /\ Len(sent) <= Len(sent')
        /\ DOMAIN sent = 1 .. Len(sent) /\ DOMAIN sent' = 1 .. Len(sent')
        /\ \A i \in 1 .. Len(sent) : sent'[i] = sent[i]
    BY SentStays
  <1>1. CASE UNCHANGED cvars
    BY <1>1 DEF cvars, AcceptedInv, Accepted, Follows
  <1>2. ASSUME NEW r \in Requests, ClientSends(r) PROVE AcceptedInv'
    <2> DEFINE P == Pieces(Len(sent) + 1, r)
    <2>1. wire' = wire \o P /\ UNCHANGED <<pc, buffer, state, fed, reply, heads, got, replies>>
      BY <1>2 DEF ClientSends, bodyvars, headervars
    <2>2. Accepted' = Accepted
      BY <2>1 DEF Accepted
    <2>3. ASSUME Accepted PROVE heads \in 1 .. Len(sent) /\ heads \in DOMAIN sent' /\ sent'[heads] = sent[heads]
      BY <1>0, <2>3 DEF AcceptedInv
    <2>4. ASSUME Follows(buffer \o wire, heads) PROVE Follows(buffer \o (wire \o P), heads)
      <3> DEFINE Q == PieceOf(Len(sent) + 1)
                 s == buffer \o wire
      <3>1. wire \in Seq(Q) /\ buffer \in Seq(Q) /\ P \in Seq(Q) /\ Len(P) \in Nat \ {0} /\ P[1][1] = "part"
        <4>1. r.body \in Nat
          BY ConnectionAssumption DEF RequestType
        <4> QED
          <5>1. P \in Seq(Q) /\ Len(P) = 2 + r.body
            BY <1>0, PiecesOfRequest
          <5>2. P[1] = <<"part", Len(sent) + 1>>
            <6>1. 1 \in 1 .. 2 + r.body
              BY <4>1
            <6> QED
              BY <1>0, <6>1, PiecesOfRequest
          <5>3. wire \in Seq(Q) /\ buffer \in Seq(Q)
            BY <1>0, PiecesGrow DEF CTypeOK
          <5> HIDE DEF P, Q
          <5> QED
            BY <4>1, <5>1, <5>2, <5>3
      <3> HIDE DEF P, Q
      <3>2. buffer \o (wire \o P) = s \o P
        BY ONLY <3>1, ConcatAssociative
      <3>3. s \in Seq(Q)
        BY <3>1, ConcatProperties
      <3>4. s = <<>> => (s \o P)[1] = P[1]
        BY <3>1, <3>3
      <3>5. s # <<>> => (s \o P)[1] = s[1]
        BY <3>1, <3>3
      <3> QED
        BY <2>4, <3>1, <3>2, <3>4, <3>5 DEF Follows
    <2>5. Follows(fed, heads)' = Follows(fed, heads)
      BY <2>1 DEF Follows
    <2>6. Follows(buffer \o wire, heads) => Follows(buffer \o wire, heads)'
      BY <2>1, <2>4 DEF Follows
    <2>7. CASE ~Accepted
      BY <2>1, <2>2, <2>7 DEF AcceptedInv, Accepted
    <2>8. CASE Accepted
      BY <2>1, <2>2, <2>3, <2>5, <2>6, <2>8 DEF AcceptedInv, Accepted
    <2> QED
      BY <2>7, <2>8
  <1>3. ASSUME NEW n \in 1 .. Len(wire), Read(n) PROVE AcceptedInv'
    <2>1. /\ buffer' = SubSeq(wire, 1, n) /\ wire' = SubSeq(wire, n + 1, Len(wire)) /\ pc = "read" /\ pc' = "parse"
          /\ UNCHANGED <<sent, state, fed, reply, heads, got, replies>> /\ buffer = <<>>
      BY <1>3 DEF Read, bodyvars, headervars, StreamInv
    <2>2. wire \in Seq(PieceOf(Len(sent))) /\ Len(wire) \in Nat
      BY DEF CTypeOK
    <2>3. buffer' \o wire' = SubSeq(wire, 1, Len(wire))
      <3>1. 1 \in 1 .. Len(wire) + 1 /\ n \in 1 - 1 .. Len(wire) /\ Len(wire) \in n .. Len(wire)
        BY <2>2
      <3> QED
        BY <2>1, <2>2, <3>1, ConcatAdjacentSubSeq
    <2>4. buffer' \o wire' = buffer \o wire
      BY <2>1, <2>2, <2>3, SubSeqFull, ConcatEmptySeq
    <2> QED
      BY <2>1, <2>4 DEF AcceptedInv, Accepted, Follows
  <1>4. CASE ReadFails \/ WriteFails
    <2>1. pc' = "closed"
      BY <1>4 DEF ReadFails, WriteFails
    <2> QED
      BY <2>1 DEF AcceptedInv, Accepted
  <1>5. CASE ReadOn
    BY <1>5 DEF ReadOn, bodyvars, headervars, AcceptedInv, Accepted, Follows
  <1>6. CASE ParsePart
    <2>1. pc' = "parse" /\ state' = "InHeader"
      BY <1>6 DEF ParsePart, InHeader
    <2> QED
      BY <2>1 DEF AcceptedInv, Accepted
  <1>7. CASE ParseGarbage \/ ParseBodyBreaks \/ (ParseHeader /\ HeaderRefused)
    <2>1. Replies("BadRequest", TRUE) \/ Replies("NotFound", TRUE)
      BY <1>7 DEF ParseGarbage, ParseBodyBreaks, HeaderRefused
    <2>2. pc' = "write" /\ reply'[1] # "Ok" /\ reply'[2] = TRUE
      BY <2>1, RefusalParts
    <2> QED
      BY <2>2 DEF AcceptedInv, Accepted
  <1>8. CASE ParseHeader /\ HeaderAccepted
    <2> DEFINE n == Head(buffer)[2]
    <2>1. /\ UNCHANGED <<sent, wire, replies>> /\ heads' = n /\ InHeader /\ WholeHeader(Taken) /\ got' = Taken /\ pc = "parse"
          /\ types' = types \o TypesOf(sent[n])
      BY <1>8, HeaderKinds DEF HeaderOf
    <2>2. n \in 1 .. Len(sent) /\ heads < n /\ Follows(Tail(buffer) \o wire, n) /\ Taken = HeaderPieces(n)
      BY <2>1, HeaderStream
    <2> HIDE DEF n
    <2>3. /\ sent[n].syntax /\ sent[n].target /\ ContentTypeOk(types')
          /\ fed' = <<>> /\ state' = "InBody" /\ buffer' = Tail(buffer) /\ pc' = "parse"
      BY <1>8, <2>1 DEF HeaderAccepted, HeaderOf, n
    <2>4. sent[n] \in RequestType
      BY <2>2, ElementOfSeq, ConnectionAssumption DEF CTypeOK
    <2>5. sent[n].type \in {"none", "soap"}
      BY <2>1, <2>3, <2>4, AcceptedType DEF CTypeOK
    <2>6. \A j \in 1 .. Len(replies) : replies[j][2] < n
      <3> SUFFICES ASSUME NEW j \in 1 .. Len(replies) PROVE replies[j][2] < n
        OBVIOUS
      <3>1. replies[j] \in Answers(Len(sent)) /\ Len(sent) \in Nat /\ heads \in Nat
        BY ElementOfSeq DEF CTypeOK
      <3>2. replies[j][2] <= heads
        BY DEF ReplyInv
      <3>3. replies[j][2] \in Nat
        BY <3>1 DEF Answers
      <3> QED
        BY <2>2, <3>1, <3>2, <3>3
    <2>7. Follows(fed', heads') /\ Follows(buffer' \o wire', heads')
      BY <2>1, <2>2, <2>3 DEF Follows
    <2> QED
      BY <1>0, <2>1, <2>2, <2>3, <2>5, <2>6, <2>7 DEF AcceptedInv, Accepted
  <1>9. CASE ParseBodyPart
    <2>1. /\ pc = "parse" /\ state = "InBody" /\ buffer # <<>> /\ fed' = fed \o Chunk /\ remaining > Len(buffer)
          /\ UNCHANGED <<sent, pc, state, reply, heads, got, replies>>
      BY <1>9 DEF ParseBodyPart, InBody, headervars
    <2>2. Follows(fed \o Chunk, heads)
      BY <2>1, FedFollows DEF AcceptedInv
    <2>3. fed \o Chunk # <<>>
      <3>1. Len(Chunk) >= 1 /\ Chunk \in Seq(PieceOf(Len(sent))) /\ fed \in Seq(PieceOf(Len(sent)))
        BY <2>1, BufferParts, ChunkType DEF CTypeOK
      <3> QED
        BY <3>1
    <2> QED
      BY <2>1, <2>2, <2>3 DEF AcceptedInv, Accepted, Follows
  <1>10. CASE ParseBodyEnd
    <2>1. /\ pc = "parse" /\ state = "InBody" /\ buffer # <<>> /\ fed' = fed \o Chunk
          /\ UNCHANGED <<sent, heads, got, replies>>
          /\ IF Unanswered(fed') THEN Replies("BadRequest", TRUE) /\ UNCHANGED state
                                 ELSE Replies("Ok", ~keepAlive) /\ state' = "InHeader"
      BY <1>10 DEF ParseBodyEnd, InBody, headervars
    <2>2. CASE Unanswered(fed')
      <3>1. pc' = "write" /\ reply'[1] # "Ok" /\ reply'[2] = TRUE
        BY <2>1, <2>2, RefusalParts
      <3> QED
        BY <3>1 DEF AcceptedInv, Accepted
    <2>3. CASE ~Unanswered(fed')
      <3>1. pc' = "write" /\ reply'[1] = "Ok" /\ state' = "InHeader"
        BY <2>1, <2>3, RepliesParts
      <3>2. IsDocument(fed') /\ HeaderOf(fed'[1]).xml # "ignored"
        BY <2>3 DEF Unanswered
      <3>3. fed' # <<>> /\ fed'[1][1] = "body" /\ HeaderOf(fed'[1]).xml # "malformed"
        <4>1. fed' # <<>> /\ HeaderOf(fed'[1]).xml # "malformed" /\ \A i \in DOMAIN fed' : fed'[i] = <<"body", fed'[1][2]>>
          BY <3>2 DEF IsDocument
        <4>2. 1 \in DOMAIN fed'
          <5>1. fed' \in Seq(PieceOf(Len(sent)))
            BY <2>1, ChunkType
          <5> QED
            BY <4>1, <5>1, EmptySeq, LenProperties
        <4> QED
          BY <4>1, <4>2
      <3>4. fed'[1][2] = heads
        BY <2>1, <3>3, FedFollows DEF AcceptedInv, Follows
      <3>5. /\ heads \in DOMAIN sent /\ sent[heads].syntax /\ sent[heads].target
            /\ sent[heads].type \in {"none", "soap"} /\ \A j \in 1 .. Len(replies) : replies[j][2] < heads
            /\ got = HeaderPieces(heads)
        BY <2>1 DEF AcceptedInv, Accepted
      <3>6. sent[heads].xml = "answered"
        <4>1. sent[heads].xml \in {"answered", "ignored", "malformed"}
          BY <1>0, <3>5, ElementOfSeq, ConnectionAssumption DEF CTypeOK, RequestType
        <4> QED
          BY <3>2, <3>3, <3>4, <4>1 DEF HeaderOf
      <3>7. fed' = [i \in 1 .. sent[heads].body |-> <<"body", heads>>]
        <4>1. fed' \in Seq(PieceOf(Len(sent)))
          BY <2>1, ChunkType
        <4>2. Len(fed') = sent[heads].body /\ \A i \in DOMAIN fed' : fed'[i] = <<"body", heads>>
          BY <3>2, <3>4 DEF IsDocument, HeaderOf
        <4>3. DOMAIN fed' = 1 .. Len(fed') /\ fed' = [i \in 1 .. Len(fed') |-> fed'[i]]
          BY <4>1
        <4> QED
          BY <4>2, <4>3, Zenon
      <3>8. got' \o fed' = Pieces(heads, sent[heads])
        BY <2>1, <3>5, <3>7 DEF Pieces, HeaderPieces
      <3> QED
        BY <2>1, <3>1, <3>5, <3>6, <3>8 DEF AcceptedInv, Accepted
    <2> QED
      BY <2>2, <2>3
  <1>11. CASE WriteDone
    <2>1. /\ pc = "write" /\ pc' = (IF reply[2] THEN "closed" ELSE "read") /\ UNCHANGED state
      BY <1>11 DEF WriteDone
    <2>2. pc' = "closed" \/ (pc' = "read" /\ state' = "InHeader")
      BY <2>1 DEF AcceptedInv
    <2> QED
      BY <2>2 DEF AcceptedInv, Accepted
  <1> QED
    BY <1>1, <1>2, <1>3, <1>4, <1>5, <1>6, <1>7, <1>8, <1>9, <1>10, <1>11, HeaderKinds DEF CNext, Parse, Reads
-----------------------------------------------------------------------------
(* The replies *)

\* The reply that is written is the last of the replies.
LEMMA WrittenReply ==
    ASSUME CTypeOK, WriteDone
    PROVE  /\ Len(replies) \in Nat /\ Len(replies') = Len(replies) + 1
           /\ \A i \in 1 .. Len(replies) : replies'[i] = replies[i]
           /\ replies'[Len(replies) + 1][1] = reply[1] /\ replies'[Len(replies) + 1][2] = heads
           /\ replies'[Len(replies) + 1][3] = got \o fed
           /\ DOMAIN replies = 1 .. Len(replies) /\ DOMAIN replies' = 1 .. Len(replies')
           /\ UNCHANGED <<sent, heads, lengths>> /\ pc = "write"
  <1> DEFINE e == <<reply[1], heads, got \o fed>>
             T == Answers(Len(sent))
  <1>1. e \in T /\ replies \in Seq(T) /\ replies' = Append(replies, e)
    BY AnswerType DEF CTypeOK, WriteDone
  <1>2. UNCHANGED <<sent, heads, lengths>> /\ pc = "write"
    BY DEF WriteDone, headervars
  <1>3. e[1] = reply[1] /\ e[2] = heads /\ e[3] = got \o fed
    OBVIOUS
  <1> HIDE DEF e, T
  <1>4. /\ Len(replies) \in Nat /\ Len(replies') = Len(replies) + 1 /\ replies'[Len(replies) + 1] = e
        /\ \A i \in 1 .. Len(replies) : replies'[i] = replies[i]
        /\ replies' \in Seq(T)
    BY <1>1, AppendProperties, LenProperties
  <1> QED
    BY <1>1, <1>2, <1>3, <1>4, LenProperties

\* All other steps leave the replies alone.
LEMMA OtherSteps ==
    ASSUME [CNext]_cvars, ~WriteDone
    PROVE  UNCHANGED replies
  BY DEF CNext, Parse, Reads, ClientSends, Read, ReadFails, ReadOn, ParsePart, ParseGarbage, ParseHeader,
         ParseBodyPart, ParseBodyEnd, ParseBodyBreaks, WriteFails, cvars

\* Headers come in order, and their lengths add up.
LEMMA HeadsGrow ==
    ASSUME CTypeOK, StreamInv, [CNext]_cvars
    PROVE  /\ heads <= heads' /\ (lengths # <<>> => lengths' # <<>>)
           /\ ~ParseHeader => UNCHANGED <<heads, lengths>>
  <1>1. ~ParseHeader => UNCHANGED <<heads, lengths>>
    BY DEF CNext, Parse, Reads, ClientSends, Read, ReadFails, ReadOn, ParsePart, ParseGarbage,
           ParseBodyPart, ParseBodyEnd, ParseBodyBreaks, WriteDone, WriteFails, cvars, headervars
  <1>2. CASE ParseHeader
    <2> DEFINE n == Head(buffer)[2]
    <2>1. n \in 1 .. Len(sent) /\ heads < n /\ heads' = n /\ lengths' = lengths \o sent[n].length
      BY <1>2, HeaderKinds, HeaderStream DEF HeaderOf
    <2>2. heads \in Nat /\ lengths \in Seq(Nat)
      BY DEF CTypeOK
    <2>3. sent[n].length \in Seq(Nat)
      <3>1. sent[n] \in RequestType
        BY <2>1, ElementOfSeq, ConnectionAssumption DEF CTypeOK
      <3> QED
        BY <3>1 DEF RequestType
    <2> HIDE DEF n
    <2>4. lengths # <<>> => lengths' # <<>>
      BY <2>1, <2>2, <2>3, ConcatEqualIffEmpty
    <2>5. heads <= heads'
      BY <2>1, <2>2
    <2> QED
      BY <1>2, <2>4, <2>5
  <1>3. heads \in Nat
    BY DEF CTypeOK
  <1> QED
    BY <1>1, <1>2, <1>3

LEMMA ReplyStep ==
    ASSUME CTypeOK, StreamInv, AcceptedInv, ReplyInv, [CNext]_cvars
    PROVE  ReplyInv'
  <1>0. /\ Len(sent) \in Nat /\ Len(sent') \in Nat /\ Len(sent) <= Len(sent')
        /\ DOMAIN sent = 1 .. Len(sent) /\ DOMAIN sent' = 1 .. Len(sent')
        /\ heads \in Nat /\ heads' \in Nat /\ heads <= heads'
    BY SentStays, HeadsGrow, CTypeStep DEF CTypeOK
  <1>1. CASE ~WriteDone
    <2>1. replies' = replies
      BY <1>1, OtherSteps
    <2>2. ASSUME NEW i \in 1 .. Len(replies) PROVE replies[i][2] <= heads'
      <3>1. replies[i] \in Statuses \X (0 .. Len(sent)) \X Seq(AnyPiece) /\ replies[i][2] <= heads
        BY ElementOfSeq DEF CTypeOK, Answers, ReplyInv
      <3> QED
        BY <1>0, <3>1
    <2>3. ASSUME NEW i \in 1 .. Len(replies), Status(i) = "Ok" PROVE replies[i][2] \in 1 .. Len(sent')
      BY <1>0, <2>3 DEF ReplyInv
    <2> QED
      BY <2>1, <2>2, <2>3 DEF ReplyInv, Status
  <1>2. CASE WriteDone
    <2>1. ASSUME NEW i \in 1 .. Len(replies')
          PROVE  replies'[i][2] <= heads' /\ (replies'[i][1] = "Ok" => replies'[i][2] \in 1 .. Len(sent'))
      <3>1. CASE i \in 1 .. Len(replies)
        BY <1>2, <3>1, WrittenReply DEF ReplyInv, Status
      <3>2. CASE i = Len(replies) + 1
        <4>1. replies'[i][1] = reply[1] /\ replies'[i][2] = heads /\ heads' = heads /\ sent' = sent /\ pc = "write"
          BY <1>2, <3>2, WrittenReply
        <4>2. reply[1] = "Ok" => heads \in 1 .. Len(sent)
          BY <1>0, <4>1 DEF AcceptedInv, Accepted
        <4> QED
          BY <1>0, <4>1, <4>2
      <3> QED
        BY <1>2, <3>1, <3>2, WrittenReply
    <2> QED
      BY <2>1 DEF ReplyInv, Status
  <1> QED
    BY <1>1, <1>2

\* Each reply keeps its meaning when another one is added.
LEMMA AnswersStay ==
    ASSUME CTypeOK, ReplyInv, [CNext]_cvars, NEW i \in 1 .. Len(replies), replies'[i] = replies[i]
    PROVE  AnsweredWithLength(i)' <=> AnsweredWithLength(i)
  <1>1. Status(i)' = Status(i)
    BY DEF Status
  <1>2. CASE Status(i) = "Ok"
    <2>1. replies[i][2] \in 1 .. Len(sent)
      BY <1>2 DEF ReplyInv
    <2>2. sent'[replies'[i][2]] = sent[replies[i][2]]
      BY <2>1, SentStays
    <2> QED
      BY <1>1, <2>2 DEF AnsweredWithLength
  <1> QED
    BY <1>1, <1>2 DEF AnsweredWithLength

\* Only a header makes a request accepted; while it is read on, it stays so.
LEMMA AcceptedStays ==
    ASSUME [CNext]_cvars, ~ParseHeader, ~WriteDone
    PROVE  /\ Accepted' => Accepted
           /\ pc' \in {"read", "parse"} => pc \in {"read", "parse"} /\ state' = state
  <1>1. CASE UNCHANGED <<pc, state, reply>>
    BY <1>1 DEF Accepted
  <1>2. CASE ReadFails \/ WriteFails
    BY <1>2 DEF ReadFails, WriteFails, Accepted
  <1>3. CASE Reads \/ ReadOn
    BY <1>3 DEF Reads, Read, ReadOn, Accepted
  <1>4. CASE ParseGarbage \/ ParseBodyBreaks
    BY <1>4, RefusalParts DEF ParseGarbage, ParseBodyBreaks, Accepted
  <1>5. CASE ParseBodyEnd
    BY <1>5 DEF ParseBodyEnd, InBody, Accepted, Replies
  <1>6. CASE ParseBodyPart
    BY <1>6 DEF ParseBodyPart, InBody, Accepted
  <1>7. (\E r \in Requests : ClientSends(r)) \/ ParsePart \/ UNCHANGED cvars => UNCHANGED <<pc, state, reply>>
    BY DEF ClientSends, ParsePart, cvars
  <1> QED
    BY <1>1, <1>2, <1>3, <1>4, <1>5, <1>6, <1>7 DEF CNext, Parse

LEMMA LengthStep ==
    ASSUME CTypeOK, StreamInv, AcceptedInv, ReplyInv, LengthInv, [CNext]_cvars
    PROVE  LengthInv'
  <1>1. CASE WriteDone
    <2>1. ~Accepted'
      <3>1. /\ pc = "write" /\ pc' = (IF reply[2] THEN "closed" ELSE "read") /\ UNCHANGED state
        BY <1>1 DEF WriteDone
      <3>2. pc' = "closed" \/ (pc' = "read" /\ state' = "InHeader")
        BY <3>1 DEF AcceptedInv
      <3> QED
        BY <3>2 DEF Accepted
    <2>2. ASSUME NEW i \in 1 .. Len(replies'), AnsweredWithLength(i)' PROVE lengths' # <<>>
      <3>1. CASE i \in 1 .. Len(replies)
        <4>1. AnsweredWithLength(i)
          BY <1>1, <2>2, <3>1, WrittenReply, AnswersStay
        <4> QED
          BY <1>1, <3>1, <4>1, WrittenReply DEF LengthInv
      <3>2. CASE i = Len(replies) + 1
        <4>1. reply[1] = "Ok" /\ sent[heads].length # <<>> /\ pc = "write" /\ lengths' = lengths
          BY <1>1, <2>2, <3>2, WrittenReply DEF AnsweredWithLength, Status
        <4> QED
          BY <4>1 DEF LengthInv, Accepted
      <3> QED
        BY <1>1, <3>1, <3>2, WrittenReply
    <2> QED
      BY <2>1, <2>2 DEF LengthInv
  <1>2. CASE ~WriteDone
    <2>1. replies' = replies
      BY <1>2, OtherSteps
    <2>2. \A i \in 1 .. Len(replies) : AnsweredWithLength(i)' <=> AnsweredWithLength(i)
      BY <2>1, AnswersStay
    <2>3. (\A i \in 1 .. Len(replies) : AnsweredWithLength(i) => lengths # <<>>)'
      BY <2>1, <2>2, HeadsGrow DEF LengthInv
    <2>4. CASE ~ParseHeader
      <3>1. heads' = heads /\ lengths' = lengths
        BY <2>4, HeadsGrow
      <3>2. Accepted' => Accepted
        BY <1>2, <2>4, AcceptedStays
      <3>3. Accepted => sent'[heads'] = sent[heads]
        BY <3>1, SentStays DEF AcceptedInv
      <3> QED
        BY <2>1, <2>2, <2>3, <3>1, <3>2, <3>3 DEF LengthInv
    <2>5. CASE ParseHeader /\ HeaderRefused
      <3>1. ~Accepted'
        BY <2>5, RefusalParts DEF HeaderRefused, Accepted
      <3> QED
        BY <2>3, <3>1 DEF LengthInv
    <2>6. CASE ParseHeader /\ HeaderAccepted
      <3> DEFINE n == Head(buffer)[2]
      <3>1. n \in 1 .. Len(sent) /\ heads' = n /\ lengths' = lengths \o sent[n].length /\ sent' = sent
        BY <2>6, HeaderKinds, HeaderStream DEF HeaderOf
      <3>2. sent[n].length \in Seq(Nat) /\ lengths \in Seq(Nat)
        BY <3>1, ElementOfSeq, ConnectionAssumption DEF CTypeOK, RequestType
      <3>3. Len(lengths') = 1
        BY <2>6 DEF HeaderAccepted, ContentLengthOk
      <3> HIDE DEF n
      <3>4. ASSUME sent[n].length # <<>> PROVE lengths = <<>> /\ lengths' # <<>>
        <4>1. Len(lengths') = Len(lengths) + Len(sent[n].length) /\ Len(lengths) \in Nat
          BY <3>1, <3>2
        <4>2. Len(sent[n].length) \in Nat /\ Len(sent[n].length) >= 1
          BY <3>2, <3>4, EmptySeq
        <4>3. Len(lengths) = 0
          <5> DEFINE a == Len(lengths)
                     b == Len(sent[n].length)
          <5>1. a \in Nat /\ b \in Nat /\ b >= 1 /\ a + b = 1
            BY <3>3, <4>1, <4>2
          <5> HIDE DEF a, b
          <5>2. a = 0
            BY <5>1
          <5> QED
            BY <5>2 DEF a
        <4>4. lengths = <<>>
          BY <3>2, <4>3, EmptySeq
        <4>5. Len(<<>>) = 0
          OBVIOUS
        <4> QED
          BY <3>3, <4>4, <4>5
      <3>5. ASSUME sent[n].length # <<>>, NEW i \in 1 .. Len(replies) PROVE ~AnsweredWithLength(i)
        BY <3>4, <3>5 DEF LengthInv
      <3> QED
        BY <2>1, <2>2, <2>3, <3>1, <3>4, <3>5 DEF LengthInv
    <2> QED
      BY <2>4, <2>5, <2>6, HeaderKinds
  <1> QED
    BY <1>1, <1>2

LEMMA SourceStep ==
    ASSUME CTypeOK, StreamInv, AcceptedInv, ReplyInv, SourceInv, [CNext]_cvars
    PROVE  SourceInv'
  <1>1. CASE WriteDone
    <2>1. /\ pc = "write" /\ pc' = (IF reply[2] THEN "closed" ELSE "read")
          /\ UNCHANGED <<state, lengths, heads, sent>>
      BY <1>1 DEF WriteDone, headervars
    <2>2. CASE reply[1] # "Ok"
      <3>1. pc' = "closed"
        BY <2>1, <2>2 DEF AcceptedInv
      <3> QED
        BY <3>1 DEF SourceInv, Accepted
    <2>3. CASE reply[1] = "Ok"
      <3>1. ~Accepted'
        BY <2>1, <2>3 DEF AcceptedInv, Accepted
      <3>2. lengths # <<>> /\ ((\E j \in 1 .. Len(replies) : AnsweredWithLength(j)) \/ sent[heads].length # <<>>)
        BY <2>1, <2>3 DEF SourceInv, Accepted
      <3>3. ASSUME NEW j \in 1 .. Len(replies), AnsweredWithLength(j)
            PROVE  j \in 1 .. Len(replies') /\ AnsweredWithLength(j)'
        BY <1>1, <3>3, WrittenReply, AnswersStay
      <3>4. ASSUME sent[heads].length # <<>>, NEW k \in 1 .. Len(replies'), k = Len(replies) + 1
            PROVE  AnsweredWithLength(k)'
        <4>1. replies'[k][1] = "Ok" /\ replies'[k][2] = heads
          BY <1>1, <2>3, <3>4, WrittenReply
        <4>2. sent'[replies'[k][2]].length # <<>>
          BY <2>1, <3>4, <4>1
        <4> QED
          BY <4>1, <4>2 DEF AnsweredWithLength, Status
      <3>5. \E j \in 1 .. Len(replies') : AnsweredWithLength(j)'
        <4>1. Len(replies) + 1 \in 1 .. Len(replies')
          BY <1>1, WrittenReply
        <4>2. CASE sent[heads].length # <<>>
          BY <3>4, <4>1, <4>2
        <4>3. CASE \E j \in 1 .. Len(replies) : AnsweredWithLength(j)
          BY <3>3, <4>3
        <4> QED
          BY <3>2, <4>2, <4>3
      <3> QED
        BY <3>1, <3>5 DEF SourceInv
    <2> QED
      BY <2>2, <2>3
  <1>2. CASE ~WriteDone
    <2>1. replies' = replies
      BY <1>2, OtherSteps
    <2>2. \A i \in 1 .. Len(replies) : AnsweredWithLength(i)' <=> AnsweredWithLength(i)
      BY <2>1, AnswersStay
    <2>3. CASE ~ParseHeader
      <3>1. heads' = heads /\ lengths' = lengths
        BY <2>3, HeadsGrow
      <3>2. /\ Accepted' => Accepted
            /\ pc' \in {"read", "parse"} => pc \in {"read", "parse"} /\ state' = state
        BY <1>2, <2>3, AcceptedStays
      <3>3. Accepted => sent'[heads'] = sent[heads]
        BY <3>1, SentStays DEF AcceptedInv
      <3>4. Accepted /\ pc' \in {"read", "parse"} => Accepted'
        BY <3>2 DEF Accepted
      <3>5. Accepted' => lengths' # <<>>
        BY <3>1, <3>2 DEF SourceInv
      <3>6. ASSUME lengths' # <<>>, pc' \in {"read", "parse"} \/ Accepted'
            PROVE  \/ \E j \in 1 .. Len(replies') : AnsweredWithLength(j)'
                   \/ Accepted' /\ sent'[heads'].length # <<>>
        <4>1. \/ \E j \in 1 .. Len(replies) : AnsweredWithLength(j)
              \/ Accepted /\ sent[heads].length # <<>>
          BY <3>1, <3>2, <3>6 DEF SourceInv
        <4>2. CASE \E j \in 1 .. Len(replies) : AnsweredWithLength(j)
          BY <2>1, <2>2, <4>2
        <4>3. CASE Accepted /\ sent[heads].length # <<>>
          BY <3>3, <3>4, <3>6, <4>3
        <4> QED
          BY <4>1, <4>2, <4>3
      <3> QED
        BY <3>5, <3>6 DEF SourceInv
    <2>4. CASE ParseHeader /\ HeaderRefused
      <3>1. ~Accepted' /\ pc' = "write"
        BY <2>4, RefusalParts DEF HeaderRefused, Accepted
      <3> QED
        BY <3>1 DEF SourceInv
    <2>5. CASE ParseHeader /\ HeaderAccepted
      <3> DEFINE n == Head(buffer)[2]
      <3>1. n \in 1 .. Len(sent) /\ heads' = n /\ lengths' = lengths \o sent[n].length /\ sent' = sent
        BY <2>5, HeaderKinds, HeaderStream DEF HeaderOf
      <3>2. lengths \in Seq(Nat)
        BY DEF CTypeOK
      <3>3. lengths' # <<>>
        <4>1. Len(lengths') = 1 /\ Len(<<>>) = 0
          BY <2>5 DEF HeaderAccepted, ContentLengthOk
        <4> QED
          BY <4>1
      <3>4. Accepted' /\ ~Accepted /\ pc = "parse"
        BY <2>5 DEF HeaderAccepted, ParseHeader, InHeader, Accepted
      <3> HIDE DEF n
      <3>5. ASSUME sent[n].length = <<>> PROVE \E j \in 1 .. Len(replies) : AnsweredWithLength(j)
        <4>1. lengths \o <<>> = lengths
          BY <3>2
        <4>2. lengths # <<>>
          BY <3>1, <3>3, <3>5, <4>1
        <4> QED
          BY <3>4, <4>2 DEF SourceInv
      <3>6. \/ \E j \in 1 .. Len(replies') : AnsweredWithLength(j)'
            \/ Accepted' /\ sent'[heads'].length # <<>>
        BY <2>1, <2>2, <3>1, <3>4, <3>5
      <3> QED
        BY <3>3, <3>6 DEF SourceInv
    <2> QED
      BY <2>3, <2>4, <2>5, HeaderKinds
  <1> QED
    BY <1>1, <1>2

\* What OkIsOwn says of one reply.
OwnReply(i) ==
    Status(i) = "Ok" =>
        /\ replies[i][2] \in DOMAIN sent /\ sent[replies[i][2]].syntax /\ sent[replies[i][2]].target
        /\ sent[replies[i][2]].xml = "answered"
        /\ sent[replies[i][2]].type \in {"none", "soap"}
        /\ replies[i][3] = Pieces(replies[i][2], sent[replies[i][2]])
        /\ \A j \in 1 .. i - 1 : replies[j][2] < replies[i][2]
        /\ sent[replies[i][2]].length # <<>> \/ \E j \in 1 .. i - 1 : AnsweredWithLength(j)

LEMMA OwnReplies ==
    ASSUME CTypeOK
    PROVE  OkIsOwn <=> \A i \in 1 .. Len(replies) : OwnReply(i)
  <1>1. DOMAIN replies = 1 .. Len(replies)
    BY DEF CTypeOK
  <1> QED
    BY <1>1 DEF OkIsOwn, OwnReply, AnsweredWithLength

LEMMA OwnStep ==
    ASSUME CTypeOK, StreamInv, AcceptedInv, SourceInv, ReplyInv, OkIsOwn, [CNext]_cvars
    PROVE  OkIsOwn'
  <1>0. CTypeOK'
    BY CTypeStep
  <1>1. \A i \in 1 .. Len(replies) : OwnReply(i)
    BY OwnReplies
  <1>7. Len(replies) \in Nat
    BY DEF CTypeOK
  <1>2. ASSUME NEW i \in 1 .. Len(replies), \A j \in 1 .. i : replies'[j] = replies[j]
        PROVE  OwnReply(i)'
    <2>1. i \in 1 .. i
      OBVIOUS
    <2>2. Status(i)' = Status(i) /\ replies'[i] = replies[i]
      BY <1>2, <2>1 DEF Status
    <2> SUFFICES ASSUME Status(i) = "Ok" PROVE OwnReply(i)'
      BY <2>2 DEF OwnReply
    <2>3. replies[i][2] \in 1 .. Len(sent)
      BY DEF ReplyInv
    <2>4. sent'[replies[i][2]] = sent[replies[i][2]] /\ replies[i][2] \in DOMAIN sent'
      BY <2>3, SentStays
    <2>5. \A j \in 1 .. i - 1 : replies'[j] = replies[j] /\ j \in 1 .. Len(replies)
      BY <1>2, <1>7
    <2>6. \A j \in 1 .. i - 1 : AnsweredWithLength(j)' <=> AnsweredWithLength(j)
      BY <2>5, AnswersStay
    <2> QED
      BY <1>1, <2>2, <2>4, <2>5, <2>6 DEF OwnReply
  <1>5. ASSUME \A i \in 1 .. Len(replies') : OwnReply(i)' PROVE OkIsOwn'
    <2>1. DOMAIN replies' = 1 .. Len(replies')
      BY <1>0 DEF CTypeOK
    <2> QED
      BY <1>5, <2>1 DEF OkIsOwn, OwnReply, AnsweredWithLength
  <1>3. CASE ~WriteDone
    <2>1. replies' = replies
      BY <1>3, OtherSteps
    <2>2. \A i \in 1 .. Len(replies) : OwnReply(i)'
      BY <1>2, <2>1
    <2> QED
      BY <1>5, <2>1, <2>2
  <1>4. CASE WriteDone
    <2>1. \A i \in 1 .. Len(replies) : OwnReply(i)'
      <3> TAKE i \in 1 .. Len(replies)
      <3>1. \A j \in 1 .. i : j \in 1 .. Len(replies)
        BY <1>4, WrittenReply
      <3>2. \A j \in 1 .. i : replies'[j] = replies[j]
        BY <1>4, <3>1, WrittenReply
      <3> QED
        BY <1>2, <3>2
    <2>2. ASSUME NEW k \in 1 .. Len(replies'), k = Len(replies) + 1 PROVE OwnReply(k)'
      <3>1. /\ replies'[k][1] = reply[1] /\ replies'[k][2] = heads /\ sent' = sent /\ pc = "write"
            /\ \A j \in 1 .. Len(replies) : replies'[j] = replies[j]
            /\ replies'[k][3] = got \o fed /\ Len(replies) \in Nat /\ k - 1 = Len(replies)
        BY <1>4, <2>2, WrittenReply
      <3>2. CASE reply[1] = "Ok"
        <4>1. /\ heads \in DOMAIN sent /\ sent[heads].syntax /\ sent[heads].target
              /\ sent[heads].type \in {"none", "soap"} /\ sent[heads].xml = "answered"
              /\ got \o fed = Pieces(heads, sent[heads])
              /\ \A j \in 1 .. Len(replies) : replies[j][2] < heads
          BY <3>1, <3>2 DEF AcceptedInv, Accepted
        <4>2. \A j \in 1 .. k - 1 : replies'[j][2] < heads
          BY <3>1, <4>1
        <4>3. sent'[replies'[k][2]] = sent[heads] /\ DOMAIN sent' = DOMAIN sent
          BY <3>1
        <4>4. sent[heads].length # <<>> \/ \E j \in 1 .. Len(replies) : AnsweredWithLength(j)
          BY <3>1, <3>2 DEF SourceInv, Accepted
        <4>5. \A j \in 1 .. Len(replies) : AnsweredWithLength(j)' <=> AnsweredWithLength(j)
          BY <3>1, AnswersStay
        <4>6. sent[heads].length # <<>> \/ \E j \in 1 .. k - 1 : AnsweredWithLength(j)'
          BY <3>1, <4>4, <4>5
        <4> QED
          BY <3>1, <4>1, <4>2, <4>3, <4>6 DEF OwnReply
      <3>3. CASE reply[1] # "Ok"
        BY <3>1, <3>3 DEF OwnReply, Status
      <3> QED
        BY <3>2, <3>3
    <2>3. \A i \in 1 .. Len(replies') : OwnReply(i)'
      <3> TAKE i \in 1 .. Len(replies')
      <3>1. i \in 1 .. Len(replies) \/ i = Len(replies) + 1
        BY <1>4, WrittenReply
      <3> QED
        BY <2>1, <2>2, <3>1
    <2> QED
      BY <1>5, <2>3
  <1> QED
    BY <1>3, <1>4

LEMMA OneLengthStep ==
    ASSUME CTypeOK, StreamInv, AcceptedInv, ReplyInv, LengthInv, OneLength, [CNext]_cvars
    PROVE  OneLength'
  <1>1. CASE ~WriteDone
    <2>1. replies' = replies
      BY <1>1, OtherSteps
    <2>2. \A i \in 1 .. Len(replies) : AnsweredWithLength(i)' <=> AnsweredWithLength(i)
      BY <2>1, AnswersStay
    <2> QED
      BY <2>1, <2>2 DEF OneLength
  <1>2. CASE WriteDone
    <2>1. ASSUME NEW i \in 1 .. Len(replies'), NEW j \in 1 .. Len(replies'), i < j,
                 AnsweredWithLength(i)', AnsweredWithLength(j)'
          PROVE  FALSE
      <3>1. i \in 1 .. Len(replies)
        BY <1>2, <2>1, WrittenReply
      <3>2. AnsweredWithLength(i)
        BY <1>2, <2>1, <3>1, WrittenReply, AnswersStay
      <3>3. CASE j \in 1 .. Len(replies)
        <4>1. AnsweredWithLength(j)
          BY <1>2, <2>1, <3>3, WrittenReply, AnswersStay
        <4> QED
          BY <2>1, <3>1, <3>2, <3>3, <4>1 DEF OneLength
      <3>4. CASE j = Len(replies) + 1
        <4>1. reply[1] = "Ok" /\ sent[heads].length # <<>> /\ pc = "write"
          BY <1>2, <2>1, <3>4, WrittenReply DEF AnsweredWithLength, Status
        <4> QED
          BY <3>1, <3>2, <4>1 DEF LengthInv, Accepted
      <3> QED
        BY <1>2, <3>3, <3>4, WrittenReply
    <2> QED
      BY <2>1 DEF OneLength
  <1> QED
    BY <1>1, <1>2

-----------------------------------------------------------------------------
(* The theorems *)

\* Whatever is sent, cut and lost: the stream is in order, and what is accepted
\* and answered was.
THEOREM ConnIndAlways == CSpec => []ConnInd
  <1>1. CInit => ConnInd
    <2> SUFFICES ASSUME CInit PROVE ConnInd
      OBVIOUS
    <2>1. reply[1] = "none"
      BY PairParts DEF CInit, NoReply
    <2>2. Len(<<>>) = 0 /\ DOMAIN <<>> = {}
      OBVIOUS
    <2>3. CTypeOK
      BY <2>1, <2>2 DEF CInit, CTypeOK, Statuses
    <2>4. <<>> \o <<>> = <<>>
      OBVIOUS
    <2>5. GoodStream(<<>>, 0, 0)
      BY <2>2 DEF GoodStream
    <2>6. StreamInv
      BY <2>2, <2>4, <2>5 DEF CInit, StreamInv
    <2>7. AcceptedInv /\ LengthInv /\ SourceInv /\ ReplyInv /\ OkIsOwn /\ OneLength
      BY <2>2 DEF CInit, AcceptedInv, Accepted, LengthInv, SourceInv, ReplyInv, OkIsOwn, OneLength
    <2> QED
      BY <2>3, <2>6, <2>7 DEF ConnInd
  <1>2. ConnInd /\ [CNext]_cvars => ConnInd'
    BY CTypeStep, StreamStep, AcceptedStep, LengthStep, SourceStep, ReplyStep, OwnStep, OneLengthStep DEF ConnInd
  <1> QED
    BY <1>1, <1>2, PTL DEF CSpec

\* An Ok answers a request that is in order and of which the whole header and the
\* whole body, and nothing else, were read (parseIncoming, parseHeader and
\* parseBody of http_server.cpp), and no request gets two: for every set of
\* requests, however they are cut into reads, pipelined and lost.  Where such a
\* request has no length, the length was one of an answered request before it.
THEOREM OkIsOwnAlways == CSpec => []OkIsOwn
  <1>1. ConnInd => OkIsOwn
    BY DEF ConnInd
  <1> QED
    BY <1>1, ConnIndAlways, PTL

\* The headers of a connection add up: one request with a length of its own is
\* answered with Ok, and none after it.
THEOREM OneOwnLengthAlways == CSpec => []OneOwnLength
  <1>1. ConnInd => OneOwnLength
    <2> SUFFICES ASSUME ConnInd, NEW i \in DOMAIN replies, NEW j \in DOMAIN replies, i < j, Status(i) = "Ok",
                        sent[replies[i][2]].length # <<>>, sent[replies[j][2]].length # <<>>
                 PROVE  Status(j) # "Ok"
      BY DEF OneOwnLength
    <2>1. DOMAIN replies = 1 .. Len(replies)
      BY DEF ConnInd, CTypeOK
    <2> QED
      BY <2>1 DEF ConnInd, OneLength, AnsweredWithLength
  <1> QED
    BY <1>1, ConnIndAlways, PTL

-----------------------------------------------------------------------------
(* HttpRequestParser, for every input and every limit.  The bytes read so far *)
(* have, in each state, the shape of the beginning of a request, from which   *)
(* follow the bytes that may come next.                                       *)

Text == Seq(0 .. 255)

\* t begins with s.
Ext(s, t) == Len(s) <= Len(t) /\ \A i \in 1 .. Len(s) : t[i] = s[i]

MethodPart(s, a) == a \in 2 .. MaxMethod + 1 /\ a <= Len(s) /\ s[a] = SP /\ \A i \in 1 .. a - 1 : IsToken(s[i])

UriPart(s, a, b) ==
    /\ b \in a + 2 .. a + MaxUri + 1 /\ b <= Len(s) /\ s[b] = SP
    /\ \A i \in a + 1 .. b - 1 : ~IsCtl(s[i]) /\ s[i] # SP

VersionPart(s, b, j) == b + j <= Len(s) /\ \A i \in 1 .. j : s[b + i] = HttpOne[i]

\* The minor versions that boundedAddDigit takes: with zeros before it, any digit.
TakenMinor(s, i, j) ==
    /\ \A m \in i .. j - 1 : s[m] = 48
    /\ s[j] \in IF i = j THEN {48, 49} ELSE Digit

LineEnd(s, b, e) == e \in b + 9 .. Len(s) - 1 /\ s[e] = CR /\ s[e + 1] = LF /\ TakenMinor(s, b + 8, e - 1)

\* The line of the request is over, and the headers begin at f.
FirstLine(s, f) ==
    f \in Nat /\ \E a, b \in Nat : MethodPart(s, a) /\ UriPart(s, a, b) /\ VersionPart(s, b, 7) /\ LineEnd(s, b, f - 2)

\* All lines from f are headers, but for the one at g.
Lines(s, f, g) ==
    /\ g \in Starts(s, f) /\ g <= Len(s) + 1
    /\ \A i \in Starts(s, f) \ {g} : \E j \in Breaks(s, f) : j > i /\ IsHeader(s, i, j)

\* What the parser takes for a request: one, or one with such a version.
TakenRequest(s) == \E f : FirstLine(s, f) /\ IsHeaders(s, f)

\* The version of the first line is up to s_maxVersion.
Strict(s) == \E f : FirstLine(s, f) /\ s[f - 3] \in {48, 49}

Counted(s, f, tot) == tot = Cardinality(Characters(s, f)) /\ tot <= MaxHeaders

LEMMA ParserBytes ==
    /\ \A c \in 0 .. 255 : IsToken(c) => c \notin {SP, CR, LF, Colon} /\ ~IsCtl(c)
    /\ \A c \in 0 .. 255 : ~IsCtl(c) => c \notin {CR, LF}
    /\ ~IsCtl(SP) /\ ~IsCtl(Colon) /\ ~IsCtl(47) /\ IsToken(80)
    /\ SP \in 0 .. 255 /\ CR \in 0 .. 255 /\ LF \in 0 .. 255 /\ Colon \in 0 .. 255 /\ Digit \subseteq 0 .. 255
    /\ \A c \in Digit : c \notin {CR, LF, SP}
    /\ SP # CR /\ SP # LF /\ SP # Colon /\ CR # LF /\ Colon # CR /\ Colon # LF
BY DEF IsToken, IsCtl, IsTSpecial, SP, CR, LF, Colon, Digit

LEMMA ParserLimits == MaxMethod \in Nat \ {0} /\ MaxUri \in Nat \ {0} /\ MaxHeaders \in Nat \ {0} /\ Bytes \subseteq 0 .. 255
BY ParserAssumption

LEMMA TextFacts ==
    ASSUME NEW s \in Text
    PROVE  Len(s) \in Nat /\ \A i \in 1 .. Len(s) : s[i] \in 0 .. 255 /\ s[i] \in Int
<1>1. s \in Seq(0 .. 255)
  BY DEF Text
<1>2. Len(s) \in Nat /\ \A i \in 1 .. Len(s) : s[i] \in 0 .. 255
  BY <1>1, ElementOfSeq, LenProperties
<1>3. \A c \in 0 .. 255 : c \in Int
  OBVIOUS
<1> QED
  BY <1>2, <1>3

\* One byte more.
LEMMA OneMoreByte ==
    ASSUME NEW s \in Text, NEW c \in 0 .. 255
    PROVE  /\ Append(s, c) \in Text /\ Len(Append(s, c)) = Len(s) + 1 /\ Append(s, c)[Len(s) + 1] = c
           /\ Ext(s, Append(s, c))
BY DEF Text, Ext

LEMMA ExtTrans ==
    ASSUME NEW s \in Text, NEW t \in Text, NEW u \in Text, Ext(s, t), Ext(t, u)
    PROVE  Ext(s, u)
<1>1. Len(s) \in Nat /\ Len(t) \in Nat /\ Len(u) \in Nat
  BY TextFacts
<1> QED
  BY <1>1 DEF Ext

\* What is over stays.
LEMMA ExtMethod ==
    ASSUME NEW s \in Text, NEW t \in Text, Ext(s, t), NEW a, MethodPart(s, a)
    PROVE  MethodPart(t, a)
<1>1. Len(s) \in Nat /\ Len(t) \in Nat /\ MaxMethod \in Nat
  BY TextFacts, ParserLimits
<1>2. a \in 1 .. Len(s) /\ a <= Len(t) /\ \A i \in 1 .. a - 1 : i \in 1 .. Len(s)
  BY <1>1 DEF MethodPart, Ext
<1> QED
  BY <1>2 DEF MethodPart, Ext

LEMMA ExtUri ==
    ASSUME NEW s \in Text, NEW t \in Text, Ext(s, t), NEW a \in Nat, NEW b, UriPart(s, a, b)
    PROVE  UriPart(t, a, b)
<1>1. Len(s) \in Nat /\ Len(t) \in Nat /\ MaxUri \in Nat
  BY TextFacts, ParserLimits
<1>2. b \in 1 .. Len(s) /\ b <= Len(t) /\ \A i \in a + 1 .. b - 1 : i \in 1 .. Len(s)
  BY <1>1 DEF UriPart, Ext
<1> QED
  BY <1>2 DEF UriPart, Ext

LEMMA ExtVersion ==
    ASSUME NEW s \in Text, NEW t \in Text, Ext(s, t), NEW b \in Nat, NEW j \in Nat, VersionPart(s, b, j)
    PROVE  VersionPart(t, b, j)
<1>1. Len(s) \in Nat /\ Len(t) \in Nat
  BY TextFacts
<1>2. b + j <= Len(t) /\ \A i \in 1 .. j : b + i \in 1 .. Len(s)
  BY <1>1 DEF VersionPart, Ext
<1> QED
  BY <1>2 DEF VersionPart, Ext

LEMMA ExtMinor ==
    ASSUME NEW s \in Text, NEW t \in Text, Ext(s, t), NEW i \in Nat, NEW j \in Nat, i >= 1, i <= j, j <= Len(s)
    PROVE  TakenMinor(t, i, j) <=> TakenMinor(s, i, j)
<1>1. Len(s) \in Nat
  BY TextFacts
<1>2. j \in 1 .. Len(s) /\ \A m \in i .. j - 1 : m \in 1 .. Len(s)
  BY <1>1
<1> QED
  BY <1>2 DEF TakenMinor, Ext

LEMMA ExtFirstLine ==
    ASSUME NEW s \in Text, NEW t \in Text, Ext(s, t), NEW f, FirstLine(s, f)
    PROVE  FirstLine(t, f) /\ f \in 3 .. Len(s) + 1
<1>1. Len(s) \in Nat /\ Len(t) \in Nat /\ Len(s) <= Len(t)
  BY TextFacts DEF Ext
<1>2. PICK a, b \in Nat : MethodPart(s, a) /\ UriPart(s, a, b) /\ VersionPart(s, b, 7) /\ LineEnd(s, b, f - 2)
  BY DEF FirstLine
<1>3. f \in Nat /\ f - 2 \in b + 9 .. Len(s) - 1 /\ s[f - 2] = CR /\ s[(f - 2) + 1] = LF /\ TakenMinor(s, b + 8, (f - 2) - 1)
  BY <1>2 DEF FirstLine, LineEnd
<1>4. /\ f \in 3 .. Len(s) + 1 /\ f - 2 \in b + 9 .. Len(t) - 1 /\ f - 2 \in 1 .. Len(s) /\ (f - 2) + 1 \in 1 .. Len(s)
      /\ b + 8 \in Nat /\ (f - 2) - 1 \in Nat /\ b + 8 >= 1 /\ b + 8 <= (f - 2) - 1 /\ (f - 2) - 1 <= Len(s)
  BY <1>1, <1>3
<1>5. TakenMinor(t, b + 8, (f - 2) - 1)
  BY <1>3, <1>4, ExtMinor
<1>6. LineEnd(t, b, f - 2)
  BY <1>3, <1>4, <1>5 DEF LineEnd, Ext
<1>7. MethodPart(t, a) /\ UriPart(t, a, b) /\ VersionPart(t, b, 7)
  BY <1>2, ExtMethod, ExtUri, ExtVersion
<1> QED
  BY <1>3, <1>4, <1>6, <1>7 DEF FirstLine

\* There is one way to take a request apart.
LEMMA OneMethod ==
    ASSUME NEW t \in Text, NEW a \in Nat, NEW x \in Nat, MethodPart(t, a), MethodPart(t, x)
    PROVE  a = x
<1>1. Len(t) \in Nat /\ \A i \in 1 .. Len(t) : t[i] = SP => ~IsToken(t[i])
  BY TextFacts, ParserBytes
<1>2. a \in 1 .. Len(t) /\ x \in 1 .. Len(t) /\ ~IsToken(t[a]) /\ ~IsToken(t[x])
  BY <1>1 DEF MethodPart
<1>3. ~(a \in 1 .. x - 1) /\ ~(x \in 1 .. a - 1)
  BY <1>2 DEF MethodPart
<1> QED
  BY <1>2, <1>3

LEMMA OneUri ==
    ASSUME NEW t \in Text, NEW a \in Nat, NEW b \in Nat, NEW x \in Nat, UriPart(t, a, b), UriPart(t, a, x)
    PROVE  b = x
<1>1. MaxUri \in Nat
  BY ParserLimits
<1>2. b > a /\ x > a /\ t[b] = SP /\ t[x] = SP
  BY <1>1 DEF UriPart
<1>3. ~(b \in a + 1 .. x - 1) /\ ~(x \in a + 1 .. b - 1)
  BY <1>2 DEF UriPart
<1> QED
  BY <1>2, <1>3

LEMMA MinorDigits ==
    ASSUME NEW s, NEW i \in Nat, NEW j \in Nat, i <= j, TakenMinor(s, i, j)
    PROVE  \A m \in i .. j : s[m] \in Digit /\ s[m] # CR
<1>1. \A m \in i .. j : m \in i .. j - 1 \/ m = j
  OBVIOUS
<1>2. 48 \in Digit /\ 49 \in Digit /\ \A c \in Digit : c # CR
  BY DEF Digit, CR
<1> QED
  BY <1>1, <1>2 DEF TakenMinor

LEMMA OneLineEnd ==
    ASSUME NEW t \in Text, NEW b \in Nat, NEW e \in Nat, NEW x \in Nat, LineEnd(t, b, e), LineEnd(t, b, x)
    PROVE  e = x
<1>1. Len(t) \in Nat
  BY TextFacts
<1>2. e >= b + 9 /\ x >= b + 9 /\ t[e] = CR /\ t[x] = CR /\ e - 1 \in Nat /\ x - 1 \in Nat /\ b + 8 <= e - 1 /\ b + 8 <= x - 1
  BY <1>1 DEF LineEnd
<1>3. (\A m \in b + 8 .. e - 1 : t[m] # CR) /\ (\A m \in b + 8 .. x - 1 : t[m] # CR)
  BY <1>2, MinorDigits DEF LineEnd
<1>4. ~(e \in b + 8 .. x - 1) /\ ~(x \in b + 8 .. e - 1)
  BY <1>2, <1>3
<1> QED
  BY <1>2, <1>4

LEMMA OneFirstLine ==
    ASSUME NEW t \in Text, NEW f, NEW x, FirstLine(t, f), FirstLine(t, x)
    PROVE  f = x
<1>1. PICK a, b \in Nat : MethodPart(t, a) /\ UriPart(t, a, b) /\ LineEnd(t, b, f - 2)
  BY DEF FirstLine
<1>2. PICK c, d \in Nat : MethodPart(t, c) /\ UriPart(t, c, d) /\ LineEnd(t, d, x - 2)
  BY DEF FirstLine
<1>3. c = a
  BY <1>1, <1>2, OneMethod
<1>4. d = b
  BY <1>1, <1>2, <1>3, OneUri
<1>5. f \in Nat /\ x \in Nat /\ f - 2 \in Nat /\ x - 2 \in Nat
  <2>1. Len(t) \in Nat
    BY TextFacts
  <2> QED
    BY <2>1, <1>1, <1>2 DEF FirstLine, LineEnd
<1>6. f - 2 = x - 2
  BY <1>1, <1>2, <1>4, <1>5, OneLineEnd
<1> QED
  BY <1>5, <1>6

LEMMA FirstLineDigit ==
    ASSUME NEW s \in Text, NEW f, FirstLine(s, f)
    PROVE  f \in Nat /\ f - 3 \in 1 .. Len(s) /\ s[f - 3] \in Digit
<1>1. Len(s) \in Nat
  BY TextFacts
<1>2. PICK a, b \in Nat : LineEnd(s, b, f - 2)
  BY DEF FirstLine
<1>3. f \in Nat /\ f - 2 \in b + 9 .. Len(s) - 1 /\ TakenMinor(s, b + 8, (f - 2) - 1)
  BY <1>2 DEF FirstLine, LineEnd
<1>4. (f - 2) - 1 = f - 3 /\ f - 3 \in 1 .. Len(s) /\ f - 3 \in Nat /\ b + 8 \in Nat /\ b + 8 <= f - 3 /\ f - 3 \in b + 8 .. f - 3
  BY <1>1, <1>3
<1>5. TakenMinor(s, b + 8, f - 3)
  BY <1>3, <1>4
<1> QED
  BY <1>3, <1>4, <1>5, MinorDigits

LEMMA StrictExt ==
    ASSUME NEW s \in Text, NEW t \in Text, Ext(s, t), Strict(s)
    PROVE  Strict(t)
<1>1. PICK f : FirstLine(s, f) /\ s[f - 3] \in {48, 49}
  BY DEF Strict
<1>2. FirstLine(t, f) /\ f - 3 \in 1 .. Len(s)
  BY <1>1, ExtFirstLine, FirstLineDigit
<1>3. t[f - 3] = s[f - 3]
  BY <1>2 DEF Ext
<1> QED
  BY <1>1, <1>2, <1>3 DEF Strict

LEMMA StrictMinor ==
    ASSUME NEW s, NEW i \in Nat, NEW j \in Nat, i <= j
    PROVE  IsMinor(s, i, j) <=> TakenMinor(s, i, j) /\ s[j] \in {48, 49}
BY DEF IsMinor, TakenMinor, Digit

LEMMA RequestParts ==
    ASSUME NEW t \in Text
    PROVE  IsRequest(t) <=> \E f : FirstLine(t, f) /\ t[f - 3] \in {48, 49} /\ IsHeaders(t, f)
<1>1. Len(t) \in Nat /\ MaxMethod \in Nat /\ MaxUri \in Nat
  BY TextFacts, ParserLimits
<1>2. ASSUME IsRequest(t) PROVE \E f : FirstLine(t, f) /\ t[f - 3] \in {48, 49} /\ IsHeaders(t, f)
  <2>1. PICK a \in 2 .. MaxMethod + 1 :
          /\ a <= Len(t) /\ t[a] = SP /\ \A i \in 1 .. a - 1 : IsToken(t[i])
          /\ \E b \in a + 2 .. a + MaxUri + 1 :
            /\ b + 8 <= Len(t) /\ t[b] = SP
            /\ \A i \in a + 1 .. b - 1 : ~IsCtl(t[i]) /\ t[i] # SP
            /\ \A i \in 1 .. 7 : t[b + i] = HttpOne[i]
            /\ \E e \in b + 9 .. Len(t) - 1 :
                /\ t[e] = CR /\ t[e + 1] = LF
                /\ IsMinor(t, b + 8, e - 1)
                /\ IsHeaders(t, e + 2)
    BY <1>2 DEF IsRequest
  <2>2. PICK b \in a + 2 .. a + MaxUri + 1 :
            /\ b + 8 <= Len(t) /\ t[b] = SP
            /\ \A i \in a + 1 .. b - 1 : ~IsCtl(t[i]) /\ t[i] # SP
            /\ \A i \in 1 .. 7 : t[b + i] = HttpOne[i]
            /\ \E e \in b + 9 .. Len(t) - 1 :
                /\ t[e] = CR /\ t[e + 1] = LF
                /\ IsMinor(t, b + 8, e - 1)
                /\ IsHeaders(t, e + 2)
    BY <2>1
  <2>3. PICK e \in b + 9 .. Len(t) - 1 :
                /\ t[e] = CR /\ t[e + 1] = LF
                /\ IsMinor(t, b + 8, e - 1)
                /\ IsHeaders(t, e + 2)
    BY <2>2
  <2>4. a \in Nat /\ b \in Nat /\ e \in Nat /\ (e + 2) - 2 = e /\ e + 2 \in Nat /\ b <= Len(t) /\ b + 7 <= Len(t)
    <3>1. a \in Nat /\ b \in a + 2 .. a + MaxUri + 1 /\ b + 8 <= Len(t) /\ e \in b + 9 .. Len(t) - 1
      BY <1>1, <2>2
    <3> HIDE <2>1, <2>2
    <3>2. b \in Nat
      BY <1>1, <3>1
    <3> QED
      BY <1>1, <3>1, <3>2
  <2>5. MethodPart(t, a)
    BY <2>1 DEF MethodPart
  <2>6. UriPart(t, a, b) /\ VersionPart(t, b, 7)
    BY <2>2, <2>4 DEF UriPart, VersionPart
  <2>9. e - 1 \in Nat /\ b + 8 \in Nat /\ b + 8 <= e - 1 /\ (e + 2) - 3 = e - 1
    BY <1>1, <2>4, <2>3
  <2>10. TakenMinor(t, b + 8, e - 1) /\ t[e - 1] \in {48, 49}
    BY <2>3, <2>9, StrictMinor
  <2>7. LineEnd(t, b, (e + 2) - 2)
    BY <2>3, <2>4, <2>10 DEF LineEnd
  <2>8. FirstLine(t, e + 2)
    BY <2>4, <2>5, <2>6, <2>7 DEF FirstLine
  <2> QED
    BY <2>3, <2>8, <2>9, <2>10
<1>3. ASSUME NEW f, FirstLine(t, f), t[f - 3] \in {48, 49}, IsHeaders(t, f) PROVE IsRequest(t)
  <2>1. PICK a, b \in Nat : MethodPart(t, a) /\ UriPart(t, a, b) /\ VersionPart(t, b, 7) /\ LineEnd(t, b, f - 2)
    BY <1>3 DEF FirstLine
  <2> DEFINE e == f - 2
  <2>2. f \in Nat /\ e \in b + 9 .. Len(t) - 1 /\ e + 2 = f /\ b + 8 <= Len(t)
    BY <2>1, <1>1, <1>3 DEF FirstLine, LineEnd
  <2>6. t[e] = CR /\ t[e + 1] = LF /\ TakenMinor(t, b + 8, e - 1) /\ IsHeaders(t, e + 2)
    BY <2>1, <2>2, <1>3 DEF LineEnd
  <2>7. e - 1 \in Nat /\ b + 8 \in Nat /\ b + 8 <= e - 1 /\ f - 3 = e - 1
    BY <1>1, <2>2
  <2>3. t[e] = CR /\ t[e + 1] = LF /\ IsMinor(t, b + 8, e - 1) /\ IsHeaders(t, e + 2)
    BY <1>3, <2>6, <2>7, StrictMinor
  <2> HIDE DEF e
  <2>4. a \in 2 .. MaxMethod + 1 /\ a <= Len(t) /\ t[a] = SP /\ \A i \in 1 .. a - 1 : IsToken(t[i])
    BY <2>1 DEF MethodPart
  <2>5. /\ b \in a + 2 .. a + MaxUri + 1 /\ t[b] = SP
        /\ \A i \in a + 1 .. b - 1 : ~IsCtl(t[i]) /\ t[i] # SP
        /\ \A i \in 1 .. 7 : t[b + i] = HttpOne[i]
    BY <2>1 DEF UriPart, VersionPart
  <2> QED
    BY <2>2, <2>3, <2>4, <2>5 DEF IsRequest
<1> QED
  BY <1>2, <1>3

\* A request is taken for one, and what is taken with a version up to
\* s_maxVersion is a request.
LEMMA RequestIsTaken ==
    ASSUME NEW t \in Text
    PROVE  (IsRequest(t) => TakenRequest(t)) /\ (TakenRequest(t) /\ Strict(t) => IsRequest(t))
<1>1. IsRequest(t) => TakenRequest(t)
  BY RequestParts DEF TakenRequest
<1>2. ASSUME TakenRequest(t), Strict(t) PROVE IsRequest(t)
  <2>1. PICK f : FirstLine(t, f) /\ IsHeaders(t, f)
    BY <1>2 DEF TakenRequest
  <2>2. PICK x : FirstLine(t, x) /\ t[x - 3] \in {48, 49}
    BY <1>2 DEF Strict
  <2>3. x = f
    BY <2>1, <2>2, OneFirstLine
  <2> QED
    BY <2>1, <2>2, <2>3, RequestParts
<1> QED
  BY <1>1, <1>2

\* What the bytes read are in the states of the first line.
InMethod(s, n) == n = Len(s) /\ n \in 1 .. MaxMethod /\ \A i \in 1 .. n : IsToken(s[i])

InUri(s, n) ==
    \E a \in Nat : /\ MethodPart(s, a) /\ n = Len(s) - a /\ n \in 0 .. MaxUri
                   /\ \A i \in a + 1 .. Len(s) : ~IsCtl(s[i]) /\ s[i] # SP

InVersion(s, j) ==
    \E a, b \in Nat : MethodPart(s, a) /\ UriPart(s, a, b) /\ VersionPart(s, b, j) /\ Len(s) = b + j

InMinor(s, m) ==
    \E a, b \in Nat : /\ MethodPart(s, a) /\ UriPart(s, a, b) /\ VersionPart(s, b, 7) /\ Len(s) >= b + 8
                      /\ TakenMinor(s, b + 8, Len(s)) /\ m = s[Len(s)] - 48

InNewline1(s) ==
    \E a, b \in Nat : /\ MethodPart(s, a) /\ UriPart(s, a, b) /\ VersionPart(s, b, 7) /\ Len(s) >= b + 9
                      /\ s[Len(s)] = CR /\ TakenMinor(s, b + 8, Len(s) - 1)

\* The bytes that are accepted there.
LEMMA MethodBegins ==
    ASSUME NEW c \in 0 .. 255, IsToken(c)
    PROVE  InMethod(Append(<<>>, c), 1)
<1>1. <<>> \in Text /\ Len(<<>>) = 0
  <2>1. <<>> \in Seq(0 .. 255)
    OBVIOUS
  <2> QED
    BY <2>1 DEF Text
<1>2. Len(Append(<<>>, c)) = 1 /\ Append(<<>>, c)[1] = c
  BY <1>1, OneMoreByte
<1>3. MaxMethod \in Nat \ {0}
  BY ParserLimits
<1>4. 1 \in 1 .. MaxMethod /\ \A i \in 1 .. 1 : i = 1
  BY <1>3
<1> QED
  BY <1>2, <1>4 DEF InMethod

LEMMA MethodGoesOn ==
    ASSUME NEW s \in Text, NEW c \in 0 .. 255, NEW n, InMethod(s, n), IsToken(c), n # MaxMethod
    PROVE  InMethod(Append(s, c), n + 1)
<1>1. Len(s) \in Nat /\ MaxMethod \in Nat
  BY TextFacts, ParserLimits
<1>2. PICK u : u = Append(s, c)
  OBVIOUS
<1>3. u \in Text /\ Len(u) = Len(s) + 1 /\ u[Len(s) + 1] = c /\ \A i \in 1 .. Len(s) : u[i] = s[i]
  BY <1>2, OneMoreByte DEF Ext
<1>4. n = Len(s) /\ n + 1 \in 1 .. MaxMethod /\ \A i \in 1 .. n : IsToken(s[i])
  BY <1>1 DEF InMethod
<1>5. \A i \in 1 .. n + 1 : i \in 1 .. n \/ i = n + 1
  BY <1>1, <1>4
<1>6. \A i \in 1 .. n + 1 : IsToken(u[i])
  BY <1>3, <1>4, <1>5
<1>7. InMethod(u, n + 1)
  BY <1>3, <1>4, <1>6 DEF InMethod
<1> QED
  BY <1>2, <1>7

LEMMA MethodEnds ==
    ASSUME NEW s \in Text, NEW n, InMethod(s, n)
    PROVE  InUri(Append(s, SP), 0)
<1>1. Len(s) \in Nat /\ MaxMethod \in Nat /\ MaxUri \in Nat
  BY TextFacts, ParserLimits
<1>2. PICK u : u = Append(s, SP)
  OBVIOUS
<1>3. u \in Text /\ Len(u) = Len(s) + 1 /\ u[Len(s) + 1] = SP /\ \A i \in 1 .. Len(s) : u[i] = s[i]
  <2>1. SP \in 0 .. 255
    BY ParserBytes
  <2> QED
    BY <2>1, <1>2, OneMoreByte DEF Ext
<1>4. Len(u) \in 2 .. MaxMethod + 1 /\ Len(s) = Len(u) - 1 /\ \A i \in 1 .. Len(s) : IsToken(s[i])
  BY <1>1, <1>3 DEF InMethod
<1>5. MethodPart(u, Len(u))
  BY <1>1, <1>3, <1>4 DEF MethodPart
<1>6. 0 = Len(u) - Len(u) /\ 0 \in 0 .. MaxUri /\ Len(u) \in Nat /\ \A i \in Len(u) + 1 .. Len(u) : FALSE
  BY <1>1, <1>4
<1>7. InUri(u, 0)
  BY <1>5, <1>6 DEF InUri
<1> QED
  BY <1>2, <1>7

LEMMA UriGoesOn ==
    ASSUME NEW s \in Text, NEW c \in 0 .. 255, NEW n, InUri(s, n), ~IsCtl(c), c # SP, n # MaxUri
    PROVE  InUri(Append(s, c), n + 1)
<1>1. Len(s) \in Nat /\ MaxUri \in Nat
  BY TextFacts, ParserLimits
<1>2. PICK u : u = Append(s, c)
  OBVIOUS
<1>3. u \in Text /\ Len(u) = Len(s) + 1 /\ u[Len(s) + 1] = c /\ Ext(s, u) /\ \A i \in 1 .. Len(s) : u[i] = s[i]
  BY <1>2, OneMoreByte DEF Ext
<1>4. PICK a \in Nat : /\ MethodPart(s, a) /\ n = Len(s) - a /\ n \in 0 .. MaxUri
                       /\ \A i \in a + 1 .. Len(s) : ~IsCtl(s[i]) /\ s[i] # SP
  BY DEF InUri
<1>5. MethodPart(u, a)
  BY <1>3, <1>4, ExtMethod
<1>6. n + 1 = Len(u) - a /\ n + 1 \in 0 .. MaxUri
  BY <1>1, <1>3, <1>4
<1>7. \A i \in a + 1 .. Len(u) : (i \in a + 1 .. Len(s) /\ i \in 1 .. Len(s)) \/ i = Len(s) + 1
  BY <1>1, <1>3
<1>8. \A i \in a + 1 .. Len(u) : ~IsCtl(u[i]) /\ u[i] # SP
  BY <1>3, <1>4, <1>7
<1>9. InUri(u, n + 1)
  BY <1>5, <1>6, <1>8 DEF InUri
<1> QED
  BY <1>2, <1>9

LEMMA UriEnds ==
    ASSUME NEW s \in Text, NEW n, InUri(s, n), n # 0
    PROVE  InVersion(Append(s, SP), 0)
<1>1. Len(s) \in Nat /\ MaxUri \in Nat
  BY TextFacts, ParserLimits
<1>2. PICK u : u = Append(s, SP)
  OBVIOUS
<1>3. u \in Text /\ Len(u) = Len(s) + 1 /\ u[Len(s) + 1] = SP /\ Ext(s, u) /\ \A i \in 1 .. Len(s) : u[i] = s[i]
  <2>1. SP \in 0 .. 255
    BY ParserBytes
  <2> QED
    BY <2>1, <1>2, OneMoreByte DEF Ext
<1>4. PICK a \in Nat : /\ MethodPart(s, a) /\ n = Len(s) - a /\ n \in 0 .. MaxUri
                       /\ \A i \in a + 1 .. Len(s) : ~IsCtl(s[i]) /\ s[i] # SP
  BY DEF InUri
<1>5. MethodPart(u, a)
  BY <1>3, <1>4, ExtMethod
<1>6. Len(u) \in a + 2 .. a + MaxUri + 1 /\ Len(s) = Len(u) - 1 /\ Len(u) \in Nat
  BY <1>1, <1>3, <1>4
<1>7. \A i \in a + 1 .. Len(u) - 1 : i \in 1 .. Len(s)
  BY <1>1, <1>6
<1>8. UriPart(u, a, Len(u))
  BY <1>3, <1>4, <1>6, <1>7 DEF UriPart
<1>9. VersionPart(u, Len(u), 0) /\ Len(u) = Len(u) + 0
  BY <1>6 DEF VersionPart
<1>10. InVersion(u, 0)
  BY <1>5, <1>6, <1>8, <1>9 DEF InVersion
<1> QED
  BY <1>2, <1>10

LEMMA VersionGoesOn ==
    ASSUME NEW s \in Text, NEW c \in 0 .. 255, NEW j \in 0 .. 6, InVersion(s, j), c = HttpOne[j + 1]
    PROVE  InVersion(Append(s, c), j + 1)
<1>1. Len(s) \in Nat /\ j \in Nat
  BY TextFacts
<1>2. PICK u : u = Append(s, c)
  OBVIOUS
<1>3. u \in Text /\ Len(u) = Len(s) + 1 /\ u[Len(s) + 1] = c /\ Ext(s, u)
  BY <1>2, OneMoreByte
<1>4. PICK a, b \in Nat : MethodPart(s, a) /\ UriPart(s, a, b) /\ VersionPart(s, b, j) /\ Len(s) = b + j
  BY DEF InVersion
<1>5. MethodPart(u, a) /\ UriPart(u, a, b) /\ VersionPart(u, b, j)
  BY <1>1, <1>3, <1>4, ExtMethod, ExtUri, ExtVersion
<1>6. Len(u) = b + (j + 1) /\ b + (j + 1) <= Len(u) /\ b + (j + 1) = Len(s) + 1
  BY <1>1, <1>3, <1>4
<1>7. \A i \in 1 .. j + 1 : i \in 1 .. j \/ i = j + 1
  BY <1>1
<1>8. VersionPart(u, b, j + 1)
  BY <1>3, <1>5, <1>6, <1>7 DEF VersionPart
<1>9. InVersion(u, j + 1)
  BY <1>5, <1>6, <1>8 DEF InVersion
<1> QED
  BY <1>2, <1>9

LEMMA MinorBegins ==
    ASSUME NEW s \in Text, NEW c \in {48, 49}, InVersion(s, 7)
    PROVE  InMinor(Append(s, c), c - 48)
<1>1. Len(s) \in Nat /\ c \in 0 .. 255
  BY TextFacts
<1>2. PICK u : u = Append(s, c)
  OBVIOUS
<1>3. u \in Text /\ Len(u) = Len(s) + 1 /\ u[Len(s) + 1] = c /\ Ext(s, u)
  BY <1>1, <1>2, OneMoreByte
<1>4. PICK a, b \in Nat : MethodPart(s, a) /\ UriPart(s, a, b) /\ VersionPart(s, b, 7) /\ Len(s) = b + 7
  BY DEF InVersion
<1>5. MethodPart(u, a) /\ UriPart(u, a, b) /\ VersionPart(u, b, 7)
  BY <1>3, <1>4, ExtMethod, ExtUri, ExtVersion
<1>6. Len(u) = b + 8 /\ Len(u) >= b + 8 /\ u[Len(u)] = c /\ \A m \in b + 8 .. Len(u) - 1 : FALSE
  BY <1>1, <1>3, <1>4
<1>7. TakenMinor(u, b + 8, Len(u))
  BY <1>6 DEF TakenMinor
<1>8. InMinor(u, c - 48)
  BY <1>5, <1>6, <1>7 DEF InMinor
<1> QED
  BY <1>2, <1>8

LEMMA MinorGoesOn ==
    ASSUME NEW s \in Text, NEW c \in Digit, InMinor(s, 0)
    PROVE  InMinor(Append(s, c), c - 48)
<1>1. Len(s) \in Nat /\ c \in 0 .. 255
  BY TextFacts DEF Digit
<1>2. PICK u : u = Append(s, c)
  OBVIOUS
<1>3. u \in Text /\ Len(u) = Len(s) + 1 /\ u[Len(s) + 1] = c /\ Ext(s, u) /\ \A i \in 1 .. Len(s) : u[i] = s[i]
  BY <1>1, <1>2, OneMoreByte DEF Ext
<1>4. PICK a, b \in Nat : /\ MethodPart(s, a) /\ UriPart(s, a, b) /\ VersionPart(s, b, 7) /\ Len(s) >= b + 8
                          /\ TakenMinor(s, b + 8, Len(s)) /\ 0 = s[Len(s)] - 48
  BY DEF InMinor
<1>5. MethodPart(u, a) /\ UriPart(u, a, b) /\ VersionPart(u, b, 7)
  BY <1>3, <1>4, ExtMethod, ExtUri, ExtVersion
<1>6. Len(u) >= b + 8 /\ b + 8 # Len(u) /\ u[Len(u)] = c
  BY <1>1, <1>3, <1>4
<1>7. s[Len(s)] = 48
  <2>1. s[Len(s)] \in Int
    BY <1>1, <1>4, TextFacts
  <2> QED
    BY <2>1, <1>4
<1>8. \A m \in b + 8 .. Len(u) - 1 : m \in 1 .. Len(s) /\ (m \in b + 8 .. Len(s) - 1 \/ m = Len(s))
  BY <1>1, <1>3
<1>9. \A m \in b + 8 .. Len(u) - 1 : u[m] = 48
  BY <1>3, <1>4, <1>7, <1>8 DEF TakenMinor
<1>10. TakenMinor(u, b + 8, Len(u))
  BY <1>6, <1>9 DEF TakenMinor
<1>11. InMinor(u, c - 48)
  BY <1>5, <1>6, <1>10 DEF InMinor
<1> QED
  BY <1>2, <1>11

LEMMA MinorEnds ==
    ASSUME NEW s \in Text, NEW m, InMinor(s, m)
    PROVE  InNewline1(Append(s, CR))
<1>1. Len(s) \in Nat /\ CR \in 0 .. 255
  BY TextFacts, ParserBytes
<1>2. PICK u : u = Append(s, CR)
  OBVIOUS
<1>3. u \in Text /\ Len(u) = Len(s) + 1 /\ u[Len(s) + 1] = CR /\ Ext(s, u)
  BY <1>1, <1>2, OneMoreByte
<1>4. PICK a, b \in Nat : /\ MethodPart(s, a) /\ UriPart(s, a, b) /\ VersionPart(s, b, 7) /\ Len(s) >= b + 8
                          /\ TakenMinor(s, b + 8, Len(s))
  BY DEF InMinor
<1>5. MethodPart(u, a) /\ UriPart(u, a, b) /\ VersionPart(u, b, 7)
  BY <1>3, <1>4, ExtMethod, ExtUri, ExtVersion
<1>6. Len(u) >= b + 9 /\ u[Len(u)] = CR /\ Len(u) - 1 = Len(s) /\ b + 8 \in Nat /\ b + 8 >= 1
  BY <1>1, <1>3, <1>4
<1>7. TakenMinor(u, b + 8, Len(s))
  BY <1>1, <1>3, <1>4, <1>6, ExtMinor
<1>8. InNewline1(u)
  BY <1>5, <1>6, <1>7 DEF InNewline1
<1> QED
  BY <1>2, <1>8

\* The bytes that a request has there.
RequestLine(t, a, b, e) == MethodPart(t, a) /\ UriPart(t, a, b) /\ VersionPart(t, b, 7) /\ LineEnd(t, b, e)

LEMMA RequestHasLine ==
    ASSUME NEW t \in Text, TakenRequest(t)
    PROVE  \E a, b, e \in Nat : RequestLine(t, a, b, e)
<1>1. PICK f : FirstLine(t, f)
  BY DEF TakenRequest
<1>2. PICK a, b \in Nat : MethodPart(t, a) /\ UriPart(t, a, b) /\ VersionPart(t, b, 7) /\ LineEnd(t, b, f - 2)
  BY <1>1 DEF FirstLine
<1>3. f - 2 \in Nat
  <2>1. Len(t) \in Nat /\ f \in Nat
    BY <1>1, TextFacts DEF FirstLine
  <2> QED
    BY <2>1, <1>2 DEF LineEnd
<1>4. RequestLine(t, a, b, f - 2)
  BY <1>2 DEF RequestLine
<1> QED
  BY <1>3, <1>4

LEMMA WantsMethodStart ==
    ASSUME NEW t \in Text, TakenRequest(t)
    PROVE  Len(t) > 0 /\ IsToken(t[1])
<1>1. Len(t) \in Nat /\ MaxMethod \in Nat
  BY TextFacts, ParserLimits
<1>2. PICK a, b, e \in Nat : RequestLine(t, a, b, e)
  BY RequestHasLine
<1>3. Len(t) > 0 /\ 1 \in 1 .. a - 1
  BY <1>1, <1>2 DEF RequestLine, MethodPart
<1> QED
  BY <1>2, <1>3 DEF RequestLine, MethodPart

LEMMA WantsMethod ==
    ASSUME NEW s \in Text, NEW t \in Text, Ext(s, t), TakenRequest(t), NEW n, InMethod(s, n)
    PROVE  Len(t) > Len(s) /\ (t[Len(s) + 1] = SP \/ (IsToken(t[Len(s) + 1]) /\ n # MaxMethod))
<1>1. Len(s) \in Nat /\ Len(t) \in Nat /\ MaxMethod \in Nat
  BY TextFacts, ParserLimits
<1>2. PICK a, b, e \in Nat : RequestLine(t, a, b, e)
  BY RequestHasLine
<1>3. a \in 1 .. Len(t) /\ a <= MaxMethod + 1 /\ t[a] = SP /\ \A i \in 1 .. a - 1 : IsToken(t[i])
  BY <1>1, <1>2 DEF RequestLine, MethodPart
<1>4. n = Len(s) /\ \A i \in 1 .. Len(s) : IsToken(t[i])
  BY DEF InMethod, Ext
<1>5. ~IsToken(t[a])
  BY <1>1, <1>3, TextFacts, ParserBytes
<1>6. a > Len(s)
  BY <1>1, <1>3, <1>4, <1>5
<1>7. a = Len(s) + 1 \/ (Len(s) + 1 \in 1 .. a - 1 /\ n # MaxMethod)
  BY <1>1, <1>3, <1>4, <1>6
<1> QED
  BY <1>1, <1>3, <1>6, <1>7

LEMMA WantsUri ==
    ASSUME NEW s \in Text, NEW t \in Text, Ext(s, t), TakenRequest(t), NEW n, InUri(s, n)
    PROVE  /\ Len(t) > Len(s)
           /\ \/ t[Len(s) + 1] = SP /\ n # 0
              \/ t[Len(s) + 1] # SP /\ ~IsCtl(t[Len(s) + 1]) /\ n # MaxUri
<1>1. Len(s) \in Nat /\ Len(t) \in Nat /\ MaxUri \in Nat
  BY TextFacts, ParserLimits
<1>2. PICK x, b, e \in Nat : RequestLine(t, x, b, e)
  BY RequestHasLine
<1>3. PICK a \in Nat : /\ MethodPart(s, a) /\ n = Len(s) - a /\ n \in 0 .. MaxUri
                       /\ \A i \in a + 1 .. Len(s) : ~IsCtl(s[i]) /\ s[i] # SP
  BY DEF InUri
<1>4. x = a
  <2>1. MethodPart(t, a) /\ MethodPart(t, x)
    BY <1>2, <1>3, ExtMethod DEF RequestLine
  <2> QED
    BY <2>1, OneMethod
<1>5. /\ b \in a + 2 .. a + MaxUri + 1 /\ b <= Len(t) /\ t[b] = SP
      /\ \A i \in a + 1 .. b - 1 : ~IsCtl(t[i]) /\ t[i] # SP
  BY <1>2, <1>4 DEF RequestLine, UriPart
<1>6. \A i \in a + 1 .. Len(s) : t[i] # SP
  <2>1. \A i \in a + 1 .. Len(s) : i \in 1 .. Len(s)
    BY <1>1
  <2> QED
    BY <2>1, <1>3 DEF Ext
<1>7. b > Len(s) /\ n \in Int /\ a <= Len(s)
  BY <1>1, <1>3, <1>5, <1>6
<1>8. (b = Len(s) + 1 /\ n # 0) \/ (Len(s) + 1 \in a + 1 .. b - 1 /\ n # MaxUri)
  BY <1>1, <1>3, <1>5, <1>7
<1> QED
  BY <1>1, <1>5, <1>7, <1>8

LEMMA SameVersion ==
    ASSUME NEW s \in Text, NEW t \in Text, Ext(s, t), TakenRequest(t), NEW a \in Nat, NEW b \in Nat,
           MethodPart(s, a), UriPart(s, a, b)
    PROVE  \E e \in Nat : VersionPart(t, b, 7) /\ LineEnd(t, b, e)
<1>1. PICK x, y, e \in Nat : RequestLine(t, x, y, e)
  BY RequestHasLine
<1>2. MethodPart(t, a) /\ UriPart(t, a, b)
  BY ExtMethod, ExtUri
<1>3. x = a
  BY <1>1, <1>2, OneMethod DEF RequestLine
<1>4. y = b
  BY <1>1, <1>2, <1>3, OneUri DEF RequestLine
<1> QED
  BY <1>1, <1>4 DEF RequestLine

LEMMA WantsVersion ==
    ASSUME NEW s \in Text, NEW t \in Text, Ext(s, t), TakenRequest(t), NEW j \in 0 .. 6, InVersion(s, j)
    PROVE  Len(t) > Len(s) /\ t[Len(s) + 1] = HttpOne[j + 1]
<1>1. Len(s) \in Nat /\ Len(t) \in Nat
  BY TextFacts
<1>2. PICK a, b \in Nat : MethodPart(s, a) /\ UriPart(s, a, b) /\ VersionPart(s, b, j) /\ Len(s) = b + j
  BY DEF InVersion
<1>3. VersionPart(t, b, 7)
  BY <1>2, SameVersion
<1>4. b + 7 <= Len(t) /\ t[b + (j + 1)] = HttpOne[j + 1]
  <2>1. j + 1 \in 1 .. 7
    OBVIOUS
  <2> QED
    BY <2>1, <1>3 DEF VersionPart
<1>5. Len(t) > Len(s) /\ b + (j + 1) = Len(s) + 1
  BY <1>1, <1>2, <1>4
<1> QED
  BY <1>4, <1>5

LEMMA WantsMinorStart ==
    ASSUME NEW s \in Text, NEW t \in Text, Ext(s, t), TakenRequest(t), InVersion(s, 7)
    PROVE  Len(t) > Len(s) /\ t[Len(s) + 1] \in {48, 49}
<1>1. Len(s) \in Nat /\ Len(t) \in Nat
  BY TextFacts
<1>2. PICK a, b \in Nat : MethodPart(s, a) /\ UriPart(s, a, b) /\ VersionPart(s, b, 7) /\ Len(s) = b + 7
  BY DEF InVersion
<1>3. PICK e \in Nat : LineEnd(t, b, e)
  BY <1>2, SameVersion
<1>4. e >= b + 9 /\ e <= Len(t) - 1 /\ TakenMinor(t, b + 8, e - 1)
  BY <1>1, <1>3 DEF LineEnd
<1>5. Len(t) > Len(s) /\ b + 8 = Len(s) + 1
  BY <1>1, <1>2, <1>4
<1>6. b + 8 = e - 1 \/ b + 8 \in b + 8 .. (e - 1) - 1
  BY <1>4
<1> QED
  BY <1>4, <1>5, <1>6 DEF TakenMinor

LEMMA WantsMinor ==
    ASSUME NEW s \in Text, NEW t \in Text, Ext(s, t), TakenRequest(t), NEW m, InMinor(s, m)
    PROVE  Len(t) > Len(s) /\ (t[Len(s) + 1] = CR \/ (t[Len(s) + 1] \in Digit /\ m = 0))
<1>1. Len(s) \in Nat /\ Len(t) \in Nat
  BY TextFacts
<1>2. PICK a, b \in Nat : /\ MethodPart(s, a) /\ UriPart(s, a, b) /\ VersionPart(s, b, 7) /\ Len(s) >= b + 8
                          /\ TakenMinor(s, b + 8, Len(s)) /\ m = s[Len(s)] - 48
  BY DEF InMinor
<1>3. PICK e \in Nat : LineEnd(t, b, e)
  BY <1>2, SameVersion
<1>4. e >= b + 9 /\ e <= Len(t) - 1 /\ t[e] = CR /\ TakenMinor(t, b + 8, e - 1) /\ b + 8 \in Nat /\ e - 1 \in Nat /\ b + 8 <= e - 1
  BY <1>1, <1>3 DEF LineEnd
<1>5. \A i \in b + 8 .. Len(s) : t[i] # CR
  <2>1. \A i \in b + 8 .. Len(s) : s[i] # CR
    BY <1>1, <1>2, <1>4, MinorDigits
  <2>2. \A i \in b + 8 .. Len(s) : i \in 1 .. Len(s)
    BY <1>1
  <2> QED
    BY <2>1, <2>2 DEF Ext
<1>6. e > Len(s)
  BY <1>1, <1>4, <1>5
<1>7. \/ e = Len(s) + 1
      \/ Len(s) \in b + 8 .. (e - 1) - 1 /\ Len(s) \in 1 .. Len(s) /\ Len(s) + 1 \in b + 8 .. e - 1
  BY <1>1, <1>2, <1>4, <1>6
<1>8. CASE e = Len(s) + 1
  BY <1>1, <1>4, <1>6, <1>8
<1>9. CASE Len(s) \in b + 8 .. (e - 1) - 1 /\ Len(s) \in 1 .. Len(s) /\ Len(s) + 1 \in b + 8 .. e - 1
  <2>1. t[Len(s)] = 48
    BY <1>4, <1>9 DEF TakenMinor
  <2>2. m = 48 - 48
    BY <2>1, <1>2, <1>9 DEF Ext
  <2>3. t[Len(s) + 1] \in Digit
    BY <1>4, <1>9, MinorDigits
  <2> QED
    BY <2>2, <2>3, <1>1, <1>4, <1>6
<1> QED
  BY <1>7, <1>8, <1>9

LEMMA WantsNewline1 ==
    ASSUME NEW s \in Text, NEW t \in Text, Ext(s, t), TakenRequest(t), InNewline1(s)
    PROVE  Len(t) > Len(s) /\ t[Len(s) + 1] = LF
<1>1. Len(s) \in Nat /\ Len(t) \in Nat
  BY TextFacts
<1>2. PICK a, b \in Nat : /\ MethodPart(s, a) /\ UriPart(s, a, b) /\ VersionPart(s, b, 7) /\ Len(s) >= b + 9
                          /\ s[Len(s)] = CR /\ TakenMinor(s, b + 8, Len(s) - 1)
  BY DEF InNewline1
<1>3. PICK e \in Nat : LineEnd(t, b, e)
  BY <1>2, SameVersion
<1>4. /\ e >= b + 9 /\ e <= Len(t) - 1 /\ t[e] = CR /\ t[e + 1] = LF /\ TakenMinor(t, b + 8, e - 1)
      /\ b + 8 \in Nat /\ e - 1 \in Nat /\ b + 8 <= e - 1
  BY <1>1, <1>3 DEF LineEnd
<1>5. \A i \in b + 8 .. Len(s) - 1 : t[i] # CR
  <2>1. Len(s) - 1 \in Nat /\ b + 8 <= Len(s) - 1
    BY <1>1, <1>2
  <2>2. \A i \in b + 8 .. Len(s) - 1 : s[i] # CR
    BY <2>1, <1>2, <1>4, MinorDigits
  <2>3. \A i \in b + 8 .. Len(s) - 1 : i \in 1 .. Len(s)
    BY <1>1
  <2> QED
    BY <2>2, <2>3 DEF Ext
<1>6. \A i \in b + 8 .. e - 1 : t[i] # CR
  BY <1>4, MinorDigits
<1>7. t[Len(s)] = CR
  <2>1. Len(s) \in 1 .. Len(s)
    BY <1>1, <1>2
  <2> QED
    BY <2>1, <1>2 DEF Ext
<1>8. e = Len(s)
  BY <1>1, <1>2, <1>4, <1>5, <1>6, <1>7
<1> QED
  BY <1>1, <1>4, <1>8

\* Lines and characters of a beginning are those of the whole.
LEMMA StartFacts ==
    ASSUME NEW s \in Text, NEW f \in Nat \ {0}, NEW g, g \in Starts(s, f)
    PROVE  g \in Nat /\ g >= f /\ (g = f \/ (g - 1 \in f .. Len(s) /\ g - 2 \in Breaks(s, f) /\ s[g - 1] = LF))
<1>1. Len(s) \in Nat
  BY TextFacts
<1>2. CASE g = f
  BY <1>2
<1>3. CASE g # f
  <2>1. PICK i \in Breaks(s, f) : g = i + 2
    BY <1>3 DEF Starts
  <2>2. i \in f .. Len(s) - 1 /\ s[i + 1] = LF
    BY DEF Breaks
  <2>3. g \in Nat /\ g >= f /\ g - 1 = i + 1 /\ g - 2 = i /\ g - 1 \in f .. Len(s)
    BY <1>1, <2>1, <2>2
  <2> QED
    BY <2>1, <2>2, <2>3
<1> QED
  BY <1>2, <1>3

LEMMA ExtBreaks ==
    ASSUME NEW s \in Text, NEW t \in Text, Ext(s, t), NEW f \in Nat \ {0}
    PROVE  Breaks(s, f) \subseteq Breaks(t, f) /\ Starts(s, f) \subseteq Starts(t, f)
<1>1. Len(s) \in Nat /\ Len(t) \in Nat /\ Len(s) <= Len(t)
  BY TextFacts DEF Ext
<1>2. \A i \in f .. Len(s) - 1 : i \in f .. Len(t) - 1 /\ i \in 1 .. Len(s) /\ i + 1 \in 1 .. Len(s)
  BY <1>1
<1>3. Breaks(s, f) \subseteq Breaks(t, f)
  BY <1>2 DEF Breaks, Ext
<1> QED
  BY <1>3 DEF Starts

LEMMA ExtHeader ==
    ASSUME NEW s \in Text, NEW t \in Text, Ext(s, t), NEW i \in Nat \ {0}, NEW j \in Nat, j <= Len(s) + 1, IsHeader(s, i, j)
    PROVE  IsHeader(t, i, j)
<1>1. Len(s) \in Nat
  BY TextFacts
<1>2. PICK k \in i + 1 .. j - 2 : /\ s[k] = Colon /\ s[k + 1] = SP
                                  /\ \A m \in i .. k - 1 : IsToken(s[m])
                                  /\ \A m \in k + 2 .. j - 1 : ~IsCtl(s[m])
  BY DEF IsHeader
<1>3. /\ k \in 1 .. Len(s) /\ k + 1 \in 1 .. Len(s)
      /\ \A m \in i .. k - 1 : m \in 1 .. Len(s)
      /\ \A m \in k + 2 .. j - 1 : m \in 1 .. Len(s)
  BY <1>1
<1>4. /\ t[k] = Colon /\ t[k + 1] = SP
      /\ \A m \in i .. k - 1 : IsToken(t[m])
      /\ \A m \in k + 2 .. j - 1 : ~IsCtl(t[m])
  BY <1>2, <1>3 DEF Ext
<1> QED
  BY <1>4 DEF IsHeader

LEMMA ExtSeparates ==
    ASSUME NEW s \in Text, NEW t \in Text, Ext(s, t), NEW f \in Nat \ {0}, NEW i \in f .. Len(s)
    PROVE  Separates(t, f, i) <=> Separates(s, f, i)
<1>1. Len(s) \in Nat
  BY TextFacts
<1>2. i \in 1 .. Len(s) /\ \A m \in f .. i - 1 : m \in 1 .. Len(s) /\ \A l \in m .. i : l \in 1 .. Len(s)
  BY <1>1
<1>3. t[i] = s[i] /\ \A m \in f .. i - 1 : t[m] = s[m] /\ \A l \in m .. i : t[l] = s[l]
  BY <1>2 DEF Ext
<1> QED
  BY <1>3 DEF Separates

LEMMA ExtCharacters ==
    ASSUME NEW s \in Text, NEW t \in Text, Ext(s, t), NEW f \in Nat \ {0}
    PROVE  /\ \A i \in 1 .. Len(s) : i \in Characters(t, f) <=> i \in Characters(s, f)
           /\ Characters(s, f) \subseteq Characters(t, f) /\ Characters(t, f) \subseteq 1 .. Len(t)
           /\ IsFiniteSet(Characters(t, f))
<1>1. Len(s) \in Nat /\ Len(t) \in Nat /\ Len(s) <= Len(t)
  BY TextFacts DEF Ext
<1>2. ASSUME NEW i \in 1 .. Len(s) PROVE i \in Characters(t, f) <=> i \in Characters(s, f)
  <2>1. CASE ~(i \in f .. Len(s))
    <3>1. ~(i \in f .. Len(t))
      BY <1>1, <2>1
    <3> QED
      BY <2>1, <3>1 DEF Characters
  <2>2. CASE i \in f .. Len(s)
    <3>1. i \in f .. Len(t) /\ (i > f => i - 1 \in f .. Len(s)) /\ t[i] = s[i]
      BY <1>1, <2>2 DEF Ext
    <3>2. Separates(t, f, i) <=> Separates(s, f, i)
      BY <2>2, ExtSeparates
    <3>3. i > f => (Separates(t, f, i - 1) <=> Separates(s, f, i - 1))
      BY <3>1, ExtSeparates
    <3> QED
      BY <2>2, <3>1, <3>2, <3>3 DEF Characters
  <2> QED
    BY <2>1, <2>2
<1>3. Characters(s, f) \subseteq 1 .. Len(s)
  <2>1. f .. Len(s) \subseteq 1 .. Len(s)
    BY <1>1
  <2> QED
    BY <2>1 DEF Characters
<1>4. Characters(t, f) \subseteq 1 .. Len(t)
  <2>1. f .. Len(t) \subseteq 1 .. Len(t)
    BY <1>1
  <2> QED
    BY <2>1 DEF Characters
<1>5. IsFiniteSet(1 .. Len(t))
  BY <1>1, FS_Interval
<1> QED
  BY <1>2, <1>3, <1>4, <1>5, FS_Subset

\* One byte more counts when it is a character of a name or a value.
OneMore(s, u) == Ext(s, u) /\ Len(u) = Len(s) + 1

LEMMA AppendIsOneMore ==
    ASSUME NEW s \in Text, NEW c \in 0 .. 255
    PROVE  Append(s, c) \in Text /\ OneMore(s, Append(s, c)) /\ Append(s, c)[Len(s) + 1] = c
BY OneMoreByte DEF OneMore

LEMMA CharacterCounts ==
    ASSUME NEW s \in Text, NEW u \in Text, OneMore(s, u), NEW f \in Nat \ {0}, NEW tot, Counted(s, f, tot),
           Len(s) + 1 \in Characters(u, f)
    PROVE  Cardinality(Characters(u, f)) = tot + 1 /\ tot \in Nat /\ (tot # MaxHeaders => Counted(u, f, tot + 1))
<1>1. Len(s) \in Nat /\ Ext(s, u) /\ Len(u) = Len(s) + 1 /\ MaxHeaders \in Nat
  BY TextFacts, ParserLimits DEF OneMore
<1>2. \A i \in 1 .. Len(u) : i \in 1 .. Len(s) \/ i = Len(s) + 1
  BY <1>1
<1>3. Characters(u, f) = Characters(s, f) \cup {Len(s) + 1}
  BY <1>1, <1>2, ExtCharacters
<1>4. IsFiniteSet(Characters(s, f)) /\ Characters(s, f) \subseteq 1 .. Len(s)
  <2>1. Ext(s, s)
    BY <1>1 DEF Ext
  <2> QED
    BY <2>1, ExtCharacters
<1>5. Len(s) + 1 \notin Characters(s, f)
  <2>1. Len(s) + 1 \notin 1 .. Len(s)
    BY <1>1
  <2> QED
    BY <2>1, <1>4
<1>6. Cardinality(Characters(u, f)) = Cardinality(Characters(s, f)) + 1
  BY <1>3, <1>4, <1>5, FS_AddElement
<1>7. Cardinality(Characters(s, f)) \in Nat
  BY <1>4, FS_CardinalityType
<1> QED
  BY <1>1, <1>6, <1>7 DEF Counted

LEMMA OtherDoesNotCount ==
    ASSUME NEW s \in Text, NEW u \in Text, OneMore(s, u), NEW f \in Nat \ {0}, NEW tot, Counted(s, f, tot),
           Len(s) + 1 \notin Characters(u, f)
    PROVE  Counted(u, f, tot)
<1>1. Len(s) \in Nat /\ Ext(s, u) /\ Len(u) = Len(s) + 1
  BY TextFacts DEF OneMore
<1>2. \A i \in 1 .. Len(u) : i \in 1 .. Len(s) \/ i = Len(s) + 1
  BY <1>1
<1>3. /\ \A i \in 1 .. Len(s) : i \in Characters(u, f) <=> i \in Characters(s, f)
      /\ Characters(s, f) \subseteq Characters(u, f) /\ Characters(u, f) \subseteq 1 .. Len(u)
  BY <1>1, ExtCharacters
<1>4. Characters(u, f) = Characters(s, f)
  BY <1>2, <1>3
<1> QED
  BY <1>4 DEF Counted

LEMMA RoomForOne ==
    ASSUME NEW s \in Text, NEW u \in Text, NEW t \in Text, OneMore(s, u), Ext(u, t), NEW f \in Nat \ {0}, NEW tot,
           Counted(s, f, tot), Len(s) + 1 \in Characters(u, f), IsHeaders(t, f)
    PROVE  tot # MaxHeaders
<1>1. Cardinality(Characters(u, f)) = tot + 1 /\ tot \in Nat
  BY CharacterCounts
<1>2. IsFiniteSet(Characters(t, f)) /\ Characters(u, f) \subseteq Characters(t, f)
  BY ExtCharacters
<1>3. Cardinality(Characters(u, f)) <= Cardinality(Characters(t, f))
  BY <1>2, FS_Subset
<1>4. Cardinality(Characters(t, f)) <= MaxHeaders
  BY DEF IsHeaders
<1>5. Cardinality(Characters(t, f)) \in Nat /\ MaxHeaders \in Nat
  BY <1>2, FS_CardinalityType, ParserLimits
<1> QED
  BY <1>1, <1>3, <1>4, <1>5

\* Which bytes those are.
LEMMA TokenIsCharacter ==
    ASSUME NEW u \in Text, NEW f \in Nat \ {0}, NEW i \in f .. Len(u), IsToken(u[i]), i = f \/ u[i - 1] # Colon
    PROVE  i \in Characters(u, f)
<1>1. Len(u) \in Nat /\ u[i] \in 0 .. 255
  BY TextFacts
<1>2. u[i] \notin {SP, CR, LF, Colon}
  BY <1>1, ParserBytes
<1>3. ~Separates(u, f, i) /\ (i > f => ~Separates(u, f, i - 1))
  BY <1>1, <1>2 DEF Separates
<1> QED
  BY <1>2, <1>3 DEF Characters

LEMMA NotACharacter ==
    ASSUME NEW u \in Text, NEW f \in Nat \ {0}, NEW i \in f .. Len(u),
           u[i] \in {CR, LF} \/ Separates(u, f, i) \/ (i > f /\ Separates(u, f, i - 1))
    PROVE  i \notin Characters(u, f)
BY DEF Characters

LEMMA FirstColon ==
    ASSUME NEW u \in Text, NEW f \in Nat \ {0}, NEW g, g \in Starts(u, f), NEW k \in g .. Len(u),
           \A m \in g .. k - 1 : IsToken(u[m]), u[k] = Colon
    PROVE  Separates(u, f, k)
<1>1. Len(u) \in Nat
  BY TextFacts
<1>2. g \in Nat /\ g >= f /\ (g = f \/ (g - 1 \in f .. Len(u) /\ u[g - 1] = LF))
  BY StartFacts
<1>3. ASSUME NEW m \in f .. k - 1, u[m] = Colon PROVE \E l \in m .. k : u[l] = LF
  <2>1. m < g
    <3>1. SUFFICES ASSUME m >= g PROVE FALSE
      BY <1>2
    <3>2. m \in g .. k - 1 /\ u[m] \in 0 .. 255
      BY <1>1, <1>2, <3>1, TextFacts
    <3> QED
      BY <3>2, <1>3, ParserBytes
  <2>2. g # f /\ g - 1 \in m .. k
    BY <1>2, <2>1
  <2> QED
    BY <1>2, <2>2
<1> QED
  BY <1>3 DEF Separates

LEMMA LaterColon ==
    ASSUME NEW u \in Text, NEW f \in Nat \ {0}, NEW k \in f .. Len(u), NEW i \in k + 1 .. Len(u), u[k] = Colon,
           \A l \in k .. i : u[l] # LF
    PROVE  ~Separates(u, f, i)
<1>1. Len(u) \in Nat
  BY TextFacts
<1>2. k \in f .. i - 1
  BY <1>1
<1> QED
  BY <1>2 DEF Separates

\* One byte more makes a line only when it ends CR LF.
LEMMA LinesGoOn ==
    ASSUME NEW s \in Text, NEW u \in Text, OneMore(s, u), NEW f \in Nat \ {0}, NEW g, Lines(s, f, g), u[Len(s) + 1] # LF
    PROVE  Lines(u, f, g)
<1>1. Len(s) \in Nat /\ Ext(s, u) /\ Len(u) = Len(s) + 1
  BY TextFacts DEF OneMore
<1>2. Breaks(s, f) \subseteq Breaks(u, f)
  BY <1>1, ExtBreaks
<1>3. \A i \in f .. Len(u) - 1 : i = Len(s) \/ (i \in f .. Len(s) - 1 /\ i \in 1 .. Len(s) /\ i + 1 \in 1 .. Len(s))
  BY <1>1
<1>4. Breaks(u, f) = Breaks(s, f)
  BY <1>1, <1>2, <1>3 DEF Breaks, Ext
<1>5. Starts(u, f) = Starts(s, f)
  BY <1>4 DEF Starts
<1>6. g \in Starts(u, f) /\ g <= Len(u) + 1
  <2>1. g \in Starts(s, f) /\ g <= Len(s) + 1
    BY DEF Lines
  <2>2. g \in Nat
    BY <2>1, StartFacts
  <2> QED
    BY <1>1, <1>5, <2>1, <2>2
<1>7. ASSUME NEW i \in Starts(u, f) \ {g} PROVE \E j \in Breaks(u, f) : j > i /\ IsHeader(u, i, j)
  <2>1. PICK j \in Breaks(s, f) : j > i /\ IsHeader(s, i, j)
    BY <1>5 DEF Lines
  <2>2. i \in Nat \ {0}
    BY <1>5, StartFacts
  <2>3. j \in Nat /\ j <= Len(s) + 1
    BY <1>1 DEF Breaks
  <2>4. IsHeader(u, i, j)
    BY <1>1, <2>1, <2>2, <2>3, ExtHeader
  <2> QED
    BY <1>4, <2>1, <2>4
<1> QED
  BY <1>6, <1>7 DEF Lines

LEMMA BreakComes ==
    ASSUME NEW s \in Text, NEW u \in Text, OneMore(s, u), NEW f \in Nat \ {0}, f <= Len(s), s[Len(s)] = CR, u[Len(s) + 1] = LF
    PROVE  Breaks(u, f) = Breaks(s, f) \cup {Len(s)} /\ Starts(u, f) = Starts(s, f) \cup {Len(s) + 2}
<1>1. Len(s) \in Nat /\ Ext(s, u) /\ Len(u) = Len(s) + 1
  BY TextFacts DEF OneMore
<1>2. Breaks(s, f) \subseteq Breaks(u, f)
  BY <1>1, ExtBreaks
<1>3. \A i \in f .. Len(u) - 1 : i = Len(s) \/ (i \in f .. Len(s) - 1 /\ i \in 1 .. Len(s) /\ i + 1 \in 1 .. Len(s))
  BY <1>1
<1>4. Len(s) \in Breaks(u, f)
  <2>1. Len(s) \in f .. Len(u) - 1 /\ Len(s) \in 1 .. Len(s)
    BY <1>1
  <2>2. u[Len(s)] = CR
    BY <1>1, <2>1 DEF Ext
  <2> QED
    BY <2>1, <2>2 DEF Breaks
<1>5. Breaks(u, f) \subseteq Breaks(s, f) \cup {Len(s)}
  BY <1>1, <1>3 DEF Breaks, Ext
<1>6. Breaks(u, f) = Breaks(s, f) \cup {Len(s)}
  BY <1>2, <1>4, <1>5
<1> QED
  BY <1>6 DEF Starts

\* What the bytes read are in the states of the header lines, from f, where the
\* line that is read begins at g.
InHeaders(s, f, g, tot) == FirstLine(s, f) /\ Lines(s, f, g) /\ Counted(s, f, tot)
Named(s, g, n)          == g <= n /\ \A m \in g .. n : IsToken(s[m])

InLine(s, tot)     == \E f \in Nat : InHeaders(s, f, Len(s) + 1, tot)
InName(s, tot)     == \E f, g \in Nat : InHeaders(s, f, g, tot) /\ Named(s, g, Len(s))
InSpace(s, tot)    == \E f, g \in Nat : InHeaders(s, f, g, tot) /\ Named(s, g, Len(s) - 1) /\ s[Len(s)] = Colon
InValue(s, tot)    == \E f, g \in Nat : InHeaders(s, f, g, tot) /\ IsHeader(s, g, Len(s) + 1)
InNewline2(s, tot) == \E f, g \in Nat : InHeaders(s, f, g, tot) /\ IsHeader(s, g, Len(s)) /\ s[Len(s)] = CR
InNewline3(s, tot) == \E f \in Nat : InHeaders(s, f, Len(s), tot) /\ s[Len(s)] = CR

LEMMA HeadersFacts ==
    ASSUME NEW s \in Text, NEW f \in Nat, NEW g, NEW tot, InHeaders(s, f, g, tot)
    PROVE  /\ f \in Nat \ {0} /\ f >= 3 /\ f <= Len(s) + 1 /\ g \in Nat /\ g >= f /\ g <= Len(s) + 1 /\ g \in Starts(s, f)
           /\ g = f \/ (g - 1 \in f .. Len(s) /\ s[g - 1] = LF)
<1>1. Len(s) \in Nat /\ Ext(s, s)
  BY TextFacts DEF Ext
<1>2. f \in 3 .. Len(s) + 1
  BY <1>1, ExtFirstLine DEF InHeaders
<1>3. f \in Nat \ {0} /\ f >= 3 /\ f <= Len(s) + 1
  BY <1>1, <1>2
<1>4. g \in Starts(s, f) /\ g <= Len(s) + 1
  BY DEF InHeaders, Lines
<1>5. g \in Nat /\ g >= f /\ (g = f \/ (g - 1 \in f .. Len(s) /\ s[g - 1] = LF))
  BY <1>3, <1>4, StartFacts
<1> QED
  BY <1>3, <1>4, <1>5

LEMMA LineCharacter ==
    ASSUME NEW s \in Text, NEW u \in Text, OneMore(s, u), NEW f \in Nat, NEW tot, InHeaders(s, f, Len(s) + 1, tot),
           IsToken(u[Len(s) + 1])
    PROVE  Len(s) + 1 \in Characters(u, f)
<1>1. Len(s) \in Nat /\ Ext(s, u) /\ Len(u) = Len(s) + 1
  BY TextFacts DEF OneMore
<1>2. /\ f \in Nat \ {0} /\ f <= Len(s) + 1
      /\ Len(s) + 1 = f \/ ((Len(s) + 1) - 1 \in f .. Len(s) /\ s[(Len(s) + 1) - 1] = LF)
  BY HeadersFacts
<1>3. Len(s) + 1 \in f .. Len(u) /\ (Len(s) + 1) - 1 = Len(s)
  BY <1>1, <1>2
<1>4. Len(s) + 1 = f \/ u[(Len(s) + 1) - 1] # Colon
  <2>1. SUFFICES ASSUME Len(s) \in f .. Len(s), s[Len(s)] = LF PROVE u[Len(s)] # Colon
    BY <1>2, <1>3
  <2>2. Len(s) \in 1 .. Len(s)
    BY <1>1, <1>2, <2>1
  <2> QED
    BY <1>1, <2>1, <2>2, ParserBytes DEF Ext
<1> QED
  BY <1>2, <1>3, <1>4, TokenIsCharacter

LEMMA NameCharacter ==
    ASSUME NEW s \in Text, NEW u \in Text, OneMore(s, u), NEW f \in Nat, NEW g \in Nat, NEW tot, InHeaders(s, f, g, tot),
           Named(s, g, Len(s)), IsToken(u[Len(s) + 1])
    PROVE  Len(s) + 1 \in Characters(u, f)
<1>1. Len(s) \in Nat /\ Ext(s, u) /\ Len(u) = Len(s) + 1
  BY TextFacts DEF OneMore
<1>2. f \in Nat \ {0} /\ f <= g
  BY HeadersFacts
<1>3. g <= Len(s) /\ Len(s) \in g .. Len(s) /\ Len(s) \in 1 .. Len(s) /\ Len(s) + 1 \in f .. Len(u) /\ (Len(s) + 1) - 1 = Len(s)
  BY <1>1, <1>2 DEF Named
<1>4. IsToken(s[Len(s)]) /\ s[Len(s)] \in 0 .. 255 /\ u[Len(s)] = s[Len(s)]
  BY <1>1, <1>3, TextFacts DEF Named, Ext
<1>5. u[(Len(s) + 1) - 1] # Colon
  BY <1>3, <1>4, ParserBytes
<1> QED
  BY <1>2, <1>3, <1>5, TokenIsCharacter

LEMMA ValueCharacter ==
    ASSUME NEW s \in Text, NEW u \in Text, OneMore(s, u), NEW f \in Nat, NEW g \in Nat, NEW tot, InHeaders(s, f, g, tot),
           IsHeader(s, g, Len(s) + 1), ~IsCtl(u[Len(s) + 1])
    PROVE  Len(s) + 1 \in Characters(u, f)
<1>1. Len(s) \in Nat /\ Ext(s, u) /\ Len(u) = Len(s) + 1 /\ \A i \in 1 .. Len(s) : u[i] = s[i] /\ s[i] \in 0 .. 255
  BY TextFacts DEF OneMore, Ext
<1>2. f \in Nat \ {0} /\ f <= g
  BY HeadersFacts
<1>3. PICK k \in g + 1 .. (Len(s) + 1) - 2 : /\ s[k] = Colon /\ s[k + 1] = SP
                                             /\ \A m \in k + 2 .. (Len(s) + 1) - 1 : ~IsCtl(s[m])
  BY DEF IsHeader
<1>4. /\ k \in f .. Len(u) /\ k \in 1 .. Len(s) /\ k + 1 \in 1 .. Len(s)
      /\ Len(s) + 1 \in f .. Len(u) /\ Len(s) + 1 \in 1 .. Len(u) /\ Len(s) + 1 \in k + 1 .. Len(u) /\ Len(s) \in k + 1 .. Len(u)
      /\ (Len(s) + 1) - 1 = Len(s)
  BY <1>1, <1>2
<1>5. u[Len(s) + 1] \in 0 .. 255
  BY <1>4, TextFacts
<1>6. \A l \in k .. Len(s) + 1 : u[l] # LF
  <2>1. ASSUME NEW l \in k .. Len(s) + 1 PROVE u[l] # LF
    <3>1. l = k \/ l = k + 1 \/ (l \in k + 2 .. (Len(s) + 1) - 1 /\ l \in 1 .. Len(s)) \/ l = Len(s) + 1
      BY <1>1, <1>2
    <3>2. CASE l = k
      BY <1>1, <1>3, <1>4, <3>2, ParserBytes
    <3>3. CASE l = k + 1
      BY <1>1, <1>3, <1>4, <3>3, ParserBytes
    <3>4. CASE l \in k + 2 .. (Len(s) + 1) - 1 /\ l \in 1 .. Len(s)
      BY <1>1, <1>3, <3>4, ParserBytes
    <3>5. CASE l = Len(s) + 1
      BY <1>5, <3>5, ParserBytes
    <3> QED
      BY <3>1, <3>2, <3>3, <3>4, <3>5
  <2> QED
    BY <2>1
<1>7. u[k] = Colon /\ \A l \in k .. Len(s) : u[l] # LF
  BY <1>1, <1>3, <1>4, <1>6
<1>8. ~Separates(u, f, Len(s) + 1) /\ ~Separates(u, f, Len(s))
  BY <1>2, <1>4, <1>6, <1>7, LaterColon
<1>9. u[Len(s) + 1] \notin {CR, LF}
  BY <1>5, ParserBytes
<1> QED
  BY <1>4, <1>8, <1>9 DEF Characters

LEMMA HeadersGoOn ==
    ASSUME NEW s \in Text, NEW u \in Text, OneMore(s, u), NEW f \in Nat, NEW g, NEW tot, InHeaders(s, f, g, tot),
           u[Len(s) + 1] # LF
    PROVE  /\ Len(s) + 1 \in Characters(u, f) /\ tot # MaxHeaders => InHeaders(u, f, g, tot + 1)
           /\ Len(s) + 1 \notin Characters(u, f) => InHeaders(u, f, g, tot)
<1>1. f \in Nat \ {0} /\ Ext(s, u)
  BY HeadersFacts DEF OneMore
<1>2. FirstLine(u, f) /\ Lines(u, f, g)
  BY <1>1, ExtFirstLine, LinesGoOn DEF InHeaders
<1>3. Counted(s, f, tot)
  BY DEF InHeaders
<1>4. Len(s) + 1 \in Characters(u, f) /\ tot # MaxHeaders => Counted(u, f, tot + 1)
  BY <1>1, <1>3, CharacterCounts
<1>5. Len(s) + 1 \notin Characters(u, f) => Counted(u, f, tot)
  BY <1>1, <1>3, OtherDoesNotCount
<1> QED
  BY <1>2, <1>4, <1>5 DEF InHeaders

\* The bytes that are accepted there.
LEMMA NewlineFirstLine ==
    ASSUME NEW s \in Text, InNewline1(s)
    PROVE  /\ FirstLine(Append(s, LF), Len(s) + 2) /\ (Len(s) + 2) - 3 = Len(s) - 1
           /\ Append(s, LF) \in Text /\ Append(s, LF)[Len(s) - 1] = s[Len(s) - 1]
<1>1. Len(s) \in Nat /\ LF \in 0 .. 255
  BY TextFacts, ParserBytes
<1>2. PICK u : u = Append(s, LF)
  OBVIOUS
<1>3. u \in Text /\ Len(u) = Len(s) + 1 /\ u[Len(s) + 1] = LF /\ Ext(s, u)
  BY <1>1, <1>2, OneMoreByte
<1>4. PICK a, b \in Nat : /\ MethodPart(s, a) /\ UriPart(s, a, b) /\ VersionPart(s, b, 7) /\ Len(s) >= b + 9
                          /\ s[Len(s)] = CR /\ TakenMinor(s, b + 8, Len(s) - 1)
  BY DEF InNewline1
<1>5. MethodPart(u, a) /\ UriPart(u, a, b) /\ VersionPart(u, b, 7)
  BY <1>3, <1>4, ExtMethod, ExtUri, ExtVersion
<1>6. /\ b + 8 \in Nat /\ Len(s) - 1 \in Nat /\ b + 8 >= 1 /\ b + 8 <= Len(s) - 1 /\ Len(s) - 1 <= Len(s)
      /\ Len(s) \in b + 9 .. Len(u) - 1 /\ Len(s) \in 1 .. Len(s) /\ Len(s) - 1 \in 1 .. Len(s)
      /\ Len(s) + 2 \in Nat \ {0} /\ (Len(s) + 2) - 2 = Len(s) /\ (Len(s) + 2) - 3 = Len(s) - 1
  BY <1>1, <1>3, <1>4
<1>7. TakenMinor(u, b + 8, Len(s) - 1)
  BY <1>3, <1>4, <1>6, ExtMinor
<1>8. u[Len(s)] = CR /\ u[Len(s) - 1] = s[Len(s) - 1]
  BY <1>3, <1>4, <1>6 DEF Ext
<1>9. LineEnd(u, b, Len(s))
  BY <1>3, <1>6, <1>7, <1>8 DEF LineEnd
<1>10. FirstLine(u, Len(s) + 2)
  BY <1>5, <1>6, <1>9 DEF FirstLine
<1> QED
  BY <1>2, <1>3, <1>6, <1>8, <1>10

LEMMA LineBegins ==
    ASSUME NEW s \in Text, InNewline1(s)
    PROVE  InLine(Append(s, LF), 0)
<1>1. Len(s) \in Nat /\ LF \in 0 .. 255 /\ MaxHeaders \in Nat
  BY TextFacts, ParserBytes, ParserLimits
<1>2. PICK u : u = Append(s, LF)
  OBVIOUS
<1>3. u \in Text /\ Len(u) = Len(s) + 1 /\ u[Len(s) + 1] = LF /\ Ext(s, u)
  BY <1>1, <1>2, OneMoreByte
<1>6. Len(s) + 2 \in Nat \ {0} /\ Len(u) + 1 = Len(s) + 2
  BY <1>1, <1>3
<1>10. FirstLine(u, Len(s) + 2)
  BY <1>2, NewlineFirstLine
<1>11. Breaks(u, Len(s) + 2) = {} /\ Characters(u, Len(s) + 2) = {}
  <2>1. Len(s) + 2 .. Len(u) = {} /\ Len(s) + 2 .. Len(u) - 1 = {}
    BY <1>1, <1>3
  <2> QED
    BY <2>1 DEF Breaks, Characters
<1>12. Starts(u, Len(s) + 2) = {Len(s) + 2}
  BY <1>11 DEF Starts
<1>13. Lines(u, Len(s) + 2, Len(u) + 1)
  <2>1. Len(u) + 1 <= Len(u) + 1
    BY <1>1, <1>3
  <2> QED
    BY <2>1, <1>6, <1>12 DEF Lines
<1>14. Counted(u, Len(s) + 2, 0)
  <2>1. Cardinality(Characters(u, Len(s) + 2)) = 0
    BY <1>11, FS_EmptySet
  <2>2. 0 <= MaxHeaders
    BY <1>1
  <2> QED
    BY <2>1, <2>2 DEF Counted
<1>15. InLine(u, 0)
  BY <1>6, <1>10, <1>13, <1>14 DEF InLine, InHeaders
<1> QED
  BY <1>2, <1>15

LEMMA NameBegins ==
    ASSUME NEW s \in Text, NEW c \in 0 .. 255, NEW tot, InLine(s, tot), IsToken(c), tot # MaxHeaders
    PROVE  InName(Append(s, c), tot + 1)
<1>1. PICK u : u = Append(s, c)
  OBVIOUS
<1>2. u \in Text /\ OneMore(s, u) /\ u[Len(s) + 1] = c
  BY <1>1, AppendIsOneMore
<1>3. Len(s) \in Nat /\ Len(u) = Len(s) + 1 /\ c # LF
  BY <1>2, TextFacts, ParserBytes DEF OneMore
<1>4. PICK f \in Nat : InHeaders(s, f, Len(s) + 1, tot)
  BY DEF InLine
<1>5. Len(s) + 1 \in Characters(u, f)
  BY <1>2, <1>4, LineCharacter
<1>6. InHeaders(u, f, Len(s) + 1, tot + 1)
  BY <1>2, <1>3, <1>4, <1>5, HeadersGoOn
<1>7. Named(u, Len(s) + 1, Len(u))
  <2>1. Len(s) + 1 <= Len(u) /\ \A m \in Len(s) + 1 .. Len(u) : m = Len(s) + 1
    BY <1>3
  <2> QED
    BY <2>1, <1>2 DEF Named
<1>8. Len(s) + 1 \in Nat
  BY <1>3
<1>9. InName(u, tot + 1)
  BY <1>6, <1>7, <1>8 DEF InName
<1> QED
  BY <1>1, <1>9

LEMMA LastLineBegins ==
    ASSUME NEW s \in Text, NEW tot, InLine(s, tot)
    PROVE  InNewline3(Append(s, CR), tot)
<1>1. PICK u : u = Append(s, CR)
  OBVIOUS
<1>2. u \in Text /\ OneMore(s, u) /\ u[Len(s) + 1] = CR /\ CR # LF
  <2>1. CR \in 0 .. 255 /\ CR # LF
    BY ParserBytes
  <2> QED
    BY <2>1, <1>1, AppendIsOneMore
<1>3. Len(s) \in Nat /\ Len(u) = Len(s) + 1
  BY <1>2, TextFacts DEF OneMore
<1>4. PICK f \in Nat : InHeaders(s, f, Len(s) + 1, tot)
  BY DEF InLine
<1>5. f \in Nat \ {0} /\ Len(s) + 1 \in f .. Len(u)
  BY <1>3, <1>4, HeadersFacts
<1>6. Len(s) + 1 \notin Characters(u, f)
  BY <1>2, <1>5, NotACharacter
<1>7. InHeaders(u, f, Len(s) + 1, tot)
  BY <1>2, <1>4, <1>6, HeadersGoOn
<1>8. InNewline3(u, tot)
  BY <1>2, <1>3, <1>7 DEF InNewline3
<1> QED
  BY <1>1, <1>8

LEMMA NameGoesOn ==
    ASSUME NEW s \in Text, NEW c \in 0 .. 255, NEW tot, InName(s, tot), IsToken(c), tot # MaxHeaders
    PROVE  InName(Append(s, c), tot + 1)
<1>1. PICK u : u = Append(s, c)
  OBVIOUS
<1>2. u \in Text /\ OneMore(s, u) /\ u[Len(s) + 1] = c
  BY <1>1, AppendIsOneMore
<1>3. Len(s) \in Nat /\ Len(u) = Len(s) + 1 /\ c # LF /\ \A i \in 1 .. Len(s) : u[i] = s[i]
  BY <1>2, TextFacts, ParserBytes DEF OneMore, Ext
<1>4. PICK f, g \in Nat : InHeaders(s, f, g, tot) /\ Named(s, g, Len(s))
  BY DEF InName
<1>5. Len(s) + 1 \in Characters(u, f)
  BY <1>2, <1>4, NameCharacter
<1>6. InHeaders(u, f, g, tot + 1)
  BY <1>2, <1>3, <1>4, <1>5, HeadersGoOn
<1>7. Named(u, g, Len(u))
  <2>1. g >= 1
    BY <1>4, HeadersFacts
  <2>2. g <= Len(u) /\ \A m \in g .. Len(u) : m = Len(s) + 1 \/ (m \in g .. Len(s) /\ m \in 1 .. Len(s))
    BY <2>1, <1>3, <1>4 DEF Named
  <2> QED
    BY <2>2, <1>2, <1>3, <1>4 DEF Named
<1>8. InName(u, tot + 1)
  BY <1>6, <1>7 DEF InName
<1> QED
  BY <1>1, <1>8

LEMMA NameEnds ==
    ASSUME NEW s \in Text, NEW tot, InName(s, tot)
    PROVE  InSpace(Append(s, Colon), tot)
<1>1. PICK u : u = Append(s, Colon)
  OBVIOUS
<1>2. u \in Text /\ OneMore(s, u) /\ u[Len(s) + 1] = Colon /\ Colon # LF
  <2>1. Colon \in 0 .. 255 /\ Colon # LF
    BY ParserBytes
  <2> QED
    BY <2>1, <1>1, AppendIsOneMore
<1>3. Len(s) \in Nat /\ Len(u) = Len(s) + 1 /\ Ext(s, u) /\ \A i \in 1 .. Len(s) : u[i] = s[i]
  BY <1>2, TextFacts DEF OneMore, Ext
<1>4. PICK f, g \in Nat : InHeaders(s, f, g, tot) /\ Named(s, g, Len(s))
  BY DEF InName
<1>5. f \in Nat \ {0} /\ g >= f /\ g \in Starts(s, f)
  BY <1>4, HeadersFacts
<1>6. /\ Len(s) + 1 \in f .. Len(u) /\ Len(s) + 1 \in g .. Len(u) /\ (Len(s) + 1) - 1 = Len(s) /\ Len(u) - 1 = Len(s)
      /\ \A m \in g .. Len(s) : m \in 1 .. Len(s)
  BY <1>3, <1>4, <1>5 DEF Named
<1>7. Named(u, g, Len(s))
  BY <1>3, <1>4, <1>6 DEF Named
<1>8. Separates(u, f, Len(s) + 1)
  <2>1. g \in Starts(u, f)
    BY <1>2, <1>3, <1>5, ExtBreaks
  <2>2. \A m \in g .. (Len(s) + 1) - 1 : IsToken(u[m])
    BY <1>6, <1>7 DEF Named
  <2> QED
    BY <2>1, <2>2, <1>2, <1>5, <1>6, FirstColon
<1>9. Len(s) + 1 \notin Characters(u, f)
  BY <1>2, <1>5, <1>6, <1>8, NotACharacter
<1>10. InHeaders(u, f, g, tot)
  BY <1>2, <1>4, <1>9, HeadersGoOn
<1>11. InSpace(u, tot)
  BY <1>2, <1>3, <1>6, <1>7, <1>10 DEF InSpace
<1> QED
  BY <1>1, <1>11

LEMMA ValueBegins ==
    ASSUME NEW s \in Text, NEW tot, InSpace(s, tot)
    PROVE  InValue(Append(s, SP), tot)
<1>1. PICK u : u = Append(s, SP)
  OBVIOUS
<1>2. u \in Text /\ OneMore(s, u) /\ u[Len(s) + 1] = SP /\ SP # LF
  <2>1. SP \in 0 .. 255 /\ SP # LF
    BY ParserBytes
  <2> QED
    BY <2>1, <1>1, AppendIsOneMore
<1>3. Len(s) \in Nat /\ Len(u) = Len(s) + 1 /\ Ext(s, u) /\ \A i \in 1 .. Len(s) : u[i] = s[i]
  BY <1>2, TextFacts DEF OneMore, Ext
<1>4. PICK f, g \in Nat : InHeaders(s, f, g, tot) /\ Named(s, g, Len(s) - 1) /\ s[Len(s)] = Colon
  BY DEF InSpace
<1>5. f \in Nat \ {0} /\ g >= f /\ g \in Starts(s, f)
  BY <1>4, HeadersFacts
<1>6. /\ Len(s) + 1 \in f .. Len(u) /\ Len(s) \in g .. Len(s) /\ (Len(s) + 1) - 1 = Len(s) /\ Len(s) + 1 > f
      /\ Len(s) \in 1 .. Len(s) /\ Len(s) \in f .. Len(s) /\ Len(s) \in g + 1 .. (Len(u) + 1) - 2
      /\ \A m \in g .. Len(s) - 1 : m \in 1 .. Len(s)
      /\ \A m \in Len(s) + 2 .. (Len(u) + 1) - 1 : FALSE
  BY <1>3, <1>4, <1>5 DEF Named
<1>7. Separates(u, f, Len(s))
  <2>1. Separates(s, f, Len(s))
    BY <1>4, <1>5, <1>6, FirstColon DEF Named
  <2> QED
    BY <2>1, <1>2, <1>3, <1>5, <1>6, ExtSeparates
<1>8. Len(s) + 1 \notin Characters(u, f)
  BY <1>2, <1>5, <1>6, <1>7, NotACharacter
<1>9. InHeaders(u, f, g, tot)
  BY <1>2, <1>4, <1>8, HeadersGoOn
<1>10. u[Len(s)] = Colon /\ \A m \in g .. Len(s) - 1 : IsToken(u[m])
  BY <1>3, <1>4, <1>6 DEF Named
<1>11. IsHeader(u, g, Len(u) + 1)
  BY <1>2, <1>6, <1>10 DEF IsHeader
<1>12. InValue(u, tot)
  BY <1>9, <1>11 DEF InValue
<1> QED
  BY <1>1, <1>12

LEMMA ValueGoesOn ==
    ASSUME NEW s \in Text, NEW c \in 0 .. 255, NEW tot, InValue(s, tot), ~IsCtl(c), tot # MaxHeaders
    PROVE  InValue(Append(s, c), tot + 1)
<1>1. PICK u : u = Append(s, c)
  OBVIOUS
<1>2. u \in Text /\ OneMore(s, u) /\ u[Len(s) + 1] = c /\ c # LF
  BY <1>1, AppendIsOneMore, ParserBytes
<1>3. Len(s) \in Nat /\ Len(u) = Len(s) + 1 /\ Ext(s, u) /\ \A i \in 1 .. Len(s) : u[i] = s[i]
  BY <1>2, TextFacts DEF OneMore, Ext
<1>4. PICK f, g \in Nat : InHeaders(s, f, g, tot) /\ IsHeader(s, g, Len(s) + 1)
  BY DEF InValue
<1>5. g \in Nat \ {0}
  BY <1>4, HeadersFacts
<1>6. Len(s) + 1 \in Characters(u, f)
  BY <1>2, <1>4, ValueCharacter
<1>7. InHeaders(u, f, g, tot + 1)
  BY <1>2, <1>4, <1>6, HeadersGoOn
<1>8. PICK k \in g + 1 .. (Len(s) + 1) - 2 : /\ s[k] = Colon /\ s[k + 1] = SP
                                             /\ \A m \in g .. k - 1 : IsToken(s[m])
                                             /\ \A m \in k + 2 .. (Len(s) + 1) - 1 : ~IsCtl(s[m])
  BY <1>4 DEF IsHeader
<1>9. /\ k \in g + 1 .. (Len(u) + 1) - 2 /\ k \in 1 .. Len(s) /\ k + 1 \in 1 .. Len(s)
      /\ \A m \in g .. k - 1 : m \in 1 .. Len(s)
      /\ \A m \in k + 2 .. (Len(u) + 1) - 1 : m = Len(s) + 1 \/ (m \in 1 .. Len(s) /\ m \in k + 2 .. (Len(s) + 1) - 1)
  BY <1>3, <1>5
<1>10. /\ u[k] = Colon /\ u[k + 1] = SP
       /\ \A m \in g .. k - 1 : IsToken(u[m])
       /\ \A m \in k + 2 .. (Len(u) + 1) - 1 : ~IsCtl(u[m])
  BY <1>2, <1>3, <1>8, <1>9
<1>11. IsHeader(u, g, Len(u) + 1)
  BY <1>9, <1>10 DEF IsHeader
<1>12. InValue(u, tot + 1)
  BY <1>7, <1>11 DEF InValue
<1> QED
  BY <1>1, <1>12

LEMMA ValueEnds ==
    ASSUME NEW s \in Text, NEW tot, InValue(s, tot)
    PROVE  InNewline2(Append(s, CR), tot)
<1>1. PICK u : u = Append(s, CR)
  OBVIOUS
<1>2. u \in Text /\ OneMore(s, u) /\ u[Len(s) + 1] = CR /\ CR # LF
  <2>1. CR \in 0 .. 255 /\ CR # LF
    BY ParserBytes
  <2> QED
    BY <2>1, <1>1, AppendIsOneMore
<1>3. Len(s) \in Nat /\ Len(u) = Len(s) + 1 /\ Ext(s, u)
  BY <1>2, TextFacts DEF OneMore
<1>4. PICK f, g \in Nat : InHeaders(s, f, g, tot) /\ IsHeader(s, g, Len(s) + 1)
  BY DEF InValue
<1>5. f \in Nat \ {0} /\ g \in Nat \ {0} /\ Len(s) + 1 \in f .. Len(u) /\ Len(s) + 1 \in Nat /\ Len(s) + 1 <= Len(s) + 1
  BY <1>3, <1>4, HeadersFacts
<1>6. Len(s) + 1 \notin Characters(u, f)
  BY <1>2, <1>5, NotACharacter
<1>7. InHeaders(u, f, g, tot)
  BY <1>2, <1>4, <1>6, HeadersGoOn
<1>8. IsHeader(u, g, Len(u))
  BY <1>2, <1>3, <1>4, <1>5, ExtHeader
<1>9. InNewline2(u, tot)
  BY <1>2, <1>3, <1>7, <1>8 DEF InNewline2
<1> QED
  BY <1>1, <1>9

LEMMA HeaderEnds ==
    ASSUME NEW s \in Text, NEW tot, InNewline2(s, tot)
    PROVE  InLine(Append(s, LF), tot)
<1>1. PICK u : u = Append(s, LF)
  OBVIOUS
<1>2. u \in Text /\ OneMore(s, u) /\ u[Len(s) + 1] = LF
  <2>1. LF \in 0 .. 255
    BY ParserBytes
  <2> QED
    BY <2>1, <1>1, AppendIsOneMore
<1>3. Len(s) \in Nat /\ Len(u) = Len(s) + 1 /\ Ext(s, u)
  BY <1>2, TextFacts DEF OneMore
<1>4. PICK f, g \in Nat : InHeaders(s, f, g, tot) /\ IsHeader(s, g, Len(s)) /\ s[Len(s)] = CR
  BY DEF InNewline2
<1>5. f \in Nat \ {0} /\ g \in Nat \ {0} /\ f <= g /\ g \in Starts(s, f)
  BY <1>4, HeadersFacts
<1>6. g < Len(s)
  <2>1. PICK k \in g + 1 .. Len(s) - 2 : TRUE
    BY <1>4 DEF IsHeader
  <2> QED
    BY <1>3, <2>1
<1>7. f <= Len(s) /\ Len(s) + 1 \in f .. Len(u) /\ Len(u) + 1 = Len(s) + 2 /\ Len(s) <= Len(s) + 1 /\ Len(u) + 1 <= Len(u) + 1
  BY <1>3, <1>5, <1>6
<1>8. Breaks(u, f) = Breaks(s, f) \cup {Len(s)} /\ Starts(u, f) = Starts(s, f) \cup {Len(u) + 1}
  BY <1>2, <1>4, <1>5, <1>7, BreakComes
<1>9. FirstLine(u, f)
  BY <1>2, <1>3, <1>4, ExtFirstLine DEF InHeaders
<1>10. Counted(u, f, tot)
  <2>1. Len(s) + 1 \notin Characters(u, f)
    BY <1>2, <1>5, <1>7, NotACharacter
  <2> QED
    BY <2>1, <1>2, <1>4, <1>5, OtherDoesNotCount DEF InHeaders
<1>11. ASSUME NEW i \in Starts(u, f) \ {Len(u) + 1} PROVE \E j \in Breaks(u, f) : j > i /\ IsHeader(u, i, j)
  <2>1. i \in Starts(s, f)
    BY <1>8
  <2>2. i \in Nat \ {0}
    BY <1>5, <2>1, StartFacts
  <2>3. CASE i = g
    <3>1. IsHeader(u, g, Len(s))
      BY <1>2, <1>3, <1>4, <1>5, <1>7, ExtHeader
    <3>2. Len(s) \in Breaks(u, f)
      BY <1>8
    <3> QED
      BY <3>1, <3>2, <1>3, <1>6, <2>3
  <2>4. CASE i # g
    <3>1. PICK j \in Breaks(s, f) : j > i /\ IsHeader(s, i, j)
      BY <1>4, <2>1, <2>4 DEF InHeaders, Lines
    <3>2. j \in Nat /\ j <= Len(s) + 1
      BY <1>3 DEF Breaks
    <3>3. IsHeader(u, i, j)
      BY <1>2, <1>3, <2>2, <3>1, <3>2, ExtHeader
    <3> QED
      BY <1>8, <3>1, <3>3
  <2> QED
    BY <2>3, <2>4
<1>12. Lines(u, f, Len(u) + 1)
  BY <1>7, <1>8, <1>11 DEF Lines
<1>13. InLine(u, tot)
  BY <1>9, <1>10, <1>12 DEF InLine, InHeaders
<1> QED
  BY <1>1, <1>13

LEMMA RequestEnds ==
    ASSUME NEW s \in Text, NEW tot, InNewline3(s, tot)
    PROVE  TakenRequest(Append(s, LF))
<1>1. PICK u : u = Append(s, LF)
  OBVIOUS
<1>2. u \in Text /\ OneMore(s, u) /\ u[Len(s) + 1] = LF
  <2>1. LF \in 0 .. 255
    BY ParserBytes
  <2> QED
    BY <2>1, <1>1, AppendIsOneMore
<1>3. Len(s) \in Nat /\ Len(u) = Len(s) + 1 /\ Ext(s, u)
  BY <1>2, TextFacts DEF OneMore
<1>4. PICK f \in Nat : InHeaders(s, f, Len(s), tot) /\ s[Len(s)] = CR
  BY DEF InNewline3
<1>5. f \in Nat \ {0} /\ f <= Len(s) /\ Len(s) \in Starts(s, f)
  BY <1>4, HeadersFacts
<1>6. Len(s) + 1 \in f .. Len(u) /\ Len(u) + 1 = Len(s) + 2 /\ Len(u) - 1 = Len(s)
  BY <1>3, <1>5
<1>7. Breaks(u, f) = Breaks(s, f) \cup {Len(s)} /\ Starts(u, f) = Starts(s, f) \cup {Len(u) + 1}
  BY <1>2, <1>4, <1>5, <1>6, BreakComes
<1>8. FirstLine(u, f)
  BY <1>2, <1>3, <1>4, ExtFirstLine DEF InHeaders
<1>9. Cardinality(Characters(u, f)) <= MaxHeaders
  <2>1. Len(s) + 1 \notin Characters(u, f)
    BY <1>2, <1>5, <1>6, NotACharacter
  <2>2. Counted(u, f, tot)
    BY <2>1, <1>2, <1>4, <1>5, OtherDoesNotCount DEF InHeaders
  <2> QED
    BY <2>2 DEF Counted
<1>10. ASSUME NEW i \in Starts(u, f) \ {Len(u) - 1, Len(u) + 1} PROVE \E j \in Breaks(u, f) : j > i /\ IsHeader(u, i, j)
  <2>1. i \in Starts(s, f) /\ i # Len(s)
    BY <1>6, <1>7
  <2>2. i \in Nat \ {0}
    BY <1>5, <2>1, StartFacts
  <2>3. PICK j \in Breaks(s, f) : j > i /\ IsHeader(s, i, j)
    BY <1>4, <2>1 DEF InHeaders, Lines
  <2>4. j \in Nat /\ j <= Len(s) + 1
    BY <1>3 DEF Breaks
  <2>5. IsHeader(u, i, j)
    BY <1>2, <1>3, <2>2, <2>3, <2>4, ExtHeader
  <2> QED
    BY <1>7, <2>3, <2>5
<1>11. Len(u) - 1 \in Breaks(u, f) \cap Starts(u, f)
  BY <1>5, <1>6, <1>7
<1>12. IsHeaders(u, f)
  BY <1>9, <1>10, <1>11 DEF IsHeaders
<1>13. TakenRequest(u)
  BY <1>2, <1>8, <1>12 DEF TakenRequest
<1> QED
  BY <1>1, <1>13

\* The bytes that a request has there.
LEMMA NextByte ==
    ASSUME NEW s \in Text, NEW t \in Text, Ext(s, t), Len(t) > Len(s)
    PROVE  /\ t[Len(s) + 1] \in 0 .. 255
           /\ \E u \in Text : u = Append(s, t[Len(s) + 1]) /\ OneMore(s, u) /\ u[Len(s) + 1] = t[Len(s) + 1] /\ Ext(u, t)
<1>1. Len(s) \in Nat /\ Len(t) \in Nat
  BY TextFacts
<1>2. Len(s) + 1 \in 1 .. Len(t)
  BY <1>1
<1>3. t[Len(s) + 1] \in 0 .. 255
  BY <1>2, TextFacts
<1>4. PICK u : u = Append(s, t[Len(s) + 1])
  OBVIOUS
<1>5. u \in Text /\ OneMore(s, u) /\ u[Len(s) + 1] = t[Len(s) + 1]
  BY <1>3, <1>4, AppendIsOneMore
<1>6. Len(u) = Len(s) + 1 /\ \A i \in 1 .. Len(s) : u[i] = s[i] /\ t[i] = s[i]
  BY <1>5 DEF OneMore, Ext
<1>7. Len(u) <= Len(t) /\ \A i \in 1 .. Len(u) : i \in 1 .. Len(s) \/ i = Len(s) + 1
  BY <1>1, <1>6
<1>8. Ext(u, t)
  BY <1>5, <1>6, <1>7 DEF Ext
<1> QED
  BY <1>3, <1>4, <1>5, <1>8

LEMMA SameHeaders ==
    ASSUME NEW s \in Text, NEW t \in Text, Ext(s, t), TakenRequest(t), NEW f \in Nat, NEW g, NEW tot, InHeaders(s, f, g, tot)
    PROVE  IsHeaders(t, f) /\ g \in Starts(t, f)
<1>1. PICK x : FirstLine(t, x) /\ IsHeaders(t, x)
  BY DEF TakenRequest
<1>2. FirstLine(t, f)
  BY ExtFirstLine DEF InHeaders
<1>3. x = f
  BY <1>1, <1>2, OneFirstLine
<1>4. f \in Nat \ {0} /\ g \in Starts(s, f)
  BY HeadersFacts
<1> QED
  BY <1>1, <1>3, <1>4, ExtBreaks

LEMMA LineOfRequest ==
    ASSUME NEW t \in Text, NEW f \in Nat \ {0}, NEW g, IsHeaders(t, f), g \in Starts(t, f), g # Len(t) - 1, g # Len(t) + 1
    PROVE  \E j \in Nat : j < Len(t) /\ t[j] = CR /\ t[j + 1] = LF /\ IsHeader(t, g, j)
<1>1. Len(t) \in Nat
  BY TextFacts
<1>2. PICK j \in Breaks(t, f) : IsHeader(t, g, j)
  BY DEF IsHeaders
<1>3. j \in f .. Len(t) - 1 /\ t[j] = CR /\ t[j + 1] = LF
  BY DEF Breaks
<1>4. j \in Nat /\ j < Len(t)
  BY <1>1, <1>3
<1> QED
  BY <1>2, <1>3, <1>4

LEMMA LastLineOfRequest ==
    ASSUME NEW t \in Text, NEW f \in Nat \ {0}, IsHeaders(t, f)
    PROVE  Len(t) - 1 \in Nat /\ t[Len(t) - 1] = CR /\ t[Len(t)] = LF /\ Len(t) - 1 \in Starts(t, f)
<1>1. Len(t) \in Nat
  BY TextFacts
<1>2. Len(t) - 1 \in f .. Len(t) - 1 /\ t[Len(t) - 1] = CR /\ t[(Len(t) - 1) + 1] = LF /\ Len(t) - 1 \in Starts(t, f)
  BY DEF IsHeaders, Breaks
<1>3. (Len(t) - 1) + 1 = Len(t) /\ Len(t) - 1 \in Nat
  BY <1>1, <1>2
<1> QED
  BY <1>2, <1>3

LEMMA WantsLine ==
    ASSUME NEW s \in Text, NEW t \in Text, Ext(s, t), TakenRequest(t), NEW tot, InLine(s, tot)
    PROVE  Len(t) > Len(s) /\ (t[Len(s) + 1] = CR \/ (IsToken(t[Len(s) + 1]) /\ tot # MaxHeaders))
<1>1. Len(s) \in Nat /\ Len(t) \in Nat /\ Len(s) <= Len(t)
  BY TextFacts DEF Ext
<1>2. PICK f \in Nat : InHeaders(s, f, Len(s) + 1, tot)
  BY DEF InLine
<1>3. f \in Nat \ {0} /\ IsHeaders(t, f) /\ Len(s) + 1 \in Starts(t, f)
  BY <1>2, SameHeaders, HeadersFacts
<1>4. Len(t) - 1 \in Nat /\ t[Len(t) - 1] = CR /\ Len(t) - 1 \in Starts(t, f)
  BY <1>3, LastLineOfRequest
<1>5. Len(t) # Len(s)
  <2>1. SUFFICES ASSUME Len(t) = Len(s) PROVE FALSE
    OBVIOUS
  <2>2. Ext(t, s)
    BY <2>1, <1>1 DEF Ext
  <2>3. Len(t) - 1 \in Starts(s, f) /\ Len(t) - 1 # Len(s) + 1
    BY <1>1, <1>3, <1>4, <2>1, <2>2, ExtBreaks
  <2>4. PICK j \in Breaks(s, f) : j > Len(t) - 1
    BY <1>2, <2>3 DEF InHeaders, Lines
  <2>5. j \in f .. Len(s) - 1
    BY DEF Breaks
  <2> QED
    BY <1>1, <2>1, <2>4, <2>5
<1>6. Len(t) > Len(s) /\ Len(s) + 1 # Len(t) + 1
  BY <1>1, <1>5
<1>7. CASE Len(s) + 1 = Len(t) - 1
  BY <1>4, <1>6, <1>7
<1>8. CASE Len(s) + 1 # Len(t) - 1
  <2>1. PICK j \in Nat : IsHeader(t, Len(s) + 1, j)
    BY <1>3, <1>6, <1>8, LineOfRequest
  <2>2. PICK k \in (Len(s) + 1) + 1 .. j - 2 : \A m \in Len(s) + 1 .. k - 1 : IsToken(t[m])
    BY <2>1 DEF IsHeader
  <2>3. IsToken(t[Len(s) + 1])
    <3>1. Len(s) + 1 \in Len(s) + 1 .. k - 1
      BY <1>1, <2>2
    <3> QED
      BY <3>1, <2>2
  <2>4. PICK u \in Text : OneMore(s, u) /\ u[Len(s) + 1] = t[Len(s) + 1] /\ Ext(u, t)
    BY <1>6, NextByte
  <2>5. Len(s) + 1 \in Characters(u, f)
    BY <1>2, <2>3, <2>4, LineCharacter
  <2>6. tot # MaxHeaders
    BY <1>2, <1>3, <2>4, <2>5, RoomForOne DEF InHeaders
  <2> QED
    BY <1>6, <2>3, <2>6
<1> QED
  BY <1>7, <1>8

\* The header line that begins at g with a token.
LEMMA HeaderOfRequest ==
    ASSUME NEW s \in Text, NEW t \in Text, Ext(s, t), TakenRequest(t), NEW f \in Nat, NEW g \in Nat, NEW tot,
           InHeaders(s, f, g, tot), g <= Len(s), IsToken(s[g])
    PROVE  \E j \in Nat : j < Len(t) /\ t[j] = CR /\ t[j + 1] = LF /\ IsHeader(t, g, j)
<1>1. Len(s) \in Nat /\ Len(t) \in Nat /\ Len(s) <= Len(t)
  BY TextFacts DEF Ext
<1>2. f \in Nat \ {0} /\ IsHeaders(t, f) /\ g \in Starts(t, f) /\ g >= 1
  BY SameHeaders, HeadersFacts
<1>3. g \in 1 .. Len(s) /\ g # Len(t) + 1
  BY <1>1, <1>2
<1>4. s[g] # CR /\ t[g] = s[g]
  <2>1. s[g] \in 0 .. 255
    BY <1>3, TextFacts
  <2> QED
    BY <2>1, <1>3, ParserBytes DEF Ext
<1>5. g # Len(t) - 1
  BY <1>2, <1>4, LastLineOfRequest
<1> QED
  BY <1>2, <1>3, <1>5, LineOfRequest

LEMMA WantsName ==
    ASSUME NEW s \in Text, NEW t \in Text, Ext(s, t), TakenRequest(t), NEW tot, InName(s, tot)
    PROVE  Len(t) > Len(s) /\ (t[Len(s) + 1] = Colon \/ (IsToken(t[Len(s) + 1]) /\ tot # MaxHeaders))
<1>1. Len(s) \in Nat /\ Len(t) \in Nat /\ Len(s) <= Len(t)
  BY TextFacts DEF Ext
<1>2. PICK f, g \in Nat : InHeaders(s, f, g, tot) /\ Named(s, g, Len(s))
  BY DEF InName
<1>3. f \in Nat \ {0} /\ IsHeaders(t, f) /\ g >= 1
  BY <1>2, SameHeaders, HeadersFacts
<1>4. g <= Len(s) /\ IsToken(s[g])
  <2>1. g <= Len(s)
    BY <1>2 DEF Named
  <2>2. g \in g .. Len(s)
    BY <2>1, <1>1
  <2> QED
    BY <2>1, <2>2, <1>2 DEF Named
<1>5. PICK j \in Nat : j < Len(t) /\ IsHeader(t, g, j)
  BY <1>2, <1>4, HeaderOfRequest
<1>6. PICK k \in g + 1 .. j - 2 : t[k] = Colon /\ \A m \in g .. k - 1 : IsToken(t[m])
  BY <1>5 DEF IsHeader
<1>7. k > Len(s)
  <2>1. SUFFICES ASSUME k <= Len(s) PROVE FALSE
    BY <1>1
  <2>2. k \in g .. Len(s) /\ k \in 1 .. Len(s)
    BY <1>1, <1>3, <2>1
  <2>3. IsToken(t[k]) /\ t[k] \in 0 .. 255
    BY <1>2, <2>2, TextFacts DEF Named, Ext
  <2> QED
    BY <1>6, <2>3, ParserBytes
<1>8. Len(t) > Len(s) /\ (k = Len(s) + 1 \/ Len(s) + 1 \in g .. k - 1)
  BY <1>1, <1>4, <1>5, <1>7
<1>9. CASE k = Len(s) + 1
  BY <1>6, <1>8, <1>9
<1>10. CASE Len(s) + 1 \in g .. k - 1
  <2>1. IsToken(t[Len(s) + 1])
    BY <1>6, <1>10
  <2>2. PICK u \in Text : OneMore(s, u) /\ u[Len(s) + 1] = t[Len(s) + 1] /\ Ext(u, t)
    BY <1>8, NextByte
  <2>3. Len(s) + 1 \in Characters(u, f)
    BY <1>2, <2>1, <2>2, NameCharacter
  <2>4. tot # MaxHeaders
    BY <1>2, <1>3, <2>2, <2>3, RoomForOne DEF InHeaders
  <2> QED
    BY <1>8, <2>1, <2>4
<1> QED
  BY <1>8, <1>9, <1>10

\* The colon that the header line at g has is the first one.
LEMMA SameColon ==
    ASSUME NEW t \in Text, NEW g \in Nat \ {0}, NEW j \in Nat, j < Len(t), IsHeader(t, g, j), NEW n \in Nat, n >= g, n <= Len(t),
           \A m \in g .. n - 1 : IsToken(t[m]), t[n] = Colon
    PROVE  n \in g + 1 .. j - 2 /\ t[n + 1] = SP /\ \A m \in n + 2 .. j - 1 : ~IsCtl(t[m])
<1>1. Len(t) \in Nat
  BY TextFacts
<1>2. PICK k \in g + 1 .. j - 2 : /\ t[k] = Colon /\ t[k + 1] = SP
                                  /\ \A m \in g .. k - 1 : IsToken(t[m])
                                  /\ \A m \in k + 2 .. j - 1 : ~IsCtl(t[m])
  BY DEF IsHeader
<1>3. k \in 1 .. Len(t) /\ n \in 1 .. Len(t)
  BY <1>1
<1>4. ~IsToken(t[k]) /\ ~IsToken(t[n])
  BY <1>2, <1>3, TextFacts, ParserBytes
<1>5. ~(k \in g .. n - 1) /\ ~(n \in g .. k - 1)
  BY <1>2, <1>4
<1>6. k = n
  BY <1>5
<1> QED
  BY <1>2, <1>6

LEMMA WantsSpace ==
    ASSUME NEW s \in Text, NEW t \in Text, Ext(s, t), TakenRequest(t), NEW tot, InSpace(s, tot)
    PROVE  Len(t) > Len(s) /\ t[Len(s) + 1] = SP
<1>1. Len(s) \in Nat /\ Len(t) \in Nat /\ Len(s) <= Len(t)
  BY TextFacts DEF Ext
<1>2. PICK f, g \in Nat : InHeaders(s, f, g, tot) /\ Named(s, g, Len(s) - 1) /\ s[Len(s)] = Colon
  BY DEF InSpace
<1>3. g \in Nat \ {0}
  BY <1>2, HeadersFacts
<1>4. g <= Len(s) - 1 /\ g <= Len(s) /\ Len(s) >= g /\ g \in g .. Len(s) - 1 /\ Len(s) \in 1 .. Len(s) /\ \A m \in g .. Len(s) - 1 : m \in 1 .. Len(s)
  BY <1>1, <1>2, <1>3 DEF Named
<1>5. PICK j \in Nat : j < Len(t) /\ IsHeader(t, g, j)
  BY <1>2, <1>4, HeaderOfRequest DEF Named
<1>6. t[Len(s)] = Colon /\ \A m \in g .. Len(s) - 1 : IsToken(t[m])
  BY <1>2, <1>4 DEF Named, Ext
<1>7. Len(s) \in g + 1 .. j - 2 /\ t[Len(s) + 1] = SP
  BY <1>1, <1>3, <1>4, <1>5, <1>6, SameColon
<1> QED
  BY <1>1, <1>5, <1>7

LEMMA WantsValue ==
    ASSUME NEW s \in Text, NEW t \in Text, Ext(s, t), TakenRequest(t), NEW tot, InValue(s, tot)
    PROVE  Len(t) > Len(s) /\ (t[Len(s) + 1] = CR \/ (~IsCtl(t[Len(s) + 1]) /\ tot # MaxHeaders))
<1>1. Len(s) \in Nat /\ Len(t) \in Nat /\ Len(s) <= Len(t) /\ \A i \in 1 .. Len(s) : t[i] = s[i] /\ s[i] \in 0 .. 255
  BY TextFacts DEF Ext
<1>2. PICK f, g \in Nat : InHeaders(s, f, g, tot) /\ IsHeader(s, g, Len(s) + 1)
  BY DEF InValue
<1>3. f \in Nat \ {0} /\ IsHeaders(t, f) /\ g \in Nat \ {0}
  BY <1>2, SameHeaders, HeadersFacts
<1>4. PICK k \in g + 1 .. (Len(s) + 1) - 2 : /\ s[k] = Colon /\ s[k + 1] = SP
                                             /\ \A m \in g .. k - 1 : IsToken(s[m])
                                             /\ \A m \in k + 2 .. (Len(s) + 1) - 1 : ~IsCtl(s[m])
  BY <1>2 DEF IsHeader
<1>5. /\ g <= Len(s) /\ g \in g .. k - 1 /\ k \in Nat /\ k >= g /\ k <= Len(t) /\ k < Len(s) /\ k \in 1 .. Len(s)
      /\ \A m \in g .. k - 1 : m \in 1 .. Len(s)
  BY <1>1, <1>3
<1>6. PICK j \in Nat : j < Len(t) /\ t[j] = CR /\ IsHeader(t, g, j)
  BY <1>2, <1>4, <1>5, HeaderOfRequest
<1>7. t[k] = Colon /\ \A m \in g .. k - 1 : IsToken(t[m])
  BY <1>1, <1>4, <1>5
<1>8. k \in g + 1 .. j - 2 /\ \A m \in k + 2 .. j - 1 : ~IsCtl(t[m])
  BY <1>3, <1>5, <1>6, <1>7, SameColon
<1>9. j > Len(s)
  <2>1. SUFFICES ASSUME j <= Len(s) PROVE FALSE
    BY <1>1
  <2>2. j \in k + 2 .. (Len(s) + 1) - 1 /\ j \in 1 .. Len(s)
    BY <1>1, <1>5, <1>8, <2>1
  <2> QED
    BY <1>1, <1>4, <1>6, <2>2, ParserBytes
<1>10. Len(t) > Len(s) /\ (j = Len(s) + 1 \/ Len(s) + 1 \in k + 2 .. j - 1)
  <2>1. Len(s) \in Nat /\ Len(t) \in Nat /\ j \in Nat /\ k \in Nat /\ k < Len(s) /\ j > Len(s) /\ j < Len(t)
    BY <1>1, <1>5, <1>6, <1>9
  <2> QED
    BY ONLY <2>1
<1>11. CASE j = Len(s) + 1
  BY <1>6, <1>10, <1>11
<1>12. CASE Len(s) + 1 \in k + 2 .. j - 1
  <2>1. ~IsCtl(t[Len(s) + 1])
    BY <1>8, <1>12
  <2>2. PICK u \in Text : OneMore(s, u) /\ u[Len(s) + 1] = t[Len(s) + 1] /\ Ext(u, t)
    BY <1>10, NextByte
  <2>3. Len(s) + 1 \in Characters(u, f)
    BY <1>2, <2>1, <2>2, ValueCharacter
  <2>4. tot # MaxHeaders
    BY <1>2, <1>3, <2>2, <2>3, RoomForOne DEF InHeaders
  <2> QED
    BY <1>10, <2>1, <2>4
<1> QED
  BY <1>10, <1>11, <1>12

LEMMA WantsNewline2 ==
    ASSUME NEW s \in Text, NEW t \in Text, Ext(s, t), TakenRequest(t), NEW tot, InNewline2(s, tot)
    PROVE  Len(t) > Len(s) /\ t[Len(s) + 1] = LF
<1>1. Len(s) \in Nat /\ Len(t) \in Nat /\ Len(s) <= Len(t) /\ \A i \in 1 .. Len(s) : t[i] = s[i] /\ s[i] \in 0 .. 255
  BY TextFacts DEF Ext
<1>2. PICK f, g \in Nat : InHeaders(s, f, g, tot) /\ IsHeader(s, g, Len(s)) /\ s[Len(s)] = CR
  BY DEF InNewline2
<1>3. g \in Nat \ {0}
  BY <1>2, HeadersFacts
<1>4. PICK k \in g + 1 .. Len(s) - 2 : /\ s[k] = Colon /\ s[k + 1] = SP
                                       /\ \A m \in g .. k - 1 : IsToken(s[m])
                                       /\ \A m \in k + 2 .. Len(s) - 1 : ~IsCtl(s[m])
  BY <1>2 DEF IsHeader
<1>5. /\ g <= Len(s) /\ g \in g .. k - 1 /\ k \in Nat /\ k >= g /\ k <= Len(t) /\ k + 2 <= Len(s) /\ k \in 1 .. Len(s)
      /\ Len(s) \in 1 .. Len(s) /\ \A m \in g .. k - 1 : m \in 1 .. Len(s)
  BY <1>1, <1>3
<1>6. PICK j \in Nat : j < Len(t) /\ t[j] = CR /\ t[j + 1] = LF /\ IsHeader(t, g, j)
  BY <1>2, <1>4, <1>5, HeaderOfRequest
<1>7. t[k] = Colon /\ \A m \in g .. k - 1 : IsToken(t[m])
  BY <1>1, <1>4, <1>5
<1>8. k \in g + 1 .. j - 2 /\ \A m \in k + 2 .. j - 1 : ~IsCtl(t[m])
  BY <1>3, <1>5, <1>6, <1>7, SameColon
<1>9. IsCtl(CR)
  BY DEF IsCtl, CR
<1>10. ~(Len(s) \in k + 2 .. j - 1)
  BY <1>1, <1>2, <1>5, <1>8, <1>9
<1>11. ~(j \in k + 2 .. Len(s) - 1)
  <2>1. SUFFICES ASSUME j \in k + 2 .. Len(s) - 1 PROVE FALSE
    OBVIOUS
  <2>2. j \in 1 .. Len(s)
    BY <1>1, <1>5, <2>1
  <2> QED
    BY <1>1, <1>4, <1>6, <1>9, <2>1, <2>2
<1>12. j = Len(s)
  BY <1>1, <1>5, <1>8, <1>10, <1>11
<1> QED
  BY <1>1, <1>6, <1>12

LEMMA WantsNewline3 ==
    ASSUME NEW s \in Text, NEW t \in Text, Ext(s, t), TakenRequest(t), NEW tot, InNewline3(s, tot)
    PROVE  Len(t) > Len(s) /\ t[Len(s) + 1] = LF
<1>1. Len(s) \in Nat /\ Len(t) \in Nat /\ Len(s) <= Len(t) /\ \A i \in 1 .. Len(s) : t[i] = s[i] /\ s[i] \in 0 .. 255
  BY TextFacts DEF Ext
<1>2. PICK f \in Nat : InHeaders(s, f, Len(s), tot) /\ s[Len(s)] = CR
  BY DEF InNewline3
<1>3. f \in Nat \ {0} /\ IsHeaders(t, f) /\ Len(s) \in Starts(t, f) /\ Len(s) >= 1
  BY <1>2, SameHeaders, HeadersFacts
<1>4. Len(s) \in 1 .. Len(s) /\ Len(s) # Len(t) + 1
  BY <1>1, <1>3
<1>5. t[Len(s)] = CR
  BY <1>1, <1>2, <1>4
<1>6. CASE Len(s) = Len(t) - 1
  <2>1. Len(s) + 1 = Len(t)
    BY <1>1, <1>6
  <2>2. t[Len(t)] = LF
    BY <1>3, LastLineOfRequest
  <2> QED
    BY <1>1, <2>1, <2>2
<1>7. CASE Len(s) # Len(t) - 1
  <2>1. PICK j \in Nat : IsHeader(t, Len(s), j)
    BY <1>3, <1>4, <1>7, LineOfRequest
  <2>2. PICK k \in Len(s) + 1 .. j - 2 : \A m \in Len(s) .. k - 1 : IsToken(t[m])
    BY <2>1 DEF IsHeader
  <2>3. Len(s) \in Len(s) .. k - 1
    BY <1>1, <2>2
  <2>4. IsToken(CR)
    BY <1>5, <2>2, <2>3
  <2> QED
    BY <2>4, ParserBytes
<1> QED
  BY <1>6, <1>7

\* Every beginning that is not given up is completed by an end of the sample.
Rest(i)         == SubSeq(Sample, i, Len(Sample))
Completes(s, i) == IsRequest(s \o Rest(i))

LEMMA SampleFacts ==
    /\ Sample \in Seq(0 .. 255) /\ Len(Sample) = 21
    /\ Sample[1] = 80 /\ Sample[2] = SP /\ Sample[3] = 47 /\ Sample[4] = SP
    /\ \A j \in 0 .. 6 : Sample[j + 5] = HttpOne[j + 1]
    /\ Sample[12] = 49 /\ Sample[13] = CR /\ Sample[14] = LF /\ Sample[15] = 80 /\ Sample[16] = Colon
    /\ Sample[17] = SP /\ Sample[18] = CR /\ Sample[19] = LF /\ Sample[20] = CR /\ Sample[21] = LF
<1>1. Sample \in Seq(0 .. 255)
  BY DEF Sample, SP, CR, LF, Colon
<1>2. /\ Len(Sample) = 21
      /\ Sample[1] = 80 /\ Sample[2] = SP /\ Sample[3] = 47 /\ Sample[4] = SP
      /\ Sample[12] = 49 /\ Sample[13] = CR /\ Sample[14] = LF /\ Sample[15] = 80 /\ Sample[16] = Colon
      /\ Sample[17] = SP /\ Sample[18] = CR /\ Sample[19] = LF /\ Sample[20] = CR /\ Sample[21] = LF
  BY DEF Sample
<1>3. /\ Sample[5] = 72 /\ Sample[6] = 84 /\ Sample[7] = 84 /\ Sample[8] = 80 /\ Sample[9] = 47 /\ Sample[10] = 49
      /\ Sample[11] = 46
  BY DEF Sample
<1>4. /\ HttpOne[1] = 72 /\ HttpOne[2] = 84 /\ HttpOne[3] = 84 /\ HttpOne[4] = 80 /\ HttpOne[5] = 47 /\ HttpOne[6] = 49
      /\ HttpOne[7] = 46
  BY DEF HttpOne
<1>5. ASSUME NEW j \in 0 .. 6 PROVE Sample[j + 5] = HttpOne[j + 1]
  <2>1. j = 0 \/ j = 1 \/ j = 2 \/ j = 3 \/ j = 4 \/ j = 5 \/ j = 6
    OBVIOUS
  <2> QED
    BY <2>1, <1>3, <1>4
<1> QED
  BY <1>1, <1>2, <1>5

LEMMA RestStep ==
    ASSUME NEW s \in Text, NEW i \in 1 .. 21
    PROVE  s \o Rest(i) = Append(s, Sample[i]) \o Rest(i + 1) /\ Sample[i] \in 0 .. 255
<1>1. Sample \in Seq(0 .. 255) /\ Len(Sample) = 21 /\ Len(s) \in Nat /\ s \in Seq(0 .. 255)
  BY SampleFacts, TextFacts DEF Text
<1>2. Sample[i] \in 0 .. 255
  BY <1>1, ElementOfSeq
<1>3. i \in 1 .. Len(Sample) /\ Len(Sample) \in i .. Len(Sample)
  BY <1>1
<1>4. Rest(i) = <<Sample[i]>> \o Rest(i + 1)
  BY <1>1, <1>3, SubSeqRecursiveFirst DEF Rest
<1>5. Rest(i + 1) \in Seq(0 .. 255)
  <2>1. \A m \in i + 1 .. 21 : m \in 1 .. Len(Sample)
    BY <1>1
  <2>4. ASSUME NEW m \in 1 .. Len(Sample) PROVE Sample[m] \in 0 .. 255
    BY <1>1, ElementOfSeq
  <2>2. \A m \in i + 1 .. 21 : Sample[m] \in 0 .. 255
    BY <2>1, <2>4
  <2>3. SubSeq(Sample, i + 1, 21) \in Seq(0 .. 255)
    BY <2>2, SubSeqProperties
  <2> QED
    BY <2>3, <1>1 DEF Rest
<1>6. <<Sample[i]>> \in Seq(0 .. 255)
  BY <1>2
<1>7. s \o (<<Sample[i]>> \o Rest(i + 1)) = (s \o <<Sample[i]>>) \o Rest(i + 1)
  <2>1. PICK x, y : x = <<Sample[i]>> /\ y = Rest(i + 1)
    OBVIOUS
  <2>2. x \in Seq(0 .. 255) /\ y \in Seq(0 .. 255) /\ s \in Seq(0 .. 255)
    BY <2>1, <1>1, <1>5, <1>6
  <2>3. s \o (x \o y) = (s \o x) \o y
    BY <2>2, ConcatAssociative
  <2> QED
    BY <2>1, <2>3
<1>8. s \o <<Sample[i]>> = Append(s, Sample[i])
  BY <1>1, <1>2, AppendIsConcat
<1> QED
  BY <1>2, <1>4, <1>7, <1>8

LEMMA CompletesStep ==
    ASSUME NEW s \in Text, NEW i \in 1 .. 21, Completes(Append(s, Sample[i]), i + 1)
    PROVE  Completes(s, i)
BY RestStep DEF Completes

LEMMA CompletesByte ==
    ASSUME NEW s \in Text, NEW i \in 1 .. 21
    PROVE  Append(s, Sample[i]) \in Text
BY RestStep, OneMoreByte

LEMMA CompletesAll ==
    ASSUME NEW s \in Text
    PROVE  Completes(s, 22) <=> IsRequest(s)
<1>1. Rest(22) = <<>>
  <2>1. Len(Sample) = 21 /\ Sample \in Seq(0 .. 255)
    BY SampleFacts
  <2>2. SubSeq(Sample, 22, 21) = <<>>
    BY <2>1, SubSeqEmpty
  <2> QED
    BY <2>1, <2>2 DEF Rest
<1>2. s \o <<>> = s
  BY ConcatEmptySeq DEF Text
<1> QED
  BY <1>1, <1>2 DEF Completes

LEMMA StrictStep ==
    ASSUME NEW u \in Text, Strict(u), NEW i \in 1 .. 21
    PROVE  Append(u, Sample[i]) \in Text /\ Strict(Append(u, Sample[i]))
BY RestStep, OneMoreByte, StrictExt

LEMMA HeadersComplete ==
    ASSUME NEW s \in Text, NEW tot, Strict(s)
    PROVE  /\ InNewline3(s, tot) => Completes(s, 21)
           /\ InLine(s, tot) => Completes(s, 20)
           /\ InNewline2(s, tot) => Completes(s, 19)
           /\ InValue(s, tot) => Completes(s, 18)
           /\ InSpace(s, tot) => Completes(s, 17)
           /\ InName(s, tot) => Completes(s, 16)
<1>1. ASSUME NEW u \in Text, Strict(u), InNewline3(u, tot) PROVE Completes(u, 21)
  <2>1. 21 \in 1 .. 21 /\ 21 + 1 = 22 /\ Sample[21] = LF
    BY SampleFacts
  <2>3. TakenRequest(Append(u, LF)) /\ Append(u, LF) \in Text /\ Strict(Append(u, LF))
    BY <1>1, <2>1, RequestEnds, StrictStep
  <2>2. IsRequest(Append(u, LF)) /\ Append(u, LF) \in Text
    BY <2>3, RequestIsTaken
  <2> QED
    BY <2>1, <2>2, CompletesAll, CompletesStep
<1>2. ASSUME NEW u \in Text, Strict(u), InLine(u, tot) PROVE Completes(u, 20)
  <2>1. 20 \in 1 .. 21 /\ 20 + 1 = 21 /\ Sample[20] = CR
    BY SampleFacts
  <2>2. Append(u, CR) \in Text /\ Strict(Append(u, CR))
    BY <2>1, <1>2, StrictStep
  <2>3. Completes(Append(u, CR), 21)
    BY <1>1, <1>2, <2>2, LastLineBegins
  <2> QED
    BY <2>1, <2>3, CompletesStep
<1>3. ASSUME NEW u \in Text, Strict(u), InNewline2(u, tot) PROVE Completes(u, 19)
  <2>1. 19 \in 1 .. 21 /\ 19 + 1 = 20 /\ Sample[19] = LF
    BY SampleFacts
  <2>2. Append(u, LF) \in Text /\ Strict(Append(u, LF))
    BY <2>1, <1>3, StrictStep
  <2>3. Completes(Append(u, LF), 20)
    BY <1>2, <1>3, <2>2, HeaderEnds
  <2> QED
    BY <2>1, <2>3, CompletesStep
<1>4. ASSUME NEW u \in Text, Strict(u), InValue(u, tot) PROVE Completes(u, 18)
  <2>1. 18 \in 1 .. 21 /\ 18 + 1 = 19 /\ Sample[18] = CR
    BY SampleFacts
  <2>2. Append(u, CR) \in Text /\ Strict(Append(u, CR))
    BY <2>1, <1>4, StrictStep
  <2>3. Completes(Append(u, CR), 19)
    BY <1>3, <1>4, <2>2, ValueEnds
  <2> QED
    BY <2>1, <2>3, CompletesStep
<1>5. ASSUME NEW u \in Text, Strict(u), InSpace(u, tot) PROVE Completes(u, 17)
  <2>1. 17 \in 1 .. 21 /\ 17 + 1 = 18 /\ Sample[17] = SP
    BY SampleFacts
  <2>2. Append(u, SP) \in Text /\ Strict(Append(u, SP))
    BY <2>1, <1>5, StrictStep
  <2>3. Completes(Append(u, SP), 18)
    BY <1>4, <1>5, <2>2, ValueBegins
  <2> QED
    BY <2>1, <2>3, CompletesStep
<1>6. ASSUME NEW u \in Text, Strict(u), InName(u, tot) PROVE Completes(u, 16)
  <2>1. 16 \in 1 .. 21 /\ 16 + 1 = 17 /\ Sample[16] = Colon
    BY SampleFacts
  <2>2. Append(u, Colon) \in Text /\ Strict(Append(u, Colon))
    BY <2>1, <1>6, StrictStep
  <2>3. Completes(Append(u, Colon), 17)
    BY <1>5, <1>6, <2>2, NameEnds
  <2> QED
    BY <2>1, <2>3, CompletesStep
<1> QED
  BY <1>1, <1>2, <1>3, <1>4, <1>5, <1>6

\* The last digit of the minor version, before and after the CR.
LEMMA MinorBeforeNewline ==
    ASSUME NEW s \in Text, NEW m, InMinor(s, m)
    PROVE  /\ Append(s, CR)[Len(Append(s, CR)) - 1] - 48 = m
           /\ m \in {0, 1} => Append(s, CR)[Len(Append(s, CR)) - 1] \in {48, 49}
<1>1. PICK a, b \in Nat : Len(s) >= b + 8 /\ m = s[Len(s)] - 48
  BY DEF InMinor
<1>2. Len(s) \in Nat /\ CR \in 0 .. 255
  BY TextFacts, ParserBytes
<1>3. Len(s) \in 1 .. Len(s) /\ s[Len(s)] \in Int
  <2>1. Len(s) \in 1 .. Len(s)
    BY <1>1, <1>2
  <2> QED
    BY <2>1, TextFacts
<1>4. PICK u : u = Append(s, CR)
  OBVIOUS
<1>5. Len(u) - 1 = Len(s) /\ u[Len(s)] = s[Len(s)]
  BY <1>2, <1>3, <1>4, OneMoreByte DEF Ext
<1>6. s[Len(s)] - 48 \in {0, 1} => s[Len(s)] \in {48, 49}
  BY <1>3
<1> QED
  BY <1>1, <1>4, <1>5, <1>6

LEMMA NewlineIsStrict ==
    ASSUME NEW s \in Text, InNewline1(s), s[Len(s) - 1] \in {48, 49}
    PROVE  Strict(Append(s, LF))
<1>1. FirstLine(Append(s, LF), Len(s) + 2) /\ (Len(s) + 2) - 3 = Len(s) - 1
  BY NewlineFirstLine
<1>2. Append(s, LF)[(Len(s) + 2) - 3] \in {48, 49}
  BY <1>1, NewlineFirstLine
<1> QED
  BY <1>1, <1>2 DEF Strict

LEMMA EndOfLineCompletes ==
    ASSUME NEW s \in Text
    PROVE  /\ InNewline1(s) /\ s[Len(s) - 1] \in {48, 49} => Completes(s, 14)
           /\ \A m : InMinor(s, m) /\ m \in {0, 1} => Completes(s, 13)
           /\ InVersion(s, 7) => Completes(s, 12)
<1>1. ASSUME NEW u \in Text, Strict(u), InLine(u, 0) PROVE Completes(u, 15)
  <2>1. 15 \in 1 .. 21 /\ 15 + 1 = 16 /\ Sample[15] = 80 /\ 80 \in 0 .. 255
    BY SampleFacts
  <2>2. Append(u, 80) \in Text /\ Strict(Append(u, 80))
    BY <1>1, <2>1, StrictStep
  <2>3. InName(Append(u, 80), 0 + 1)
    <3>1. 0 # MaxHeaders /\ IsToken(80)
      BY ParserLimits, ParserBytes
    <3> QED
      BY <3>1, <1>1, <2>1, NameBegins
  <2>4. Completes(Append(u, 80), 16)
    BY <2>2, <2>3, HeadersComplete
  <2> QED
    BY <2>1, <2>4, CompletesStep
<1>2. ASSUME NEW u \in Text, InNewline1(u), u[Len(u) - 1] \in {48, 49} PROVE Completes(u, 14)
  <2>1. 14 \in 1 .. 21 /\ 14 + 1 = 15 /\ Sample[14] = LF
    BY SampleFacts
  <2>2. Append(u, LF) \in Text
    BY <2>1, CompletesByte
  <2>4. Strict(Append(u, LF))
    BY <1>2, NewlineIsStrict
  <2>3. Completes(Append(u, LF), 15)
    BY <1>1, <1>2, <2>2, <2>4, LineBegins
  <2> QED
    BY <2>1, <2>3, CompletesStep
<1>3. ASSUME NEW u \in Text, NEW m \in {0, 1}, InMinor(u, m) PROVE Completes(u, 13)
  <2>1. 13 \in 1 .. 21 /\ 13 + 1 = 14 /\ Sample[13] = CR
    BY SampleFacts
  <2>2. Append(u, CR) \in Text
    BY <2>1, CompletesByte
  <2>4. Append(u, CR)[Len(Append(u, CR)) - 1] \in {48, 49}
    BY <1>3, MinorBeforeNewline
  <2>3. Completes(Append(u, CR), 14)
    BY <1>2, <1>3, <2>2, <2>4, MinorEnds
  <2> QED
    BY <2>1, <2>3, CompletesStep
<1>4. ASSUME NEW u \in Text, InVersion(u, 7) PROVE Completes(u, 12)
  <2>1. 12 \in 1 .. 21 /\ 12 + 1 = 13 /\ Sample[12] = 49 /\ 49 \in {48, 49}
    BY SampleFacts
  <2>2. Append(u, 49) \in Text
    BY <2>1, CompletesByte
  <2>3. InMinor(Append(u, 49), 49 - 48)
    BY <1>4, <2>1, MinorBegins
  <2>4. Completes(Append(u, 49), 13)
    <3>1. 49 - 48 \in {0, 1}
      OBVIOUS
    <3> QED
      BY <1>3, <2>2, <2>3, <3>1
  <2> QED
    BY <2>1, <2>4, CompletesStep
<1> QED
  BY <1>2, <1>3, <1>4

LEMMA VersionStepCompletes ==
    ASSUME NEW j \in 0 .. 6, \A u \in Text : InVersion(u, j + 1) => Completes(u, (j + 5) + 1)
    PROVE  \A u \in Text : InVersion(u, j) => Completes(u, j + 5)
<1>1. SUFFICES ASSUME NEW u \in Text, InVersion(u, j) PROVE Completes(u, j + 5)
  OBVIOUS
<1>2. j + 5 \in 1 .. 21 /\ Sample[j + 5] = HttpOne[j + 1]
  <2>1. \A i \in 0 .. 6 : Sample[i + 5] = HttpOne[i + 1]
    BY SampleFacts
  <2>2. Sample[j + 5] = HttpOne[j + 1]
    BY <2>1
  <2>3. j + 5 \in 1 .. 21
    OBVIOUS
  <2> QED
    BY <2>2, <2>3
<1>3. PICK c : c = Sample[j + 5]
  OBVIOUS
<1>4. c \in 0 .. 255 /\ Append(u, c) \in Text
  BY <1>2, <1>3, RestStep, CompletesByte
<1>5. InVersion(Append(u, c), j + 1)
  BY <1>1, <1>2, <1>3, <1>4, VersionGoesOn
<1>6. Completes(Append(u, Sample[j + 5]), (j + 5) + 1)
  BY <1>3, <1>4, <1>5
<1> QED
  BY <1>2, <1>6, CompletesStep

LEMMA VersionCompletes == \A j \in 0 .. 7 : \A s \in Text : InVersion(s, j) => Completes(s, j + 5)
<1>7. \A s \in Text : InVersion(s, 7) => Completes(s, 12)
  BY EndOfLineCompletes
<1>6. \A s \in Text : InVersion(s, 6) => Completes(s, 11)
  <2>1. 6 \in 0 .. 6 /\ 6 + 1 = 7 /\ (6 + 5) + 1 = 12 /\ 6 + 5 = 11
    OBVIOUS
  <2> QED
    BY <2>1, <1>7, VersionStepCompletes
<1>5. \A s \in Text : InVersion(s, 5) => Completes(s, 10)
  <2>1. 5 \in 0 .. 6 /\ 5 + 1 = 6 /\ (5 + 5) + 1 = 11 /\ 5 + 5 = 10
    OBVIOUS
  <2> QED
    BY <2>1, <1>6, VersionStepCompletes
<1>4. \A s \in Text : InVersion(s, 4) => Completes(s, 9)
  <2>1. 4 \in 0 .. 6 /\ 4 + 1 = 5 /\ (4 + 5) + 1 = 10 /\ 4 + 5 = 9
    OBVIOUS
  <2> QED
    BY <2>1, <1>5, VersionStepCompletes
<1>3. \A s \in Text : InVersion(s, 3) => Completes(s, 8)
  <2>1. 3 \in 0 .. 6 /\ 3 + 1 = 4 /\ (3 + 5) + 1 = 9 /\ 3 + 5 = 8
    OBVIOUS
  <2> QED
    BY <2>1, <1>4, VersionStepCompletes
<1>2. \A s \in Text : InVersion(s, 2) => Completes(s, 7)
  <2>1. 2 \in 0 .. 6 /\ 2 + 1 = 3 /\ (2 + 5) + 1 = 8 /\ 2 + 5 = 7
    OBVIOUS
  <2> QED
    BY <2>1, <1>3, VersionStepCompletes
<1>1. \A s \in Text : InVersion(s, 1) => Completes(s, 6)
  <2>1. 1 \in 0 .. 6 /\ 1 + 1 = 2 /\ (1 + 5) + 1 = 7 /\ 1 + 5 = 6
    OBVIOUS
  <2> QED
    BY <2>1, <1>2, VersionStepCompletes
<1>0. \A s \in Text : InVersion(s, 0) => Completes(s, 5)
  <2>1. 0 \in 0 .. 6 /\ 0 + 1 = 1 /\ (0 + 5) + 1 = 6 /\ 0 + 5 = 5
    OBVIOUS
  <2> QED
    BY <2>1, <1>1, VersionStepCompletes
<1> QED
  <2>1. SUFFICES ASSUME NEW j \in 0 .. 7, NEW s \in Text, InVersion(s, j) PROVE Completes(s, j + 5)
    OBVIOUS
  <2>2. j = 0 \/ j = 1 \/ j = 2 \/ j = 3 \/ j = 4 \/ j = 5 \/ j = 6 \/ j = 7
    OBVIOUS
  <2>3. 0 + 5 = 5 /\ 1 + 5 = 6 /\ 2 + 5 = 7 /\ 3 + 5 = 8 /\ 4 + 5 = 9 /\ 5 + 5 = 10 /\ 6 + 5 = 11 /\ 7 + 5 = 12
    OBVIOUS
  <2> QED
    BY <2>1, <2>2, <2>3, <1>0, <1>1, <1>2, <1>3, <1>4, <1>5, <1>6, <1>7

LEMMA MethodAndUriComplete ==
    ASSUME NEW s \in Text
    PROVE  /\ \A n : InUri(s, n) => Completes(s, IF n # 0 THEN 4 ELSE 3)
           /\ \A n : InMethod(s, n) => Completes(s, 2)
           /\ s = <<>> => Completes(s, 1)
<1>1. ASSUME NEW u \in Text, NEW n, n # 0, InUri(u, n) PROVE Completes(u, 4)
  <2>1. 4 \in 1 .. 21 /\ 4 + 1 = 5 /\ Sample[4] = SP
    BY SampleFacts
  <2>2. Append(u, SP) \in Text
    BY <2>1, CompletesByte
  <2>3. InVersion(Append(u, SP), 0)
    BY <1>1, UriEnds
  <2>4. Completes(Append(u, SP), 5)
    <3>1. 0 \in 0 .. 7 /\ 0 + 5 = 5
      OBVIOUS
    <3> QED
      BY <2>2, <2>3, <3>1, VersionCompletes
  <2> QED
    BY <2>1, <2>4, CompletesStep
<1>2. ASSUME NEW u \in Text, InUri(u, 0) PROVE Completes(u, 3)
  <2>1. 3 \in 1 .. 21 /\ 3 + 1 = 4 /\ Sample[3] = 47 /\ 47 \in 0 .. 255
    BY SampleFacts
  <2>2. Append(u, 47) \in Text
    BY <2>1, CompletesByte
  <2>3. InUri(Append(u, 47), 0 + 1)
    <3>1. 0 # MaxUri /\ ~IsCtl(47) /\ 47 # SP
      BY ParserLimits, ParserBytes DEF SP
    <3> QED
      BY <3>1, <1>2, <2>1, UriGoesOn
  <2>4. Completes(Append(u, 47), 4)
    BY <1>1, <2>2, <2>3
  <2> QED
    BY <2>1, <2>4, CompletesStep
<1>3. ASSUME NEW u \in Text, NEW n, InMethod(u, n) PROVE Completes(u, 2)
  <2>1. 2 \in 1 .. 21 /\ 2 + 1 = 3 /\ Sample[2] = SP
    BY SampleFacts
  <2>2. Append(u, SP) \in Text
    BY <2>1, CompletesByte
  <2>3. Completes(Append(u, SP), 3)
    BY <1>2, <1>3, <2>2, MethodEnds
  <2> QED
    BY <2>1, <2>3, CompletesStep
<1>4. ASSUME s = <<>> PROVE Completes(s, 1)
  <2>1. 1 \in 1 .. 21 /\ 1 + 1 = 2 /\ Sample[1] = 80 /\ 80 \in 0 .. 255
    BY SampleFacts
  <2>2. Append(s, 80) \in Text
    BY <2>1, CompletesByte
  <2>3. InMethod(Append(s, 80), 1)
    BY <1>4, <2>1, MethodBegins, ParserBytes
  <2>4. Completes(Append(s, 80), 2)
    BY <1>3, <2>2, <2>3
  <2> QED
    BY <2>1, <2>4, CompletesStep
<1> QED
  BY <1>1, <1>2, <1>3, <1>4

-----------------------------------------------------------------------------
(* The parser: its state tells the shape of what it has read. *)

Versions ==
    <<"http_version_h", "http_version_t_1", "http_version_t_2", "http_version_p", "http_version_slash",
      "http_version_major_start", "http_version_major", "http_version_minor_start">>

\* No request begins with s; nothing that is taken for one begins with s.
Hopeless(s) == \A t \in Text : Ext(s, t) => ~IsRequest(t)
Refused(s)  == \A t \in Text : Ext(s, t) => ~TakenRequest(t)

\* The states before the header lines; there nothing has been counted.
FirstShape ==
    \/ at = "method_start" /\ input = <<>>
    \/ at = "method" /\ InMethod(input, size)
    \/ at = "uri" /\ InUri(input, size)
    \/ \E j \in 0 .. 7 : at = Versions[j + 1] /\ InVersion(input, j)
    \/ at = "http_version_minor" /\ InMinor(input, minor)
    \/ at = "expecting_newline_1" /\ InNewline1(input)

HeaderShape ==
    \/ at = "header_line_start" /\ InLine(input, total)
    \/ at = "header_name" /\ InName(input, total)
    \/ at = "space_before_header_value" /\ InSpace(input, total)
    \/ at = "header_value" /\ InValue(input, total)
    \/ at = "expecting_newline_2" /\ InNewline2(input, total)
    \/ at = "expecting_newline_3" /\ InNewline3(input, total)

\* The inductive invariant.
ParserInv ==
    /\ input \in Text
    /\ \/ FirstShape /\ total = 0
       \/ HeaderShape
       \/ at = "good" /\ TakenRequest(input)
       \/ at = "bad" /\ Refused(input)

HeaderStates ==
    {"header_line_start", "header_name", "space_before_header_value", "header_value", "expecting_newline_2",
     "expecting_newline_3"}

\* After the version, minor is its last digit.
DigitInv ==
    /\ at = "expecting_newline_1" => minor = input[Len(input) - 1] - 48
    /\ at \in HeaderStates \cup {"good"} => \A f : FirstLine(input, f) => minor = input[f - 3] - 48

LEMMA VersionNames ==
    /\ Versions[1] = "http_version_h" /\ Versions[2] = "http_version_t_1" /\ Versions[3] = "http_version_t_2"
    /\ Versions[4] = "http_version_p" /\ Versions[5] = "http_version_slash" /\ Versions[6] = "http_version_major_start"
    /\ Versions[7] = "http_version_major" /\ Versions[8] = "http_version_minor_start"
BY DEF Versions

LEMMA Literals ==
    /\ DOMAIN Literal = {"http_version_h", "http_version_t_1", "http_version_t_2", "http_version_p", "http_version_slash",
                         "http_version_major_start", "http_version_major", "expecting_newline_1",
                         "space_before_header_value", "expecting_newline_2", "expecting_newline_3"}
    /\ Literal["expecting_newline_1"] = <<LF, "header_line_start">>
    /\ Literal["space_before_header_value"] = <<SP, "header_value">>
    /\ Literal["expecting_newline_2"] = <<LF, "header_line_start">>
    /\ Literal["expecting_newline_3"] = <<LF, "good">>
BY DEF Literal

LEMMA VersionLiterals == \A j \in 0 .. 6 : Versions[j + 1] \in DOMAIN Literal /\ Literal[Versions[j + 1]] = <<HttpOne[j + 1], Versions[j + 2]>>
<1>1. /\ Literal["http_version_h"] = <<72, "http_version_t_1">> /\ Literal["http_version_t_1"] = <<84, "http_version_t_2">>
      /\ Literal["http_version_t_2"] = <<84, "http_version_p">> /\ Literal["http_version_p"] = <<80, "http_version_slash">>
      /\ Literal["http_version_slash"] = <<47, "http_version_major_start">>
      /\ Literal["http_version_major_start"] = <<49, "http_version_major">>
      /\ Literal["http_version_major"] = <<46, "http_version_minor_start">>
  BY DEF Literal
<1>2. /\ HttpOne[1] = 72 /\ HttpOne[2] = 84 /\ HttpOne[3] = 84 /\ HttpOne[4] = 80 /\ HttpOne[5] = 47 /\ HttpOne[6] = 49
      /\ HttpOne[7] = 46
  BY DEF HttpOne
<1>3. ASSUME NEW j \in 0 .. 6 PROVE Versions[j + 1] \in DOMAIN Literal /\ Literal[Versions[j + 1]] = <<HttpOne[j + 1], Versions[j + 2]>>
  <2>1. j = 0 \/ j = 1 \/ j = 2 \/ j = 3 \/ j = 4 \/ j = 5 \/ j = 6
    OBVIOUS
  <2>2. CASE j = 0
    BY <2>2, <1>1, <1>2, VersionNames, Literals
  <2>3. CASE j = 1
    BY <2>3, <1>1, <1>2, VersionNames, Literals
  <2>4. CASE j = 2
    BY <2>4, <1>1, <1>2, VersionNames, Literals
  <2>5. CASE j = 3
    BY <2>5, <1>1, <1>2, VersionNames, Literals
  <2>6. CASE j = 4
    BY <2>6, <1>1, <1>2, VersionNames, Literals
  <2>7. CASE j = 5
    BY <2>7, <1>1, <1>2, VersionNames, Literals
  <2>8. CASE j = 6
    BY <2>8, <1>1, <1>2, VersionNames, Literals
  <2> QED
    BY <2>1, <2>2, <2>3, <2>4, <2>5, <2>6, <2>7, <2>8
<1> QED
  BY <1>3

\* What begins with one byte more begins with the rest, and has that byte.
LEMMA BeginsWithByte ==
    ASSUME NEW s \in Text, NEW c \in 0 .. 255, NEW t \in Text, Ext(Append(s, c), t)
    PROVE  Ext(s, t) /\ t[Len(s) + 1] = c
<1>1. PICK u : u = Append(s, c)
  OBVIOUS
<1>2. u \in Text /\ Len(u) = Len(s) + 1 /\ u[Len(s) + 1] = c /\ Ext(s, u) /\ Ext(u, t)
  BY <1>1, OneMoreByte
<1>3. Ext(s, t)
  BY <1>2, ExtTrans
<1>4. Len(s) + 1 \in 1 .. Len(u)
  <2>1. Len(s) \in Nat
    BY TextFacts
  <2> QED
    BY <1>2, <2>1
<1> QED
  BY <1>2, <1>3, <1>4 DEF Ext

LEMMA MinorIsDigit ==
    ASSUME NEW s \in Text, NEW m, InMinor(s, m)
    PROVE  m \in 0 .. 9
<1>1. PICK a, b \in Nat : Len(s) >= b + 8 /\ TakenMinor(s, b + 8, Len(s)) /\ m = s[Len(s)] - 48
  BY DEF InMinor
<1>2. Len(s) \in Nat
  BY TextFacts
<1>3. Len(s) \in b + 8 .. Len(s) /\ b + 8 \in Nat /\ b + 8 <= Len(s)
  BY <1>1, <1>2
<1>4. s[Len(s)] \in Digit
  BY <1>1, <1>2, <1>3, MinorDigits
<1> QED
  BY <1>1, <1>4 DEF Digit

\* The header lines come after a first line, whose last digit is minor.
LEMMA HeaderHasLine ==
    ASSUME HeaderShape
    PROVE  at \in HeaderStates /\ \E f : FirstLine(input, f)
BY DEF HeaderShape, HeaderStates, InLine, InName, InSpace, InValue, InNewline2, InNewline3, InHeaders

LEMMA DigitIsStrict ==
    ASSUME input \in Text, DigitInv, at \in HeaderStates \cup {"good"}, \E f : FirstLine(input, f)
    PROVE  Strict(input) \/ minor > MaxMinor
<1>1. PICK f : FirstLine(input, f)
  OBVIOUS
<1>2. minor = input[f - 3] - 48 /\ input[f - 3] \in Digit
  BY <1>1, FirstLineDigit DEF DigitInv
<1>3. input[f - 3] \in {48, 49} \/ minor > MaxMinor
  BY <1>2 DEF Digit, MaxMinor
<1> QED
  BY <1>1, <1>3 DEF Strict

\* In no state but good is what has been read taken for a request, and in no
\* state but good and bad is it hopeless, unless the version is too high.
LEMMA FirstVerdict ==
    ASSUME input \in Text, FirstShape, DigitInv
    PROVE  ~TakenRequest(input) /\ (CanBecomeRequest(input) \/ minor > MaxMinor) /\ at \notin {"good", "bad"}
<1>1. Len(input) \in Nat /\ Ext(input, input) /\ ~(Len(input) > Len(input))
  <2>1. Len(input) \in Nat
    BY TextFacts
  <2> QED
    BY <2>1 DEF Ext
<1>2. \A i \in 1 .. 21 : Completes(input, i) => CanBecomeRequest(input)
  BY SampleFacts DEF CanBecomeRequest, Completes, Rest
<1>3. CASE at = "method_start" /\ input = <<>>
  <2>1. 1 \in 1 .. 21 /\ Completes(input, 1)
    BY <1>3, MethodAndUriComplete
  <2>2. Len(input) = 0
    BY <1>3
  <2>3. ~TakenRequest(input)
    BY <2>2, WantsMethodStart
  <2> QED
    BY <1>2, <1>3, <2>1, <2>3
<1>4. CASE at = "method" /\ InMethod(input, size)
  <2>1. 2 \in 1 .. 21 /\ Completes(input, 2)
    BY <1>4, MethodAndUriComplete
  <2>2. ~TakenRequest(input)
    BY <1>1, <1>4, WantsMethod
  <2> QED
    BY <1>2, <1>4, <2>1, <2>2
<1>5. CASE at = "uri" /\ InUri(input, size)
  <2>1. 4 \in 1 .. 21 /\ 3 \in 1 .. 21 /\ Completes(input, IF size # 0 THEN 4 ELSE 3)
    BY <1>5, MethodAndUriComplete
  <2>2. ~TakenRequest(input)
    BY <1>1, <1>5, WantsUri
  <2> QED
    BY <1>2, <1>5, <2>1, <2>2
<1>6. CASE \E j \in 0 .. 7 : at = Versions[j + 1] /\ InVersion(input, j)
  <2>1. PICK j \in 0 .. 7 : at = Versions[j + 1] /\ InVersion(input, j)
    BY <1>6
  <2>2. j + 5 \in 1 .. 21 /\ (j \in 0 .. 6 \/ j = 7)
    OBVIOUS
  <2>3. Completes(input, j + 5)
    BY <2>1, VersionCompletes
  <2>4. ~TakenRequest(input)
    BY <1>1, <2>1, <2>2, WantsVersion, WantsMinorStart
  <2>5. at \notin {"good", "bad"}
    <3>1. j = 0 \/ j = 1 \/ j = 2 \/ j = 3 \/ j = 4 \/ j = 5 \/ j = 6 \/ j = 7
      OBVIOUS
    <3> QED
      BY <2>1, <3>1, VersionNames
  <2> QED
    BY <1>2, <2>2, <2>3, <2>4, <2>5
<1>7. CASE at = "http_version_minor" /\ InMinor(input, minor)
  <2>3. minor \in 0 .. 9
    BY <1>7, MinorIsDigit
  <2>4. minor \in {0, 1} \/ minor > MaxMinor
    BY <2>3 DEF MaxMinor
  <2>1. 13 \in 1 .. 21 /\ (Completes(input, 13) \/ minor > MaxMinor)
    BY <1>7, <2>4, EndOfLineCompletes
  <2>2. ~TakenRequest(input)
    BY <1>1, <1>7, WantsMinor
  <2> QED
    BY <1>2, <1>7, <2>1, <2>2
<1>8. CASE at = "expecting_newline_1" /\ InNewline1(input)
  <2>3. minor = input[Len(input) - 1] - 48 /\ input[Len(input) - 1] \in Digit
    <3>1. PICK u : u = Append(input, LF)
      OBVIOUS
    <3>2. FirstLine(u, Len(input) + 2) /\ (Len(input) + 2) - 3 = Len(input) - 1 /\ u \in Text
      BY <1>8, <3>1, NewlineFirstLine
    <3>3. u[Len(input) - 1] = input[Len(input) - 1]
      BY <1>8, <3>1, NewlineFirstLine
    <3>4. u[(Len(input) + 2) - 3] \in Digit
      BY <3>2, FirstLineDigit
    <3>5. u[Len(input) - 1] \in Digit
      BY <3>2, <3>4
    <3> QED
      BY <1>8, <3>3, <3>5 DEF DigitInv
  <2>4. input[Len(input) - 1] \in {48, 49} \/ minor > MaxMinor
    BY <2>3 DEF Digit, MaxMinor
  <2>1. 14 \in 1 .. 21 /\ (Completes(input, 14) \/ minor > MaxMinor)
    BY <1>8, <2>4, EndOfLineCompletes
  <2>2. ~TakenRequest(input)
    BY <1>1, <1>8, WantsNewline1
  <2> QED
    BY <1>2, <1>8, <2>1, <2>2
<1> QED
  BY <1>3, <1>4, <1>5, <1>6, <1>7, <1>8 DEF FirstShape

LEMMA HeaderVerdict ==
    ASSUME input \in Text, HeaderShape, DigitInv
    PROVE  ~TakenRequest(input) /\ (CanBecomeRequest(input) \/ minor > MaxMinor) /\ at \notin {"good", "bad"}
<1>1. Len(input) \in Nat /\ Ext(input, input) /\ ~(Len(input) > Len(input))
  <2>1. Len(input) \in Nat
    BY TextFacts
  <2> QED
    BY <2>1 DEF Ext
<1>2. \A i \in 1 .. 21 : Completes(input, i) => CanBecomeRequest(input)
  BY SampleFacts DEF CanBecomeRequest, Completes, Rest
<1>3. 16 \in 1 .. 21 /\ 17 \in 1 .. 21 /\ 18 \in 1 .. 21 /\ 19 \in 1 .. 21 /\ 20 \in 1 .. 21 /\ 21 \in 1 .. 21
  OBVIOUS
<1>10. Strict(input) \/ minor > MaxMinor
  BY HeaderHasLine, DigitIsStrict
<1>4. CASE at = "header_line_start" /\ InLine(input, total)
  BY <1>1, <1>2, <1>3, <1>10, <1>4, HeadersComplete, WantsLine
<1>5. CASE at = "header_name" /\ InName(input, total)
  BY <1>1, <1>2, <1>3, <1>10, <1>5, HeadersComplete, WantsName
<1>6. CASE at = "space_before_header_value" /\ InSpace(input, total)
  BY <1>1, <1>2, <1>3, <1>10, <1>6, HeadersComplete, WantsSpace
<1>7. CASE at = "header_value" /\ InValue(input, total)
  BY <1>1, <1>2, <1>3, <1>10, <1>7, HeadersComplete, WantsValue
<1>8. CASE at = "expecting_newline_2" /\ InNewline2(input, total)
  BY <1>1, <1>2, <1>3, <1>10, <1>8, HeadersComplete, WantsNewline2
<1>9. CASE at = "expecting_newline_3" /\ InNewline3(input, total)
  BY <1>1, <1>2, <1>3, <1>10, <1>9, HeadersComplete, WantsNewline3
<1> QED
  BY <1>4, <1>5, <1>6, <1>7, <1>8, <1>9 DEF HeaderShape

LEMMA ExtEnd ==
    ASSUME NEW s \in Text, NEW i \in 1 .. Len(Sample)
    PROVE  s \o SubSeq(Sample, i, Len(Sample)) \in Text /\ Ext(s, s \o SubSeq(Sample, i, Len(Sample)))
<1>1. Sample \in Seq(0 .. 255) /\ Len(Sample) = 21 /\ s \in Seq(0 .. 255) /\ Len(s) \in Nat
  BY SampleFacts, TextFacts DEF Text
<1>2. PICK r : r = SubSeq(Sample, i, Len(Sample))
  OBVIOUS
<1>3. r \in Seq(0 .. 255)
  <2>1. \A m \in i .. Len(Sample) : m \in 1 .. Len(Sample)
    BY <1>1
  <2>2. ASSUME NEW m \in 1 .. Len(Sample) PROVE Sample[m] \in 0 .. 255
    BY <1>1, ElementOfSeq
  <2>3. \A m \in i .. Len(Sample) : Sample[m] \in 0 .. 255
    BY <2>1, <2>2
  <2>4. i \in Int /\ Len(Sample) \in Int
    BY <1>1
  <2> QED
    BY <1>2, <2>3, <2>4, SubSeqProperties
<1>4. /\ s \o r \in Seq(0 .. 255) /\ Len(s \o r) = Len(s) + Len(r)
      /\ \A m \in 1 .. Len(s) + Len(r) : (s \o r)[m] = IF m <= Len(s) THEN s[m] ELSE r[m - Len(s)]
  BY <1>1, <1>3, ConcatProperties
<1>5. Len(r) \in Nat
  BY <1>3, LenProperties
<1>6. Len(s) <= Len(s \o r) /\ \A m \in 1 .. Len(s) : m \in 1 .. Len(s) + Len(r) /\ m <= Len(s)
  BY <1>1, <1>4, <1>5
<1>7. s \o r \in Text /\ Ext(s, s \o r)
  BY <1>4, <1>6 DEF Text, Ext
<1> QED
  BY <1>2, <1>7

LEMMA ParserVerdict == ParserInv /\ DigitInv => VerdictIsRight /\ (at = "bad" => Hopeless(input))
<1> SUFFICES ASSUME ParserInv, DigitInv PROVE VerdictIsRight /\ (at = "bad" => Hopeless(input))
  OBVIOUS
<1>1. input \in Text
  BY DEF ParserInv
<1>6. (IsRequest(input) => TakenRequest(input)) /\ (TakenRequest(input) /\ Strict(input) => IsRequest(input))
  BY <1>1, RequestIsTaken
<1>2. CASE FirstShape
  BY <1>1, <1>2, <1>6, FirstVerdict DEF VerdictIsRight
<1>3. CASE HeaderShape
  BY <1>1, <1>3, <1>6, HeaderVerdict DEF VerdictIsRight
<1>4. CASE at = "good" /\ TakenRequest(input)
  <2>1. Strict(input) \/ minor > MaxMinor
    BY <1>1, <1>4, DigitIsStrict DEF TakenRequest
  <2> QED
    BY <1>4, <1>6, <2>1 DEF VerdictIsRight
<1>5. CASE at = "bad" /\ Refused(input)
  <2>3. Hopeless(input)
    BY <1>5, RequestIsTaken DEF Hopeless, Refused
  <2>1. ~IsRequest(input)
    <3>1. Len(input) \in Nat
      BY <1>1, TextFacts
    <3>2. Ext(input, input)
      BY <3>1 DEF Ext
    <3> QED
      BY <1>1, <2>3, <3>2 DEF Hopeless
  <2>2. ~CanBecomeRequest(input)
    <3>1. SUFFICES ASSUME NEW i \in 1 .. Len(Sample), IsRequest(input \o SubSeq(Sample, i, Len(Sample))) PROVE FALSE
      BY DEF CanBecomeRequest
    <3>2. /\ input \o SubSeq(Sample, i, Len(Sample)) \in Text
          /\ Ext(input, input \o SubSeq(Sample, i, Len(Sample)))
      BY <1>1, ExtEnd
    <3> QED
      BY <2>3, <3>1, <3>2 DEF Hopeless
  <2> QED
    BY <1>5, <2>1, <2>2, <2>3 DEF VerdictIsRight
<1> QED
  BY <1>2, <1>3, <1>4, <1>5 DEF ParserInv

\* Which part of consume a state takes.
LEMMA ConsumeBy ==
    ASSUME NEW c \in Bytes, input \in Text, Consume(c)
    PROVE  /\ c \in 0 .. 255 /\ input' = Append(input, c) /\ input' \in Text
           /\ at \in {"method_start", "method"} => Method(c)
           /\ at = "uri" => Uri(c)
           /\ at \in DOMAIN Literal => Expect(c)
           /\ at \in {"http_version_minor_start", "http_version_minor"} => Minor(c)
           /\ at \in {"header_line_start", "header_name", "header_value"} => HeaderLine(c)
           /\ at \notin {"good", "bad"}
<1>1. c \in 0 .. 255 /\ input' = Append(input, c)
  BY ParserLimits DEF Consume
<1>2. input' \in Text
  BY <1>1, OneMoreByte
<1>3. Method(c) => at \in {"method_start", "method"}
  BY DEF Method
<1>4. Uri(c) => at = "uri"
  BY DEF Uri
<1>5. Expect(c) => at \in DOMAIN Literal
  BY DEF Expect
<1>6. Minor(c) => at \in {"http_version_minor_start", "http_version_minor"}
  BY DEF Minor
<1>7. HeaderLine(c) => at \in {"header_line_start", "header_name", "header_value"}
  BY DEF HeaderLine
<1>8. Method(c) \/ Uri(c) \/ Expect(c) \/ Minor(c) \/ HeaderLine(c)
  BY DEF Consume
<1> QED
  BY <1>1, <1>2, <1>3, <1>4, <1>5, <1>6, <1>7, <1>8, Literals

\* The steps from each state.
LEMMA StepMethodStart ==
    ASSUME NEW c \in Bytes, input \in Text, Consume(c), at = "method_start", input = <<>>, total = 0
    PROVE  ParserInv'
<1>1. c \in 0 .. 255 /\ input' = Append(input, c) /\ input' \in Text /\ Method(c)
  BY ConsumeBy
<1>2. \/ IsToken(c) /\ at' = "method" /\ size' = 1 /\ total' = total
      \/ at' = "bad" /\ ~(IsToken(c))
  BY <1>1 DEF Method, Step, Goes
<1>3. CASE IsToken(c) /\ at' = "method" /\ size' = 1 /\ total' = total
  <2>1. InMethod(input', size')
    BY <1>1, <1>3, MethodBegins
  <2> QED
    BY <1>1, <1>3, <2>1 DEF ParserInv, FirstShape, HeaderShape
<1>4. CASE at' = "bad" /\ ~(IsToken(c))
  <2>1. SUFFICES ASSUME NEW t \in Text, Ext(Append(input, c), t), TakenRequest(t) PROVE FALSE
    BY <1>1, <1>4 DEF ParserInv, Refused
  <2>2. Ext(input, t) /\ t[Len(input) + 1] = c
    BY <1>1, <2>1, BeginsWithByte
  <2> QED
    BY <2>1, <2>2, <1>4, WantsMethodStart
<1> QED
  BY <1>2, <1>3, <1>4

LEMMA StepMethod ==
    ASSUME NEW c \in Bytes, input \in Text, Consume(c), at = "method", InMethod(input, size), total = 0
    PROVE  ParserInv'
<1>1. c \in 0 .. 255 /\ input' = Append(input, c) /\ input' \in Text /\ Method(c)
  BY ConsumeBy
<1>2. \/ c = SP /\ at' = "uri" /\ size' = 0 /\ total' = total
      \/ IsToken(c) /\ size # MaxMethod /\ at' = "method" /\ size' = size + 1 /\ total' = total
      \/ at' = "bad" /\ ~(c = SP \/ (IsToken(c) /\ size # MaxMethod))
  BY <1>1 DEF Method, Step, Goes
<1>3. CASE c = SP /\ at' = "uri" /\ size' = 0 /\ total' = total
  <2>1. InUri(input', size')
    BY <1>1, <1>3, MethodEnds
  <2> QED
    BY <1>1, <1>3, <2>1 DEF ParserInv, FirstShape, HeaderShape
<1>4. CASE IsToken(c) /\ size # MaxMethod /\ at' = "method" /\ size' = size + 1 /\ total' = total
  <2>1. InMethod(input', size')
    BY <1>1, <1>4, MethodGoesOn
  <2> QED
    BY <1>1, <1>4, <2>1 DEF ParserInv, FirstShape, HeaderShape
<1>5. CASE at' = "bad" /\ ~(c = SP \/ (IsToken(c) /\ size # MaxMethod))
  <2>1. SUFFICES ASSUME NEW t \in Text, Ext(Append(input, c), t), TakenRequest(t) PROVE FALSE
    BY <1>1, <1>5 DEF ParserInv, Refused
  <2>2. Ext(input, t) /\ t[Len(input) + 1] = c
    BY <1>1, <2>1, BeginsWithByte
  <2> QED
    BY <2>1, <2>2, <1>5, WantsMethod
<1> QED
  BY <1>2, <1>3, <1>4, <1>5

LEMMA StepUri ==
    ASSUME NEW c \in Bytes, input \in Text, Consume(c), at = "uri", InUri(input, size), total = 0
    PROVE  ParserInv'
<1>1. c \in 0 .. 255 /\ input' = Append(input, c) /\ input' \in Text /\ Uri(c)
  BY ConsumeBy
<1>2. \/ c = SP /\ size # 0 /\ at' = "http_version_h" /\ total' = total
      \/ c # SP /\ ~IsCtl(c) /\ size # MaxUri /\ at' = "uri" /\ size' = size + 1 /\ total' = total
      \/ at' = "bad" /\ ~((c = SP /\ size # 0) \/ (c # SP /\ ~IsCtl(c) /\ size # MaxUri))
  BY <1>1 DEF Uri, Step, Goes
<1>3. CASE c = SP /\ size # 0 /\ at' = "http_version_h" /\ total' = total
  <2>1. InVersion(input', 0)
    BY <1>1, <1>3, UriEnds
  <2>2. 0 \in 0 .. 7 /\ 0 + 1 = 1 /\ at' = Versions[1]
    BY <1>3, VersionNames
  <2>3. FirstShape'
    BY <2>1, <2>2 DEF FirstShape
  <2> QED
    BY <1>1, <1>3, <2>3 DEF ParserInv
<1>4. CASE c # SP /\ ~IsCtl(c) /\ size # MaxUri /\ at' = "uri" /\ size' = size + 1 /\ total' = total
  <2>1. InUri(input', size')
    BY <1>1, <1>4, UriGoesOn
  <2> QED
    BY <1>1, <1>4, <2>1 DEF ParserInv, FirstShape, HeaderShape
<1>5. CASE at' = "bad" /\ ~((c = SP /\ size # 0) \/ (c # SP /\ ~IsCtl(c) /\ size # MaxUri))
  <2>1. SUFFICES ASSUME NEW t \in Text, Ext(Append(input, c), t), TakenRequest(t) PROVE FALSE
    BY <1>1, <1>5 DEF ParserInv, Refused
  <2>2. Ext(input, t) /\ t[Len(input) + 1] = c
    BY <1>1, <2>1, BeginsWithByte
  <2> QED
    BY <2>1, <2>2, <1>5, WantsUri
<1> QED
  BY <1>2, <1>3, <1>4, <1>5

LEMMA StepMinorStart ==
    ASSUME NEW c \in Bytes, input \in Text, Consume(c), at = "http_version_minor_start", InVersion(input, 7), total = 0
    PROVE  ParserInv'
<1>1. c \in 0 .. 255 /\ input' = Append(input, c) /\ input' \in Text /\ Minor(c)
  BY ConsumeBy
<1>2. \/ c \in {48, 49} /\ at' = "http_version_minor" /\ minor' = c - 48 /\ total' = total
      \/ at' = "bad" /\ ~(c \in {48, 49})
  <2>1. (c \in Digit /\ c - 48 <= MaxMinor) <=> c \in {48, 49}
    BY <1>1 DEF Digit, MaxMinor
  <2> QED
    BY <1>1, <2>1 DEF Minor, Step
<1>3. CASE c \in {48, 49} /\ at' = "http_version_minor" /\ minor' = c - 48 /\ total' = total
  <2>1. InMinor(input', minor')
    BY <1>1, <1>3, MinorBegins
  <2> QED
    BY <1>1, <1>3, <2>1 DEF ParserInv, FirstShape, HeaderShape
<1>4. CASE at' = "bad" /\ ~(c \in {48, 49})
  <2>1. SUFFICES ASSUME NEW t \in Text, Ext(Append(input, c), t), TakenRequest(t) PROVE FALSE
    BY <1>1, <1>4 DEF ParserInv, Refused
  <2>2. Ext(input, t) /\ t[Len(input) + 1] = c
    BY <1>1, <2>1, BeginsWithByte
  <2> QED
    BY <2>1, <2>2, <1>4, WantsMinorStart
<1> QED
  BY <1>2, <1>3, <1>4

\* boundedAddDigit takes any digit after a 0, and none after another: the
\* comparison of unsigned numbers never fails for a 0.
LEMMA MinorAdds ==
    ASSUME NEW m \in 0 .. 9, NEW c \in Digit
    PROVE  CanAddDigit(m, c - 48, MaxMinor) <=> m = 0
<1>1. UIntRange \in Nat \ {0}
  BY ParserAssumption
<1>2. (MaxMinor - (c - 48)) \in Int
  BY DEF MaxMinor, Digit
<1>3. \A a \in Int : a % UIntRange >= 0
  BY <1>1
<1>4. MaxMinor \div 10 = 0
  BY DEF MaxMinor
<1>5. CASE m = 0
  BY <1>2, <1>3, <1>4, <1>5 DEF CanAddDigit
<1>6. CASE m # 0
  BY <1>4, <1>6 DEF CanAddDigit
<1> QED
  BY <1>5, <1>6

LEMMA StepMinor ==
    ASSUME NEW c \in Bytes, input \in Text, Consume(c), at = "http_version_minor", InMinor(input, minor), total = 0
    PROVE  ParserInv'
<1>1. c \in 0 .. 255 /\ input' = Append(input, c) /\ input' \in Text /\ Minor(c)
  BY ConsumeBy
<1>2. \/ c = CR /\ at' = "expecting_newline_1" /\ total' = total
      \/ c \in Digit /\ minor = 0 /\ at' = "http_version_minor" /\ minor' = c - 48 /\ total' = total
      \/ at' = "bad" /\ ~(c = CR \/ (c \in Digit /\ minor = 0))
  <2>1. c \in Digit => (CanAddDigit(minor, c - 48, MaxMinor) <=> minor = 0)
    BY MinorIsDigit, MinorAdds
  <2>2. minor = 0 => 10 * minor + (c - 48) = c - 48
    BY <1>1
  <2> QED
    BY <1>1, <2>1, <2>2 DEF Minor, Step, Goes
<1>3. CASE c = CR /\ at' = "expecting_newline_1" /\ total' = total
  <2>1. InNewline1(input')
    BY <1>1, <1>3, MinorEnds
  <2> QED
    BY <1>1, <1>3, <2>1 DEF ParserInv, FirstShape, HeaderShape
<1>4. CASE c \in Digit /\ minor = 0 /\ at' = "http_version_minor" /\ minor' = c - 48 /\ total' = total
  <2>1. InMinor(input', minor')
    BY <1>1, <1>4, MinorGoesOn
  <2> QED
    BY <1>1, <1>4, <2>1 DEF ParserInv, FirstShape, HeaderShape
<1>5. CASE at' = "bad" /\ ~(c = CR \/ (c \in Digit /\ minor = 0))
  <2>1. SUFFICES ASSUME NEW t \in Text, Ext(Append(input, c), t), TakenRequest(t) PROVE FALSE
    BY <1>1, <1>5 DEF ParserInv, Refused
  <2>2. Ext(input, t) /\ t[Len(input) + 1] = c
    BY <1>1, <2>1, BeginsWithByte
  <2> QED
    BY <2>1, <2>2, <1>5, WantsMinor
<1> QED
  BY <1>2, <1>3, <1>4, <1>5

LEMMA StepNewline1 ==
    ASSUME NEW c \in Bytes, input \in Text, Consume(c), at = "expecting_newline_1", InNewline1(input), total = 0
    PROVE  ParserInv'
<1>1. c \in 0 .. 255 /\ input' = Append(input, c) /\ input' \in Text /\ Expect(c)
  BY ConsumeBy, Literals
<1>2. \/ c = LF /\ at' = "header_line_start" /\ total' = total
      \/ at' = "bad" /\ ~(c = LF)
  BY <1>1, Literals DEF Expect, Step, Goes
<1>3. CASE c = LF /\ at' = "header_line_start" /\ total' = total
  <2>1. InLine(input', total')
    BY <1>1, <1>3, LineBegins
  <2> QED
    BY <1>1, <1>3, <2>1 DEF ParserInv, FirstShape, HeaderShape
<1>4. CASE at' = "bad" /\ ~(c = LF)
  <2>1. SUFFICES ASSUME NEW t \in Text, Ext(Append(input, c), t), TakenRequest(t) PROVE FALSE
    BY <1>1, <1>4 DEF ParserInv, Refused
  <2>2. Ext(input, t) /\ t[Len(input) + 1] = c
    BY <1>1, <2>1, BeginsWithByte
  <2> QED
    BY <2>1, <2>2, <1>4, WantsNewline1
<1> QED
  BY <1>2, <1>3, <1>4

LEMMA StepLine ==
    ASSUME NEW c \in Bytes, input \in Text, Consume(c), at = "header_line_start", InLine(input, total)
    PROVE  ParserInv'
<1>1. c \in 0 .. 255 /\ input' = Append(input, c) /\ input' \in Text /\ HeaderLine(c)
  BY ConsumeBy
<1>2. \/ c = CR /\ at' = "expecting_newline_3" /\ total' = total
      \/ IsToken(c) /\ total # MaxHeaders /\ at' = "header_name" /\ total' = total + 1
      \/ at' = "bad" /\ ~(c = CR \/ (IsToken(c) /\ total # MaxHeaders))
  BY <1>1 DEF HeaderLine, Counts, Step, Goes
<1>3. CASE c = CR /\ at' = "expecting_newline_3" /\ total' = total
  <2>1. InNewline3(input', total')
    BY <1>1, <1>3, LastLineBegins
  <2> QED
    BY <1>1, <1>3, <2>1 DEF ParserInv, FirstShape, HeaderShape
<1>4. CASE IsToken(c) /\ total # MaxHeaders /\ at' = "header_name" /\ total' = total + 1
  <2>1. InName(input', total')
    BY <1>1, <1>4, NameBegins
  <2> QED
    BY <1>1, <1>4, <2>1 DEF ParserInv, FirstShape, HeaderShape
<1>5. CASE at' = "bad" /\ ~(c = CR \/ (IsToken(c) /\ total # MaxHeaders))
  <2>1. SUFFICES ASSUME NEW t \in Text, Ext(Append(input, c), t), TakenRequest(t) PROVE FALSE
    BY <1>1, <1>5 DEF ParserInv, Refused
  <2>2. Ext(input, t) /\ t[Len(input) + 1] = c
    BY <1>1, <2>1, BeginsWithByte
  <2> QED
    BY <2>1, <2>2, <1>5, WantsLine
<1> QED
  BY <1>2, <1>3, <1>4, <1>5

LEMMA StepName ==
    ASSUME NEW c \in Bytes, input \in Text, Consume(c), at = "header_name", InName(input, total)
    PROVE  ParserInv'
<1>1. c \in 0 .. 255 /\ input' = Append(input, c) /\ input' \in Text /\ HeaderLine(c)
  BY ConsumeBy
<1>2. \/ c = Colon /\ at' = "space_before_header_value" /\ total' = total
      \/ IsToken(c) /\ total # MaxHeaders /\ at' = "header_name" /\ total' = total + 1
      \/ at' = "bad" /\ ~(c = Colon \/ (IsToken(c) /\ total # MaxHeaders))
  BY <1>1 DEF HeaderLine, Counts, Step, Goes
<1>3. CASE c = Colon /\ at' = "space_before_header_value" /\ total' = total
  <2>1. InSpace(input', total')
    BY <1>1, <1>3, NameEnds
  <2> QED
    BY <1>1, <1>3, <2>1 DEF ParserInv, FirstShape, HeaderShape
<1>4. CASE IsToken(c) /\ total # MaxHeaders /\ at' = "header_name" /\ total' = total + 1
  <2>1. InName(input', total')
    BY <1>1, <1>4, NameGoesOn
  <2> QED
    BY <1>1, <1>4, <2>1 DEF ParserInv, FirstShape, HeaderShape
<1>5. CASE at' = "bad" /\ ~(c = Colon \/ (IsToken(c) /\ total # MaxHeaders))
  <2>1. SUFFICES ASSUME NEW t \in Text, Ext(Append(input, c), t), TakenRequest(t) PROVE FALSE
    BY <1>1, <1>5 DEF ParserInv, Refused
  <2>2. Ext(input, t) /\ t[Len(input) + 1] = c
    BY <1>1, <2>1, BeginsWithByte
  <2> QED
    BY <2>1, <2>2, <1>5, WantsName
<1> QED
  BY <1>2, <1>3, <1>4, <1>5

LEMMA StepSpace ==
    ASSUME NEW c \in Bytes, input \in Text, Consume(c), at = "space_before_header_value", InSpace(input, total)
    PROVE  ParserInv'
<1>1. c \in 0 .. 255 /\ input' = Append(input, c) /\ input' \in Text /\ Expect(c)
  BY ConsumeBy, Literals
<1>2. \/ c = SP /\ at' = "header_value" /\ total' = total
      \/ at' = "bad" /\ ~(c = SP)
  BY <1>1, Literals DEF Expect, Step, Goes
<1>3. CASE c = SP /\ at' = "header_value" /\ total' = total
  <2>1. InValue(input', total')
    BY <1>1, <1>3, ValueBegins
  <2> QED
    BY <1>1, <1>3, <2>1 DEF ParserInv, FirstShape, HeaderShape
<1>4. CASE at' = "bad" /\ ~(c = SP)
  <2>1. SUFFICES ASSUME NEW t \in Text, Ext(Append(input, c), t), TakenRequest(t) PROVE FALSE
    BY <1>1, <1>4 DEF ParserInv, Refused
  <2>2. Ext(input, t) /\ t[Len(input) + 1] = c
    BY <1>1, <2>1, BeginsWithByte
  <2> QED
    BY <2>1, <2>2, <1>4, WantsSpace
<1> QED
  BY <1>2, <1>3, <1>4

LEMMA StepValue ==
    ASSUME NEW c \in Bytes, input \in Text, Consume(c), at = "header_value", InValue(input, total)
    PROVE  ParserInv'
<1>1. c \in 0 .. 255 /\ input' = Append(input, c) /\ input' \in Text /\ HeaderLine(c)
  BY ConsumeBy
<1>2. \/ c = CR /\ at' = "expecting_newline_2" /\ total' = total
      \/ ~IsCtl(c) /\ total # MaxHeaders /\ at' = "header_value" /\ total' = total + 1
      \/ at' = "bad" /\ ~(c = CR \/ (~IsCtl(c) /\ total # MaxHeaders))
  BY <1>1 DEF HeaderLine, Counts, Step, Goes
<1>3. CASE c = CR /\ at' = "expecting_newline_2" /\ total' = total
  <2>1. InNewline2(input', total')
    BY <1>1, <1>3, ValueEnds
  <2> QED
    BY <1>1, <1>3, <2>1 DEF ParserInv, FirstShape, HeaderShape
<1>4. CASE ~IsCtl(c) /\ total # MaxHeaders /\ at' = "header_value" /\ total' = total + 1
  <2>1. InValue(input', total')
    BY <1>1, <1>4, ValueGoesOn
  <2> QED
    BY <1>1, <1>4, <2>1 DEF ParserInv, FirstShape, HeaderShape
<1>5. CASE at' = "bad" /\ ~(c = CR \/ (~IsCtl(c) /\ total # MaxHeaders))
  <2>1. SUFFICES ASSUME NEW t \in Text, Ext(Append(input, c), t), TakenRequest(t) PROVE FALSE
    BY <1>1, <1>5 DEF ParserInv, Refused
  <2>2. Ext(input, t) /\ t[Len(input) + 1] = c
    BY <1>1, <2>1, BeginsWithByte
  <2> QED
    BY <2>1, <2>2, <1>5, WantsValue
<1> QED
  BY <1>2, <1>3, <1>4, <1>5

LEMMA StepNewline2 ==
    ASSUME NEW c \in Bytes, input \in Text, Consume(c), at = "expecting_newline_2", InNewline2(input, total)
    PROVE  ParserInv'
<1>1. c \in 0 .. 255 /\ input' = Append(input, c) /\ input' \in Text /\ Expect(c)
  BY ConsumeBy, Literals
<1>2. \/ c = LF /\ at' = "header_line_start" /\ total' = total
      \/ at' = "bad" /\ ~(c = LF)
  BY <1>1, Literals DEF Expect, Step, Goes
<1>3. CASE c = LF /\ at' = "header_line_start" /\ total' = total
  <2>1. InLine(input', total')
    BY <1>1, <1>3, HeaderEnds
  <2> QED
    BY <1>1, <1>3, <2>1 DEF ParserInv, FirstShape, HeaderShape
<1>4. CASE at' = "bad" /\ ~(c = LF)
  <2>1. SUFFICES ASSUME NEW t \in Text, Ext(Append(input, c), t), TakenRequest(t) PROVE FALSE
    BY <1>1, <1>4 DEF ParserInv, Refused
  <2>2. Ext(input, t) /\ t[Len(input) + 1] = c
    BY <1>1, <2>1, BeginsWithByte
  <2> QED
    BY <2>1, <2>2, <1>4, WantsNewline2
<1> QED
  BY <1>2, <1>3, <1>4

LEMMA StepNewline3 ==
    ASSUME NEW c \in Bytes, input \in Text, Consume(c), at = "expecting_newline_3", InNewline3(input, total)
    PROVE  ParserInv'
<1>1. c \in 0 .. 255 /\ input' = Append(input, c) /\ input' \in Text /\ Expect(c)
  BY ConsumeBy, Literals
<1>2. \/ c = LF /\ at' = "good"
      \/ at' = "bad" /\ ~(c = LF)
  BY <1>1, Literals DEF Expect, Step, Goes
<1>3. CASE c = LF /\ at' = "good"
  <2>1. TakenRequest(input')
    BY <1>1, <1>3, RequestEnds
  <2> QED
    BY <1>1, <1>3, <2>1 DEF ParserInv, FirstShape, HeaderShape
<1>4. CASE at' = "bad" /\ ~(c = LF)
  <2>1. SUFFICES ASSUME NEW t \in Text, Ext(Append(input, c), t), TakenRequest(t) PROVE FALSE
    BY <1>1, <1>4 DEF ParserInv, Refused
  <2>2. Ext(input, t) /\ t[Len(input) + 1] = c
    BY <1>1, <2>1, BeginsWithByte
  <2> QED
    BY <2>1, <2>2, <1>4, WantsNewline3
<1> QED
  BY <1>2, <1>3, <1>4

LEMMA StepVersion ==
    ASSUME NEW c \in Bytes, input \in Text, Consume(c), NEW j \in 0 .. 6, at = Versions[j + 1], InVersion(input, j), total = 0
    PROVE  ParserInv'
<1>1. c \in 0 .. 255 /\ input' = Append(input, c) /\ input' \in Text /\ Expect(c)
  BY ConsumeBy, VersionLiterals
<1>2. Literal[at] = <<HttpOne[j + 1], Versions[j + 2]>>
  BY VersionLiterals
<1>3. \/ c = HttpOne[j + 1] /\ at' = Versions[j + 2] /\ total' = total
      \/ at' = "bad" /\ c # HttpOne[j + 1]
  BY <1>1, <1>2 DEF Expect, Step, Goes
<1>4. CASE c = HttpOne[j + 1] /\ at' = Versions[j + 2] /\ total' = total
  <2>1. InVersion(input', j + 1)
    BY <1>1, <1>4, VersionGoesOn
  <2>2. j + 1 \in 0 .. 7 /\ (j + 1) + 1 = j + 2
    OBVIOUS
  <2>3. FirstShape'
    BY <2>1, <2>2, <1>4 DEF FirstShape
  <2> QED
    BY <1>1, <1>4, <2>3 DEF ParserInv
<1>5. CASE at' = "bad" /\ c # HttpOne[j + 1]
  <2>1. SUFFICES ASSUME NEW t \in Text, Ext(Append(input, c), t), TakenRequest(t) PROVE FALSE
    BY <1>1, <1>5 DEF ParserInv, Refused
  <2>2. Ext(input, t) /\ t[Len(input) + 1] = c
    BY <1>1, <2>1, BeginsWithByte
  <2> QED
    BY <2>1, <2>2, <1>5, WantsVersion
<1> QED
  BY <1>3, <1>4, <1>5

LEMMA ParserInit == PInit => ParserInv
<1>1. <<>> \in Text
  <2>1. <<>> \in Seq(0 .. 255)
    OBVIOUS
  <2> QED
    BY <2>1 DEF Text
<1> QED
  BY <1>1 DEF PInit, ParserInv, FirstShape

LEMMA ParserStep == ParserInv /\ [PNext]_pvars => ParserInv'
<1> SUFFICES ASSUME ParserInv, [PNext]_pvars PROVE ParserInv'
  OBVIOUS
<1>1. input \in Text
  BY DEF ParserInv
<1>2. CASE UNCHANGED pvars
  BY <1>2 DEF pvars, ParserInv, FirstShape, HeaderShape, Refused
<1>3. CASE Reset
  <2>1. <<>> \in Text
    <3>1. <<>> \in Seq(0 .. 255)
      OBVIOUS
    <3> QED
      BY <3>1 DEF Text
  <2> QED
    BY <1>3, <2>1 DEF Reset, ParserInv, FirstShape
<1>4. ASSUME NEW c \in Bytes, Consume(c) PROVE ParserInv'
  <2>1. CASE FirstShape /\ total = 0
    <3>1. CASE at = "method_start" /\ input = <<>>
      BY <1>1, <1>4, <2>1, <3>1, StepMethodStart
    <3>2. CASE at = "method" /\ InMethod(input, size)
      BY <1>1, <1>4, <2>1, <3>2, StepMethod
    <3>3. CASE at = "uri" /\ InUri(input, size)
      BY <1>1, <1>4, <2>1, <3>3, StepUri
    <3>4. CASE \E j \in 0 .. 7 : at = Versions[j + 1] /\ InVersion(input, j)
      <4>1. PICK j \in 0 .. 7 : at = Versions[j + 1] /\ InVersion(input, j)
        BY <3>4
      <4>2. CASE j \in 0 .. 6
        BY <1>1, <1>4, <2>1, <4>1, <4>2, StepVersion
      <4>3. CASE j = 7
        <5>1. at = "http_version_minor_start"
          BY <4>1, <4>3, VersionNames
        <5> QED
          BY <1>1, <1>4, <2>1, <4>1, <4>3, <5>1, StepMinorStart
      <4> QED
        BY <4>2, <4>3
    <3>5. CASE at = "http_version_minor" /\ InMinor(input, minor)
      BY <1>1, <1>4, <2>1, <3>5, StepMinor
    <3>6. CASE at = "expecting_newline_1" /\ InNewline1(input)
      BY <1>1, <1>4, <2>1, <3>6, StepNewline1
    <3> QED
      BY <2>1, <3>1, <3>2, <3>3, <3>4, <3>5, <3>6 DEF FirstShape
  <2>2. CASE HeaderShape
    <3>1. CASE at = "header_line_start" /\ InLine(input, total)
      BY <1>1, <1>4, <3>1, StepLine
    <3>2. CASE at = "header_name" /\ InName(input, total)
      BY <1>1, <1>4, <3>2, StepName
    <3>3. CASE at = "space_before_header_value" /\ InSpace(input, total)
      BY <1>1, <1>4, <3>3, StepSpace
    <3>4. CASE at = "header_value" /\ InValue(input, total)
      BY <1>1, <1>4, <3>4, StepValue
    <3>5. CASE at = "expecting_newline_2" /\ InNewline2(input, total)
      BY <1>1, <1>4, <3>5, StepNewline2
    <3>6. CASE at = "expecting_newline_3" /\ InNewline3(input, total)
      BY <1>1, <1>4, <3>6, StepNewline3
    <3> QED
      BY <2>2, <3>1, <3>2, <3>3, <3>4, <3>5, <3>6 DEF HeaderShape
  <2>3. CASE at \in {"good", "bad"}
    BY <1>1, <1>4, <2>3, ConsumeBy
  <2> QED
    BY <2>1, <2>2, <2>3 DEF ParserInv
<1> QED
  BY <1>2, <1>3, <1>4 DEF PNext

\* Where the states of the header lines and the one before them are entered from.
LEMMA DigitMoves ==
    ASSUME NEW c \in Bytes, input \in Text, Consume(c)
    PROVE  /\ at' = "expecting_newline_1" => at = "http_version_minor" /\ c = CR /\ minor' = minor
           /\ at' \in HeaderStates \cup {"good"} =>
                  minor' = minor /\ (at \in HeaderStates \/ (at = "expecting_newline_1" /\ c = LF))
<1>1. Method(c) \/ Uri(c) \/ Expect(c) \/ Minor(c) \/ HeaderLine(c)
  BY DEF Consume
<1>2. CASE Method(c)
  BY <1>2 DEF Method, Goes, Step, HeaderStates
<1>3. CASE Uri(c)
  BY <1>3 DEF Uri, Goes, Step, HeaderStates
<1>4. CASE Minor(c)
  BY <1>4 DEF Minor, Goes, Step, HeaderStates
<1>5. CASE HeaderLine(c)
  BY <1>5 DEF HeaderLine, Goes, Counts, Step, HeaderStates
<1>6. CASE Expect(c)
  <2>1. at \in DOMAIN Literal /\ (at' = "bad" \/ (c = Literal[at][1] /\ at' = Literal[at][2] /\ minor' = minor))
    BY <1>6 DEF Expect, Goes, Step
  <2>2. CASE \E j \in 0 .. 6 : at = Versions[j + 1]
    <3>1. PICK j \in 0 .. 6 : at = Versions[j + 1]
      BY <2>2
    <3>2. Literal[at][2] = Versions[j + 2]
      BY <3>1, VersionLiterals
    <3>3. j = 0 \/ j = 1 \/ j = 2 \/ j = 3 \/ j = 4 \/ j = 5 \/ j = 6
      OBVIOUS
    <3>4. Versions[j + 2] \notin HeaderStates \cup {"good", "expecting_newline_1"}
      BY <3>3, VersionNames DEF HeaderStates
    <3> QED
      BY <2>1, <3>2, <3>4 DEF HeaderStates
  <2>3. CASE at \in {"expecting_newline_1", "space_before_header_value", "expecting_newline_2", "expecting_newline_3"}
    BY <2>1, <2>3, Literals DEF HeaderStates
  <2>4. 0 \in 0 .. 6 /\ 1 \in 0 .. 6 /\ 2 \in 0 .. 6 /\ 3 \in 0 .. 6 /\ 4 \in 0 .. 6 /\ 5 \in 0 .. 6 /\ 6 \in 0 .. 6
    OBVIOUS
  <2>5. /\ Versions[0 + 1] = "http_version_h" /\ Versions[1 + 1] = "http_version_t_1" /\ Versions[2 + 1] = "http_version_t_2"
        /\ Versions[3 + 1] = "http_version_p" /\ Versions[4 + 1] = "http_version_slash"
        /\ Versions[5 + 1] = "http_version_major_start" /\ Versions[6 + 1] = "http_version_major"
    BY VersionNames
  <2> QED
    BY <2>1, <2>2, <2>3, <2>4, <2>5, Literals
<1> QED
  BY <1>1, <1>2, <1>3, <1>4, <1>5, <1>6

\* The shape of what has been read in three states.
LEMMA AtShape ==
    ASSUME ParserInv
    PROVE  /\ at = "http_version_minor" => InMinor(input, minor)
           /\ at = "expecting_newline_1" => InNewline1(input)
           /\ at \in HeaderStates => \E f : FirstLine(input, f)
<1>1. \A j \in 0 .. 7 : Versions[j + 1] \notin HeaderStates \cup {"http_version_minor", "expecting_newline_1"}
  <2> SUFFICES ASSUME NEW j \in 0 .. 7 PROVE Versions[j + 1] \notin HeaderStates \cup {"http_version_minor", "expecting_newline_1"}
    OBVIOUS
  <2>1. j = 0 \/ j = 1 \/ j = 2 \/ j = 3 \/ j = 4 \/ j = 5 \/ j = 6 \/ j = 7
    OBVIOUS
  <2> QED
    BY <2>1, VersionNames DEF HeaderStates
<1>2. CASE FirstShape
  BY <1>1, <1>2 DEF FirstShape, HeaderStates
<1>3. CASE HeaderShape
  <2>1. \E f : FirstLine(input, f)
    BY <1>3, HeaderHasLine
  <2>2. at \notin {"http_version_minor", "expecting_newline_1"}
    BY <1>3 DEF HeaderShape
  <2> QED
    BY <2>1, <2>2
<1> QED
  BY <1>2, <1>3 DEF ParserInv, HeaderStates

LEMMA DigitStep == ParserInv /\ DigitInv /\ [PNext]_pvars => DigitInv'
<1> SUFFICES ASSUME ParserInv, DigitInv, [PNext]_pvars PROVE DigitInv'
  OBVIOUS
<1>1. input \in Text
  BY DEF ParserInv
<1>2. CASE UNCHANGED pvars
  BY <1>2 DEF pvars, DigitInv, HeaderStates, FirstLine
<1>3. CASE Reset
  BY <1>3 DEF Reset, DigitInv, HeaderStates
<1>4. ASSUME NEW c \in Bytes, Consume(c) PROVE DigitInv'
  <2>1. c \in 0 .. 255 /\ input' = Append(input, c) /\ input' \in Text /\ at \notin {"good", "bad"}
    BY <1>1, <1>4, ConsumeBy
  <2>2. /\ at' = "expecting_newline_1" => at = "http_version_minor" /\ c = CR /\ minor' = minor
        /\ at' \in HeaderStates \cup {"good"} =>
               minor' = minor /\ (at \in HeaderStates \/ (at = "expecting_newline_1" /\ c = LF))
    BY <1>1, <1>4, DigitMoves
  <2>3. ASSUME at' = "expecting_newline_1" PROVE minor' = input'[Len(input') - 1] - 48
    <3>1. InMinor(input, minor)
      BY <2>2, <2>3, AtShape
    <3> QED
      BY <1>1, <2>1, <2>2, <2>3, <3>1, MinorBeforeNewline
  <2>4. ASSUME at' \in HeaderStates \cup {"good"}, NEW f, FirstLine(input', f) PROVE minor' = input'[f - 3] - 48
    <3>1. CASE at \in HeaderStates
      <4>1. PICK g : FirstLine(input, g)
        BY <3>1, AtShape
      <4>2. g - 3 \in 1 .. Len(input) /\ minor = input[g - 3] - 48
        BY <1>1, <3>1, <4>1, FirstLineDigit DEF DigitInv
      <4>3. Ext(input, input')
        BY <1>1, <2>1, OneMoreByte
      <4>4. FirstLine(input', g)
        BY <1>1, <2>1, <4>1, <4>3, ExtFirstLine
      <4>5. g = f
        BY <2>1, <2>4, <4>4, OneFirstLine
      <4>6. input'[g - 3] = input[g - 3]
        BY <4>2, <4>3 DEF Ext
      <4> QED
        BY <2>2, <2>4, <4>2, <4>5, <4>6
    <3>2. CASE at = "expecting_newline_1" /\ c = LF
      <4>1. InNewline1(input) /\ minor = input[Len(input) - 1] - 48
        BY <3>2, AtShape DEF DigitInv
      <4>2. /\ FirstLine(input', Len(input) + 2) /\ (Len(input) + 2) - 3 = Len(input) - 1
            /\ input'[Len(input) - 1] = input[Len(input) - 1]
        BY <1>1, <2>1, <3>2, <4>1, NewlineFirstLine
      <4>3. f = Len(input) + 2
        BY <2>1, <2>4, <4>2, OneFirstLine
      <4> QED
        BY <2>2, <2>4, <4>1, <4>2, <4>3
    <3> QED
      BY <2>2, <2>4, <3>1, <3>2
  <2> QED
    BY <2>3, <2>4 DEF DigitInv
<1> QED
  BY <1>2, <1>3, <1>4 DEF PNext

LEMMA ParserInvAlways == PSpec => [](ParserInv /\ DigitInv)
<1>1. PInit => ParserInv /\ DigitInv
  BY ParserInit DEF PInit, DigitInv, HeaderStates
<1>2. ParserInv /\ DigitInv /\ [PNext]_pvars => (ParserInv /\ DigitInv)'
  BY ParserStep, DigitStep
<1> QED
  BY <1>1, <1>2, PTL DEF PSpec

\* The parser (http_request_parser.cpp, consume and reset) says Good of every
\* request, and Bad exactly when no bytes can make a request of what it got since
\* the last reset, but for the minor versions above s_maxVersion that
\* boundedAddDigit takes: for every input, every limit on method, uri and
\* headers, and every number of resets.
THEOREM VerdictIsRightAlways == PSpec => []VerdictIsRight
BY ParserInvAlways, ParserVerdict, PTL

\* Bad is said only when no request at all begins with the bytes read, and then
\* at once, but for those minor versions: the ends of the sample that
\* VerdictIsRight tries decide for every end there is.
THEOREM BadIsHopelessAlways ==
    PSpec => []((at = "bad" => Hopeless(input)) /\ (Hopeless(input) => at = "bad" \/ minor > MaxMinor))
<1>1. ParserInv /\ DigitInv => (at = "bad" => Hopeless(input)) /\ (Hopeless(input) => at = "bad" \/ minor > MaxMinor)
  <2> SUFFICES ASSUME ParserInv, DigitInv, Hopeless(input) PROVE at = "bad" \/ minor > MaxMinor
    BY ParserVerdict
  <2>1. input \in Text /\ VerdictIsRight /\ Len(input) \in Nat
    BY ParserVerdict, TextFacts DEF ParserInv
  <2>2. Ext(input, input)
    BY <2>1 DEF Ext
  <2>3. ~IsRequest(input)
    BY <2>1, <2>2 DEF Hopeless
  <2>4. ~CanBecomeRequest(input)
    BY <2>1, ExtEnd DEF Hopeless, CanBecomeRequest
  <2> QED
    BY <2>1, <2>3, <2>4 DEF VerdictIsRight
<1> QED
  BY <1>1, ParserInvAlways, PTL

=============================================================================
