----------------------------- MODULE HttpServer -----------------------------
(***************************************************************************)
(* The connections of one HTTP server and the timer that collects the old  *)
(* ones: HttpServerImpl and the reads and writes of HttpConnection in      *)
(* src/src/http_server.cpp.  What a request says and how it is parsed is   *)
(* left out: a read ends in more reading, in a reply that keeps the        *)
(* connection, or in a last reply.                                         *)
(*                                                                         *)
(* An action is one completion handler.  The handler of a timer that was   *)
(* cancelled or set anew still runs, later; one that expired before the    *)
(* cancel runs as if nothing had happened.                                 *)
(***************************************************************************)
EXTENDS Integers, FiniteSets

CONSTANTS
    Conns,          \* connection objects; a destroyed one may be reused
    Addrs,          \* remote addresses
    NoAddr,         \* that of a connection object that does not exist
    MaxSameAddr,    \* g_httpMaxConnectionsFromSameAddress (20)
    MaxDuration,    \* g_httpMaxConnectionDuration (5 seconds)
    MaxTime,        \* bound on the clock
    MaxAborted      \* bound on aborted timer handlers not yet run

ASSUME HttpAssumption ==
    /\ MaxSameAddr \in Nat \ {0} /\ MaxDuration \in Nat \ {0}
    /\ MaxTime \in Nat /\ MaxAborted \in Nat
    /\ NoAddr \notin Addrs

VARIABLES
    handler,      \* is m_handler set?
    accepting,    \* is an accept pending?
    conns,        \* m_connections
    addrOf,       \* m_remoteAddr
    startOf,      \* m_startTime
    op,           \* the operation pending on the connection's socket
    armed,        \* when the GC wait is due; -1 without one
    expired,      \* GC handlers that are to run because time is up
    aborted,      \* GC handlers that are to run because they were cancelled
    now,          \* the steady clock
    broken        \* did an exception leave the event loop?

hvars == <<handler, accepting, conns, addrOf, startOf, op, armed, expired, aborted, now, broken>>
gcvars == <<armed, expired, aborted>>

SameAddr(a) == {c \in conns : addrOf[c] = a}

HInit ==
    /\ handler = TRUE /\ accepting = TRUE
    /\ conns = {}
    /\ addrOf = [c \in Conns |-> NoAddr]
    /\ startOf = [c \in Conns |-> 0]
    /\ op = [c \in Conns |-> "none"]
    /\ armed = -1 /\ expired = 0 /\ aborted = 0
    /\ now = 0
    /\ broken = FALSE

-----------------------------------------------------------------------------
(* m_gcTimer *)

\* expires_after and async_wait: a wait that is pending is cancelled.
ScheduleGC ==
    /\ armed' = now + MaxDuration
    /\ aborted' = IF armed = -1 THEN aborted ELSE aborted + 1

\* Mutant: the wait is left to expire.
CancelGCNot == UNCHANGED <<armed, aborted>>

\* cancel()
CancelGC ==
    /\ armed' = -1
    /\ aborted' = IF armed = -1 THEN aborted ELSE aborted + 1

-----------------------------------------------------------------------------
(* HttpServerImpl *)

\* Mutant: a connection is dropped when there are already too many.
EvictedLate(a) ==
    IF Cardinality(SameAddr(a)) <= MaxSameAddr
    THEN {{}}
    ELSE {{c} : c \in {c \in SameAddr(a) : \A d \in SameAddr(a) : startOf[c] <= startOf[d]}}

\* The connections of a that have to go before one more comes in: the oldest,
\* any one of them.
Evicted(a) ==
    IF Cardinality(SameAddr(a)) < MaxSameAddr
    THEN {{}}
    ELSE {{c} : c \in {c \in SameAddr(a) : \A d \in SameAddr(a) : startOf[c] <= startOf[d]}}

\* Mutant: every connection sets the timer anew.
AcceptPostpones(c, a) ==
    /\ accepting /\ handler /\ ~broken
    /\ op[c] = "none"
    /\ \E out \in Evicted(a) : conns' = (conns \ out) \cup {c}
    /\ addrOf' = [addrOf EXCEPT ![c] = a]
    /\ startOf' = [startOf EXCEPT ![c] = now]
    /\ op' = [op EXCEPT ![c] = "read"]
    /\ ScheduleGC
    /\ UNCHANGED <<handler, accepting, expired, now, broken>>

\* A connection is accepted: handleConnection, then accept() again.
Accept(c, a) ==
    /\ accepting /\ handler /\ ~broken
    /\ op[c] = "none"
    /\ \E out \in Evicted(a) : conns' = (conns \ out) \cup {c}
    /\ addrOf' = [addrOf EXCEPT ![c] = a]
    /\ startOf' = [startOf EXCEPT ![c] = now]
    /\ op' = [op EXCEPT ![c] = "read"]
    /\ IF conns = {} THEN ScheduleGC ELSE UNCHANGED <<armed, aborted>>
    /\ UNCHANGED <<handler, accepting, expired, now, broken>>

\* The peer has gone before the handler runs: remote_endpoint() throws, and the
\* exception leaves the event loop.
AcceptThrows ==
    /\ accepting /\ handler /\ ~broken
    /\ broken' = TRUE
    /\ UNCHANGED <<handler, accepting, conns, addrOf, startOf, op, gcvars, now>>

\* stop(): from the owner, or through onFatalHttpError.
Stopped ==
    /\ handler' = FALSE
    /\ conns' = {}
    /\ UNCHANGED <<addrOf, startOf, op, now, broken>>

AcceptFails ==
    /\ accepting /\ handler /\ ~broken
    /\ accepting' = FALSE
    /\ Stopped /\ CancelGC
    /\ UNCHANGED expired

AcceptAborted ==
    /\ accepting /\ ~handler /\ ~broken
    /\ accepting' = FALSE
    /\ UNCHANGED <<handler, conns, addrOf, startOf, op, gcvars, now, broken>>

Stop ==
    /\ handler /\ ~broken
    /\ Stopped /\ CancelGC
    /\ UNCHANGED <<accepting, expired>>

\* The wait's time has come: its handler is queued.
TimerExpires ==
    /\ ~broken
    /\ armed # -1 /\ armed <= now
    /\ armed' = -1
    /\ expired' = expired + 1
    /\ UNCHANGED <<handler, accepting, conns, addrOf, startOf, op, aborted, now, broken>>

\* The handler of scheduleGC: connections that are too old are dropped, and the
\* timer is set again while there are others.
Collect ==
    /\ expired > 0 /\ ~broken
    /\ expired' = expired - 1
    /\ IF handler
       THEN /\ conns' = {c \in conns : now - startOf[c] <= MaxDuration}
            /\ IF conns' # {} THEN ScheduleGC ELSE UNCHANGED <<armed, aborted>>
       ELSE UNCHANGED <<conns, armed, aborted>>
    /\ UNCHANGED <<handler, accepting, addrOf, startOf, op, now, broken>>

\* A cancelled wait ends; nothing is done about it.
CollectAborted ==
    /\ aborted > 0 /\ ~broken
    /\ aborted' = aborted - 1
    /\ UNCHANGED <<handler, accepting, conns, addrOf, startOf, op, armed, expired, now, broken>>

\* onConnectionFinished
Finished(c) ==
    /\ conns' = conns \ {c}
    /\ IF conns' = {} THEN CancelGC ELSE UNCHANGED <<armed, aborted>>

-----------------------------------------------------------------------------
(* HttpConnection *)

\* The last reference to c goes with its last handler.
Destroyed(c) ==
    /\ op' = [op EXCEPT ![c] = "none"]
    /\ addrOf' = [addrOf EXCEPT ![c] = NoAddr]
    /\ startOf' = [startOf EXCEPT ![c] = 0]

\* A handler of a connection that was stopped: m_owner is null.
OpAborted(c) ==
    /\ ~broken
    /\ op[c] # "none" /\ c \notin conns
    /\ Destroyed(c)
    /\ UNCHANGED <<handler, accepting, conns, gcvars, now, broken>>

\* A reply that keeps the connection was sent: read the next request.
ReplySent(c) ==
    /\ ~broken
    /\ c \in conns /\ op[c] = "reply"
    /\ op' = [op EXCEPT ![c] = "read"]
    /\ UNCHANGED <<handler, accepting, conns, addrOf, startOf, gcvars, now, broken>>

\* A request was read whole, or was found to be bad: reply.
RequestRead(c) ==
    /\ ~broken
    /\ c \in conns /\ op[c] = "read"
    /\ \E next \in {"reply", "last"} : op' = [op EXCEPT ![c] = next]
    /\ UNCHANGED <<handler, accepting, conns, addrOf, startOf, gcvars, now, broken>>

\* The last reply was sent, or a read or a write failed.
Finish(c) ==
    /\ ~broken
    /\ c \in conns /\ op[c] # "none"
    /\ Finished(c)
    /\ Destroyed(c)
    /\ UNCHANGED <<handler, accepting, expired, now, broken>>

-----------------------------------------------------------------------------
\* Time passes.  A timer that is due and the handlers it queued run first: they
\* take no time on the scale of seconds.
Tick ==
    /\ ~broken
    /\ now < MaxTime
    /\ expired = 0 /\ (armed = -1 \/ now < armed)
    /\ now' = now + 1
    /\ UNCHANGED <<handler, accepting, conns, addrOf, startOf, op, gcvars, broken>>

HNext ==
    \/ aborted < MaxAborted /\ \E c \in Conns, a \in Addrs : Accept(c, a)
    \/ AcceptThrows \/ AcceptFails \/ AcceptAborted \/ Stop
    \/ TimerExpires \/ Collect \/ CollectAborted
    \/ \E c \in Conns : OpAborted(c) \/ RequestRead(c) \/ ReplySent(c) \/ Finish(c)
    \/ Tick

HSpec == HInit /\ [][HNext]_hvars

\* The event loop delivers aborts and expired timers.
HFairness ==
    /\ WF_hvars(AcceptAborted) /\ WF_hvars(TimerExpires)
    /\ WF_hvars(Collect) /\ WF_hvars(CollectAborted)
    /\ \A c \in Conns : WF_hvars(OpAborted(c))

HFairSpec == HSpec /\ HFairness

-----------------------------------------------------------------------------
(* Properties *)

HTypeOK ==
    /\ handler \in BOOLEAN /\ accepting \in BOOLEAN /\ broken \in BOOLEAN
    /\ conns \subseteq Conns
    /\ addrOf \in [Conns -> Addrs \cup {NoAddr}] /\ \A c \in conns : addrOf[c] \in Addrs
    /\ startOf \in [Conns -> Nat]
    /\ op \in [Conns -> {"none", "read", "reply", "last"}]
    /\ armed \in Nat \cup {-1} /\ expired \in Nat /\ aborted \in Nat
    /\ now \in Nat

\* As long as there is a connection, a collection is on its way, whatever the
\* order of accepts, ends of connections, cancels and late timer handlers.
CollectionDue == conns # {} => armed # -1 \/ expired > 0

\* Every connection waits for something: none is left without a read or a write
\* that can end it, and a connection that is not the server's any more is not
\* reused before its last handler ran.
NoIdleConnection == \A c \in conns : op[c] # "none"

\* No more than the allowed number of connections per remote address, however
\* accepts, ends of connections and collections follow one another.  One that was
\* stopped does not count, although its last handler is still to run.
SameAddrBound == \A a \in Addrs : Cardinality(SameAddr(a)) <= MaxSameAddr

\* A client that does nothing is dropped after twice the maximal duration at the
\* latest.
AgeBound == \A c \in conns : now - startOf[c] <= 2 * MaxDuration

\* Why AgeBound holds: a pending wait is not overdue, and is due before any
\* connection is older than that.
WaitIsTimely ==
    armed # -1 =>
        /\ now <= armed /\ armed <= now + MaxDuration
        /\ \A c \in conns : armed - startOf[c] <= 2 * MaxDuration

\* stop() left no connection.
StoppedHasNone == ~handler => conns = {}

\* The inductive invariant.
HInd ==
    /\ HTypeOK /\ IsFiniteSet(conns) /\ StoppedHasNone
    /\ CollectionDue /\ NoIdleConnection /\ SameAddrBound /\ WaitIsTimely /\ AgeBound

\* After stop() everything that was pending ends, so that the event loop can
\* run out of work.
HDrains ==
    ~handler ~> \/ broken
                \/ /\ ~accepting /\ armed = -1 /\ expired = 0 /\ aborted = 0
                   /\ \A c \in Conns : op[c] = "none"
=============================================================================
