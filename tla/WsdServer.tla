------------------------------ MODULE WsdServer ------------------------------
(***************************************************************************)
(* The life of WSD server objects: src/src/wsd_server.cpp with the UDP     *)
(* server it owns (src/src/udp_server.cpp) and the accept loop of its HTTP *)
(* server (src/src/http_server.cpp).                                       *)
(*                                                                         *)
(* Everything runs on one asio event loop, so an action is one completion  *)
(* handler, start to end.  What interleaves is the order in which pending  *)
(* operations complete: two UDP read waits, the HTTP accept, and for every *)
(* message the sends and the delay timers between its repeats.             *)
(*                                                                         *)
(* A WsdServerImpl is reference counted.  Two things refer to it: the      *)
(* ServerManager's map, and the continuation of a Bye broadcast.  The UDP  *)
(* and HTTP servers are kept alive by their pending operations and refer   *)
(* back to the WsdServerImpl through the plain pointer m_handler.          *)
(***************************************************************************)
EXTENDS Naturals

CONSTANTS
    Servers,            \* WsdServerImpl objects; a destroyed one may be reused
    MulticastRepeats,   \* times a Hello or a Bye is sent (4 in the code)
    UnicastRepeats      \* times a reply is sent (2 in the code)

ASSUME RepeatsAssumption ==
    /\ MulticastRepeats \in Nat \ {0}
    /\ UnicastRepeats \in Nat \ {0}

VARIABLES
    state,      \* m_state; "none" when the object does not exist
    owned,      \* is the object referred to from the ServerManager's map?
    handler,    \* are m_handler of the UDP and HTTP servers set? (sockets open)
    reads,      \* the UDP sockets with a read wait pending
    accepting,  \* is an accept pending?
    writes,     \* writes[s][k]: the message of kind k that is being sent
    byes,       \* Bye datagrams sent since the object was created
    failed      \* did an operation of the object fail? (history)

wvars == <<state, owned, handler, reads, accepting, writes, byes, failed>>

Sockets == {"recv", "unicast"}
Kinds   == {"hello", "bye", "reply"}

\* A message between its sends: where it is, and how many sends are left,
\* the one under way included (repeatCount of the Callback).
Idle == [at |-> "idle", left |-> 0]
Writes == {Idle} \cup [at : {"send", "timer"}, left : Nat \ {0}]

Repeats(k) == IF k = "reply" THEN UnicastRepeats ELSE MulticastRepeats

Begin(k) == [at |-> "send", left |-> Repeats(k)]

\* Some operation of s is pending: the io_context has work.
Pending(s) ==
    \/ reads[s] # {}
    \/ accepting[s]
    \/ \E k \in Kinds : writes[s][k] # Idle

\* Mutant: the Bye continuation captures this without the holder.
AliveWithoutHolder(s) == owned[s]

\* The WsdServerImpl exists: the map or a Bye continuation refers to it.
Alive(s) == owned[s] \/ writes[s]["bye"] # Idle

\* Nothing is left of s.
Gone(s) == ~Alive(s) /\ ~Pending(s)

WInit ==
    /\ state = [s \in Servers |-> "none"]
    /\ owned = [s \in Servers |-> FALSE]
    /\ handler = [s \in Servers |-> FALSE]
    /\ reads = [s \in Servers |-> {}]
    /\ accepting = [s \in Servers |-> FALSE]
    /\ writes = [s \in Servers |-> [k \in Kinds |-> Idle]]
    /\ byes = [s \in Servers |-> 0]
    /\ failed = [s \in Servers |-> FALSE]

-----------------------------------------------------------------------------
(* WsdServerImpl::start and stop *)

\* createWsdServer and start: both servers begin to listen, Hello goes out.
Started(s) ==
    /\ state' = [state EXCEPT ![s] = "Running"]
    /\ handler' = [handler EXCEPT ![s] = TRUE]
    /\ reads' = [reads EXCEPT ![s] = Sockets]
    /\ accepting' = [accepting EXCEPT ![s] = TRUE]
    /\ writes' = [writes EXCEPT ![s] = [k \in Kinds |-> IF k = "hello" THEN Begin(k) ELSE Idle]]
    /\ byes' = [byes EXCEPT ![s] = 0]
    /\ failed' = [failed EXCEPT ![s] = FALSE]

\* stop(false): both servers forget their handler and close their sockets.
\* The pending operations stay pending until the loop delivers their abort.
Stopped(S) ==
    /\ state' = [s \in Servers |-> IF s \in S /\ state[s] = "Running" THEN "Stopped" ELSE state[s]]
    /\ handler' = [s \in Servers |-> handler[s] /\ s \notin S]

\* stop(true): a running server broadcasts a Bye and stays Running until the
\* last copy is out.  A stopped one ignores the call.
Byed(S) ==
    LET T == {s \in S : state[s] = "Running"} IN
    /\ writes' = [s \in Servers |->
                    IF s \in T THEN [writes[s] EXCEPT !["bye"] = Begin("bye")] ELSE writes[s]]
    /\ byes' = [s \in Servers |-> IF s \in T THEN 1 ELSE byes[s]]

-----------------------------------------------------------------------------
(* UdpServerImpl::read *)

\* A read wait ends after stop(): m_handler is null, nothing is armed again.
ReadAborted(s, sock) ==
    /\ sock \in reads[s]
    /\ ~handler[s]
    /\ reads' = [reads EXCEPT ![s] = @ \ {sock}]
    /\ UNCHANGED <<state, owned, handler, accepting, writes, byes, failed>>

\* Datagrams arrive; one of them is answered, and the wait is armed again.
\* (Bound: one reply per server is on its way at a time.  Datagrams that get no
\* answer leave this module's state as it was.)
ReadAnswered(s, sock) ==
    /\ sock \in reads[s]
    /\ handler[s] /\ Alive(s)
    /\ writes[s]["reply"] = Idle
    /\ writes' = [writes EXCEPT ![s]["reply"] = Begin("reply")]
    /\ UNCHANGED <<state, owned, handler, reads, accepting, byes, failed>>

\* Mutant: a failed receive is logged and forgotten.
ReadFailsQuietly(s, sock) ==
    /\ sock \in reads[s]
    /\ handler[s] /\ Alive(s)
    /\ reads' = [reads EXCEPT ![s] = @ \ {sock}]
    /\ failed' = [failed EXCEPT ![s] = TRUE]
    /\ UNCHANGED <<state, handler, owned, accepting, writes, byes>>

\* The wait or the receive fails: onFatalUdpError, which is stop(false).
ReadFails(s, sock) ==
    /\ sock \in reads[s]
    /\ handler[s] /\ Alive(s)
    /\ reads' = [reads EXCEPT ![s] = @ \ {sock}]
    /\ failed' = [failed EXCEPT ![s] = TRUE]
    /\ Stopped({s})
    /\ UNCHANGED <<owned, accepting, writes, byes>>

-----------------------------------------------------------------------------
(* HttpServerImpl::accept *)

AcceptAborted(s) ==
    /\ accepting[s]
    /\ ~handler[s]
    /\ accepting' = [accepting EXCEPT ![s] = FALSE]
    /\ UNCHANGED <<state, owned, handler, reads, writes, byes, failed>>

AcceptFails(s) ==
    /\ accepting[s]
    /\ handler[s] /\ Alive(s)
    /\ accepting' = [accepting EXCEPT ![s] = FALSE]
    /\ failed' = [failed EXCEPT ![s] = TRUE]
    /\ Stopped({s})
    /\ UNCHANGED <<owned, reads, writes, byes>>

-----------------------------------------------------------------------------
(* UdpServerImpl::write and its Callback *)

\* The send of a stopped server completes: the callback sees no handler.
WriteAborted(s, k) ==
    /\ writes[s][k].at = "send"
    /\ ~handler[s]
    /\ writes' = [writes EXCEPT ![s][k] = Idle]
    /\ UNCHANGED <<state, owned, handler, reads, accepting, byes, failed>>

\* A send completes and more are left: wait 50 to 250 ms.
WriteRepeats(s, k) ==
    /\ writes[s][k].at = "send"
    /\ handler[s]
    /\ writes[s][k].left > 1
    /\ writes' = [writes EXCEPT ![s][k] = [at |-> "timer", left |-> @.left - 1]]
    /\ UNCHANGED <<state, owned, handler, reads, accepting, byes, failed>>

\* Mutant: the continuation runs after the first send.
WriteCompletesEarly(s, k) ==
    /\ writes[s][k].at = "send"
    /\ handler[s]
    /\ writes' = [writes EXCEPT ![s][k] = Idle]
    /\ IF k = "bye" THEN Stopped({s}) ELSE UNCHANGED <<state, handler>>
    /\ UNCHANGED <<owned, reads, accepting, byes, failed>>

\* The last send completes.  The continuation of a Bye is stop(false).
WriteCompletes(s, k) ==
    /\ writes[s][k].at = "send"
    /\ handler[s]
    /\ writes[s][k].left = 1
    /\ writes' = [writes EXCEPT ![s][k] = Idle]
    /\ IF k = "bye" THEN Stopped({s}) ELSE UNCHANGED <<state, handler>>
    /\ UNCHANGED <<owned, reads, accepting, byes, failed>>

\* Mutant: the continuation of a Bye is not told of an error.
WriteFailsUntold(s, k) ==
    /\ writes[s][k].at = "send"
    /\ handler[s] /\ Alive(s)
    /\ writes' = [writes EXCEPT ![s][k] = Idle]
    /\ failed' = [failed EXCEPT ![s] = TRUE]
    /\ IF k = "bye" THEN UNCHANGED <<state, handler>> ELSE Stopped({s})
    /\ UNCHANGED <<owned, reads, accepting, byes>>

\* A send fails.  The continuation of a Bye and onFatalUdpError both are
\* stop(false).
WriteFails(s, k) ==
    /\ writes[s][k].at = "send"
    /\ handler[s] /\ Alive(s)
    /\ writes' = [writes EXCEPT ![s][k] = Idle]
    /\ failed' = [failed EXCEPT ![s] = TRUE]
    /\ Stopped({s})
    /\ UNCHANGED <<owned, reads, accepting, byes>>

\* The delay is over: send again, unless the socket was closed meanwhile.
TimerFires(s, k) ==
    /\ writes[s][k].at = "timer"
    /\ writes' = [writes EXCEPT ![s][k] = IF handler[s] THEN [@ EXCEPT !.at = "send"] ELSE Idle]
    /\ byes' = [byes EXCEPT ![s] = IF k = "bye" /\ handler[s] THEN @ + 1 ELSE @]
    /\ UNCHANGED <<state, owned, handler, reads, accepting, failed>>

-----------------------------------------------------------------------------
(* The event loop *)

\* Operations that complete whatever the network does.
Completes(s) ==
    \/ \E sock \in Sockets : ReadAborted(s, sock)
    \/ AcceptAborted(s)
    \/ \E k \in Kinds : \/ WriteAborted(s, k) \/ WriteRepeats(s, k)
                        \/ WriteCompletes(s, k) \/ TimerFires(s, k)

\* Operations the network or the kernel decides about.
Happens(s) ==
    \/ \E sock \in Sockets : ReadAnswered(s, sock) \/ ReadFails(s, sock)
    \/ AcceptFails(s)
    \/ \E k \in Kinds : WriteFails(s, k)

(* What an owner that keeps its side does: it releases a server only after a
   stop. *)
OwnerStarts(s) ==
    /\ Gone(s)
    /\ Started(s)
    /\ owned' = [owned EXCEPT ![s] = TRUE]

\* removeAddress: stop(false), then the map entry goes.
OwnerStops(s) ==
    /\ owned[s]
    /\ Stopped({s})
    /\ owned' = [owned EXCEPT ![s] = FALSE]
    /\ UNCHANGED <<reads, accepting, writes, byes, failed>>

\* ServerManager::stop: stop(true), then the map entry goes.
OwnerByes(s) ==
    /\ owned[s]
    /\ Byed({s})
    /\ owned' = [owned EXCEPT ![s] = FALSE]
    /\ UNCHANGED <<state, handler, reads, accepting, failed>>

WNext ==
    \E s \in Servers :
        Completes(s) \/ Happens(s) \/ OwnerStarts(s) \/ OwnerStops(s) \/ OwnerByes(s)

WSpec == WInit /\ [][WNext]_wvars

-----------------------------------------------------------------------------
(* Properties *)

WTypeOK ==
    /\ state \in [Servers -> {"none", "Running", "Stopped"}]
    /\ owned \in [Servers -> BOOLEAN]
    /\ handler \in [Servers -> BOOLEAN]
    /\ reads \in [Servers -> SUBSET Sockets]
    /\ accepting \in [Servers -> BOOLEAN]
    /\ writes \in [Servers -> [Kinds -> Writes]]
    /\ byes \in [Servers -> Nat]
    /\ failed \in [Servers -> BOOLEAN]

\* No pending operation can call through a dangling m_handler: whenever the UDP
\* or HTTP server of s still has its handler and an operation pending, the
\* WsdServerImpl behind the pointer exists.  During a graceful stop the only
\* thing that keeps it is the holder captured by the Bye continuation.
NoDanglingHandler ==
    \A s \in Servers : handler[s] /\ Pending(s) => Alive(s)

\* A running server is never deaf: both UDP read waits and the accept are armed
\* whenever it is Running, on every path through requests, errors and stops.
RunningListens ==
    \A s \in Servers : state[s] = "Running" => reads[s] = Sockets /\ accepting[s]

\* A server told to stop gracefully says Bye as often as it should, unless one
\* of its operations failed: nothing else cuts the farewell short.
ByeIsComplete ==
    [][\A s \in Servers :
          /\ state[s] = "Running" /\ state'[s] = "Stopped"
          /\ ~owned[s] /\ ~failed'[s]
          => byes[s] = MulticastRepeats]_wvars
=============================================================================
