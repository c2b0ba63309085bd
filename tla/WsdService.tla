----------------------------- MODULE WsdService -----------------------------
(***************************************************************************)
(* A WSD server with the requests it answers: the life cycle of WsdServer  *)
(* and the message handling of Requests are two views of one               *)
(* WsdServerImpl, and every completion handler acts on both.  A datagram   *)
(* that is answered begins a send with repeats; a failure, a stop or the   *)
(* end of a Bye ends the answering; and a server that is created for an    *)
(* address once more knows none of the messages of the one before.         *)
(***************************************************************************)
EXTENDS WsdServer, Requests

\* The messages of Requests are those of one server.
ASSUME OneServerAssumption == \A s, t \in Servers : s = t

VARIABLE
    owed    \* reply datagrams that were promised by an answer and not yet sent

svars == <<wvars, rvars, owed>>

SInit ==
    /\ WInit
    /\ known = {} /\ lru = <<>> /\ history = <<>>
    /\ number = 0
    /\ answering = "stopped"
    /\ owed = 0

\* createWsdServer and start: a new object, whose Hello has the first number.
ServerStarts(s) ==
    /\ OwnerStarts(s)
    /\ known' = {} /\ lru' = <<>> /\ history' = <<>>
    /\ number' = 1
    /\ answering' = "running"
    /\ owed' = 0

\* Where a server stops, it stops answering.
StopsAnswering(s) == IF state'[s] # state[s] THEN StopNow ELSE UNCHANGED rvars

\* Aborts, errors, the end of a send and removeAddress.
ServerContinues(s) ==
    /\ \/ \E sock \in Sockets : ReadAborted(s, sock) \/ ReadFails(s, sock)
       \/ AcceptAborted(s) \/ AcceptFails(s)
       \/ \E k \in Kinds : \/ WriteAborted(s, k) \/ WriteRepeats(s, k)
                           \/ WriteCompletes(s, k) \/ WriteFails(s, k)
       \/ OwnerStops(s)
    /\ StopsAnswering(s)
    /\ UNCHANGED owed

\* The delay between two copies is over.
CopySent(s, k) ==
    /\ TimerFires(s, k)
    /\ owed' = IF k = "reply" /\ handler[s] THEN owed - 1 ELSE owed
    /\ UNCHANGED rvars

\* ServerManager::stop: the Bye of a running server takes the next number.
ServerLeaves(s) ==
    /\ OwnerByes(s)
    /\ IF state[s] = "Running" THEN Bye ELSE UNCHANGED rvars
    /\ UNCHANGED owed

\* A datagram is answered: the first copy goes out, the others are owed.
DatagramAnswered(s, sock, r) ==
    /\ ReadAnswered(s, sock)
    /\ r.type = "Udp"
    /\ Len(history) < MaxNew
    /\ Answered(r)
    /\ owed' = owed + UnicastRepeats - 1

\* A datagram gets no reply: it is not for us, or it is the copy of another.
DatagramIgnored(s, sock, r) ==
    /\ sock \in reads[s]
    /\ handler[s] /\ Alive(s)
    /\ r.type = "Udp"
    /\ Ignored(r) \/ (Len(history) < MaxNew /\ Unhandled(r))
    /\ UNCHANGED <<wvars, owed>>

\* A request comes over a connection of the HTTP server; its reply is written
\* there.
HttpRequest(s, r) ==
    /\ handler[s] /\ Alive(s)
    /\ r.type = "Http"
    /\ Ignored(r) \/ (Len(history) < MaxNew /\ (Unhandled(r) \/ Answered(r)))
    /\ UNCHANGED <<wvars, owed>>

SNext ==
    \E s \in Servers :
        \/ ServerStarts(s) \/ ServerContinues(s) \/ ServerLeaves(s)
        \/ \E k \in Kinds : CopySent(s, k)
        \/ \E r \in Requests :
            \/ \E sock \in Sockets : DatagramAnswered(s, sock, r) \/ DatagramIgnored(s, sock, r)
            \/ HttpRequest(s, r)

SSpec == SInit /\ [][SNext]_svars

-----------------------------------------------------------------------------
(* Properties *)

\* A request that was taken for new is answered in full: the client's own
\* repeats will be ignored from then on, so the copies that are still owed must
\* be the ones that the pending send has left.  Only a failure or the stop of
\* the server cuts them short.
AnswersInFull ==
    \A s \in Servers :
        state[s] = "Running" =>
            owed = IF writes[s]["reply"].at = "send" THEN writes[s]["reply"].left - 1
                   ELSE writes[s]["reply"].left

\* Requests are answered exactly as long as the server runs, the time of the
\* farewell included, and the number of the Bye is taken once.
PhaseFollowsState ==
    \A s \in Servers :
        /\ answering = "stopped" <=> state[s] # "Running"
        /\ answering = "running" => writes[s]["bye"] = Idle
        /\ answering = "leaving" => ~owned[s] /\ writes[s]["bye"] # Idle
=============================================================================
