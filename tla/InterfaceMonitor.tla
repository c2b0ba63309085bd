-------------------------- MODULE InterfaceMonitor --------------------------
(***************************************************************************)
(* The Linux interface monitor, src/src/interface_monitor_linux.cpp, with  *)
(* the kernel it listens to and the address map of the ServerManager it    *)
(* reports to.                                                             *)
(*                                                                         *)
(* The monitor never asks what the kernel's addresses are: it replays the  *)
(* netlink messages into addAddress and removeAddress.  A message says     *)
(* what was true when it was queued; the name and the flags of the         *)
(* interface are looked up when it is read, which may be much later.       *)
(***************************************************************************)
EXTENDS Naturals, Sequences, FiniteSets, AddressMap

CONSTANTS
    Indexes,     \* interface indexes
    Names,       \* interface names
    FirstName,   \* the name each interface has at the start
    Allowed,     \* names for which isAllowedInterface is true
    Multicast,   \* indexes with IFF_MULTICAST and without IFF_LOOPBACK
    Changing,    \* indexes of the interfaces to which something happens
    IndexOf,     \* the interface an address belongs to
    V6,          \* the addresses that are IPv6 link-local ones
    Expiring,    \* the addresses whose preferred lifetime may end
    MaxQueue,    \* messages the netlink socket's receive buffer holds
    MaxResizes,  \* bound on the truncated reads
    Gone         \* the name of an interface that was deleted

\* The kernel gives no two interfaces the same name.
ASSUME MonitorAssumption ==
    /\ FirstName \in [Indexes -> Names]
    /\ \A i, j \in Indexes : FirstName[i] = FirstName[j] => i = j
    /\ IndexOf \in [Addrs -> Indexes] /\ IsFiniteSet(Addrs)
    /\ Allowed \subseteq Names /\ Multicast \subseteq Indexes /\ V6 \subseteq Addrs
    /\ Changing \subseteq Indexes /\ Expiring \subseteq Addrs
    /\ Gone \notin Names /\ Absent \notin Names /\ Null \notin Names
    /\ MaxQueue \in Nat \ {0, 1} /\ MaxResizes \in Nat

VARIABLES
    name,        \* kernel: the name of each interface
    status,      \* kernel: what each address is
    queue,       \* kernel: the messages in the netlink socket
    dump,        \* kernel: addresses the RTM_GETADDR dump has still to list
    dumping,     \* kernel: is a dump under way?
    overrun,     \* kernel: was a message dropped because the buffer was full?
    resizes,     \* times the buffer was found too small
    alive,       \* has no fatal error ended the process?
    deprecated,  \* history: addresses that were deprecated
    renamed      \* history: interfaces that were renamed or deleted

kvars == <<name, status, dump, dumping, deprecated, renamed>>
imvars == <<kvars, queue, overrun, manager, resizes, alive>>

Statuses == {"absent", "tentative", "preferred", "deprecated"}

\* ifa_flags that parseBuffer skips
Skipped(m) == m.flags \in {"tentative", "deprecated"}

Msg(t, a, n, f) == [type |-> t, addr |-> a, label |-> n, flags |-> f]

IMInit ==
    /\ name = FirstName
    /\ status \in [Addrs -> {"absent", "preferred"}]
    /\ \A a \in Addrs : IndexOf[a] \notin Changing => status[a] = "preferred"
    /\ queue = <<>> /\ overrun = FALSE
    /\ dump = Addrs /\ dumping = TRUE     \* start() called requestAll()
    /\ MapInit
    /\ resizes = 0 /\ alive = TRUE
    /\ deprecated = {} /\ renamed = {}

-----------------------------------------------------------------------------
(* The kernel (external) *)

\* A notification is queued, or dropped and the socket told about it.
Notify(m) ==
    IF Len(queue) < MaxQueue
    THEN queue' = Append(queue, m) /\ UNCHANGED overrun
    ELSE overrun' = TRUE /\ UNCHANGED queue

\* Several at once, of which those are queued that fit.
NotifyAll(ms) ==
    LET room == MaxQueue - Len(queue) IN
    IF Len(ms) <= room
    THEN queue' = queue \o ms /\ UNCHANGED overrun
    ELSE queue' = queue \o SubSeq(ms, 1, room) /\ overrun' = TRUE

Changes(a, f) ==
    /\ alive
    /\ IndexOf[a] \in Changing /\ name[IndexOf[a]] # Gone
    /\ status' = [status EXCEPT ![a] = f]
    /\ UNCHANGED <<name, dump, dumping, renamed, manager, resizes, alive>>

\* An IPv6 address is tentative until duplicate address detection is done.
AddrAdded(a) ==
    LET f == IF a \in V6 THEN "tentative" ELSE "preferred" IN
    /\ status[a] = "absent"
    /\ Changes(a, f)
    /\ Notify(Msg("new", a, name[IndexOf[a]], f))
    /\ UNCHANGED deprecated

AddrReady(a) ==
    /\ status[a] = "tentative"
    /\ Changes(a, "preferred")
    /\ Notify(Msg("new", a, name[IndexOf[a]], "preferred"))
    /\ UNCHANGED deprecated

\* The preferred lifetime of the address ends.
AddrDeprecated(a) ==
    /\ a \in Expiring
    /\ status[a] = "preferred"
    /\ Changes(a, "deprecated")
    /\ Notify(Msg("new", a, name[IndexOf[a]], "deprecated"))
    /\ deprecated' = deprecated \cup {a}

\* RTM_DELADDR carries the flags the address had.
AddrRemoved(a) ==
    /\ status[a] # "absent"
    /\ Changes(a, "absent")
    /\ Notify(Msg("del", a, name[IndexOf[a]], status[a]))
    /\ UNCHANGED deprecated

\* The orders in which the elements of S can be listed.
Listings(S) ==
    {s \in [1..Cardinality(S) -> S] : \A x \in S : \E k \in 1..Cardinality(S) : s[k] = x}

\* IPv4 addresses are announced again under the new label, IPv6 ones are not.
\* (Bound: an interface is renamed once.)
Renamed(i, n) ==
    LET V4 == {a \in Addrs \ V6 : IndexOf[a] = i /\ status[a] # "absent"} IN
    /\ alive
    /\ i \in Changing \ renamed
    /\ name[i] # Gone /\ \A j \in Indexes : name[j] # n
    /\ name' = [name EXCEPT ![i] = n]
    /\ renamed' = renamed \cup {i}
    /\ \E s \in Listings(V4) :
            NotifyAll([k \in 1..Cardinality(V4) |-> Msg("new", s[k], n, status[s[k]])])
    /\ UNCHANGED <<status, dump, dumping, deprecated, manager, resizes, alive>>

\* A device goes away after its addresses.
Deleted(i) ==
    /\ alive
    /\ i \in Changing /\ name[i] # Gone
    /\ \A a \in Addrs : IndexOf[a] = i => status[a] = "absent"
    /\ name' = [name EXCEPT ![i] = Gone]
    /\ renamed' = renamed \cup {i}
    /\ UNCHANGED <<status, queue, overrun, dump, dumping, deprecated, manager, resizes, alive>>

\* The dump lists one more address as it is now, or ends.  It waits for room.
Dumps ==
    /\ alive
    /\ dumping
    /\ Len(queue) < MaxQueue
    /\ \/ \E a \in dump :
            /\ dump' = dump \ {a}
            /\ queue' = IF status[a] = "absent" THEN queue
                        ELSE Append(queue, Msg("new", a, name[IndexOf[a]], status[a]))
            /\ UNCHANGED dumping
       \/ /\ dump = {}
          /\ dumping' = FALSE
          /\ queue' = Append(queue, [type |-> "done"])
          /\ UNCHANGED dump
    /\ UNCHANGED <<name, status, overrun, deprecated, renamed, manager, resizes, alive>>

-----------------------------------------------------------------------------
\* A server stops because of a network error; its entry stays.
ServerFails(a) ==
    /\ alive
    /\ Fails(a)
    /\ UNCHANGED <<kvars, queue, overrun, resizes, alive>>

-----------------------------------------------------------------------------
(* InterfaceMonitorImpl *)

\* A request during a dump is answered with an error (EBUSY).
RequestAll(q) ==
    IF dumping
    THEN /\ queue' = Append(q, [type |-> "error"])
         /\ UNCHANGED <<dump, dumping>>
    ELSE /\ queue' = q
         /\ dump' = Addrs /\ dumping' = TRUE

\* parseRtAttr: the label of the message, or what the index is called now.
InterfaceName(m) == IF m.addr \in V6 THEN name[IndexOf[m.addr]] ELSE m.label

\* handleDetected: the flags are asked for by name.  The name must still exist,
\* and may by now be another interface's.
HasFlags(m) == \E i \in Multicast : name[i] = InterfaceName(m)

\* parseBuffer goes on to handleDetected.
Considered(m) == ~Skipped(m) /\ InterfaceName(m) # Gone /\ InterfaceName(m) \in Allowed

Receives(types) ==
    /\ alive /\ ~overrun
    /\ queue # <<>>
    /\ Head(queue).type \in types

\* An address is there.
ReceiveNew ==
    /\ Receives({"new"})
    /\ queue' = Tail(queue)
    /\ LET m == Head(queue) IN
       IF Considered(m) /\ HasFlags(m)
       THEN AddAddress(m.addr, InterfaceName(m))
       ELSE UNCHANGED manager
    /\ UNCHANGED <<kvars, overrun, resizes, alive>>

\* An address is gone.
ReceiveDel ==
    /\ Receives({"del"})
    /\ queue' = Tail(queue)
    /\ LET m == Head(queue) IN
       IF Considered(m) THEN RemoveAddress(m.addr, InterfaceName(m)) ELSE UNCHANGED manager
    /\ UNCHANGED <<kvars, overrun, resizes, alive>>

\* Mutant: the break after Done is missing.
ReceiveDoneFallsThrough ==
    /\ Receives({"done"})
    /\ RequestAll(Tail(queue))
    /\ UNCHANGED <<name, status, deprecated, renamed, overrun, manager, resizes, alive>>

\* The end of a dump.
ReceiveDone ==
    /\ Receives({"done"})
    /\ queue' = Tail(queue)
    /\ UNCHANGED <<kvars, overrun, manager, resizes, alive>>

\* NLMSG_ERROR: ask for everything again.
ReceiveError ==
    /\ Receives({"error"})
    /\ RequestAll(Tail(queue))
    /\ UNCHANGED <<name, status, deprecated, renamed, overrun, manager, resizes, alive>>

\* Mutant: the buffer is doubled and nothing asked for.
ReceiveTruncatedOnly ==
    /\ Receives({"new"})
    /\ dumping
    /\ resizes < MaxResizes
    /\ resizes' = resizes + 1
    /\ queue' = Tail(queue)
    /\ UNCHANGED <<kvars, overrun, manager, alive>>

\* A message does not fit the buffer: it is lost, the buffer is doubled and
\* everything is asked for again.  (Only a dump has messages that long; which
\* of the queued messages are the dump's is not tracked.)
ReceiveTruncated ==
    /\ Receives({"new"})
    /\ dumping
    /\ resizes < MaxResizes
    /\ resizes' = resizes + 1
    /\ RequestAll(Tail(queue))
    /\ UNCHANGED <<name, status, deprecated, renamed, overrun, manager, alive>>

\* The socket reports ENOBUFS: onFatalInterfaceMonitorError throws, and the
\* exception ends the process.
ReceiveFails ==
    /\ alive
    /\ overrun
    /\ alive' = FALSE
    /\ UNCHANGED <<kvars, queue, overrun, manager, resizes>>

-----------------------------------------------------------------------------
IMNext ==
    \/ \E a \in Addrs :
        AddrAdded(a) \/ AddrReady(a) \/ AddrDeprecated(a) \/ AddrRemoved(a) \/ ServerFails(a)
    \/ \E i \in Indexes : Deleted(i) \/ \E n \in Names : Renamed(i, n)
    \/ Dumps
    \/ ReceiveNew \/ ReceiveDel \/ ReceiveDone \/ ReceiveError \/ ReceiveTruncated
    \/ ReceiveFails

IMSpec == IMInit /\ [][IMNext]_imvars

\* The event loop reads what is queued, and the kernel goes on with a dump
\* while there is room.
IMFairness ==
    /\ WF_imvars(Dumps)
    /\ WF_imvars(ReceiveNew \/ ReceiveDel \/ ReceiveDone \/ ReceiveError \/ ReceiveFails)

IMFairSpec == IMSpec /\ IMFairness

-----------------------------------------------------------------------------
(* Properties *)

\* The monitor has read all there is to read.
Quiet == alive /\ queue = <<>> /\ ~dumping /\ ~overrun

Usable(a) ==
    /\ status[a] = "preferred"
    /\ name[IndexOf[a]] \in Allowed
    /\ IndexOf[a] \in Multicast

\* Whatever the order of notifications, dump, truncated reads, errors and
\* overruns: when all is read, no address that should be served was missed.
\* (An IPv6 address is not announced again when its interface is renamed.)
NoMissedAddress ==
    Quiet => \A a \in Addrs :
                Usable(a) => entry[a] # Absent \/ (a \in V6 /\ IndexOf[a] \in renamed)

\* When all is read, an address that is gone is served no more: a dump never
\* brings it back.  The only exceptions are addresses that were deprecated and
\* interfaces that were renamed or deleted: their removal is skipped, and they go
\* on being served, although "an interface must have an address"
\* (doc/wsddn.8.adoc:323).  And an interface that the options do not select or
\* that cannot do multicast is never served, not even for a while ("Loop-back
\* interfaces are never used", doc/wsddn.8.adoc:322).
GhostsExplained ==
    \A a \in Addrs :
        running[a] /\ IndexOf[a] \notin renamed =>
            /\ IndexOf[a] \in Multicast /\ entry[a] \in Allowed
            /\ Quiet /\ status[a] = "absent" => a \in deprecated

\* Errors are answered with new requests, and those with new errors while a dump
\* is under way: once the addresses stop changing, this comes to an end.
Settles ==
    <>[][UNCHANGED <<name, status>>]_imvars => <>[](Quiet \/ ~alive)
=============================================================================
