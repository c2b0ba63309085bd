---------------------------- MODULE RouteMonitor ----------------------------
(***************************************************************************)
(* The BSD and macOS interface monitor, src/src/interface_monitor_bsd.cpp  *)
(* (the build with PF_ROUTE and its sysctl), with the kernel it listens to *)
(* and the address map of the ServerManager it reports to.                 *)
(*                                                                         *)
(* The routing socket exists from the constructor on, so notifications     *)
(* queue while start() copies the whole table with sysctl.  They are       *)
(* replayed after it although they may be older than what the table said.  *)
(* A message of the table names the interface once, for all addresses that *)
(* follow; a notification names the one it is about.  What the kernel drops *)
(* because the socket's buffer is full is never announced again.           *)
(***************************************************************************)
EXTENDS Naturals, SequencesExt, AddressMap

CONSTANTS
    Interfaces,  \* the number of interfaces; their indexes are 1..Interfaces
    Names,       \* interface names
    FirstName,   \* the name each interface has at the start
    Allowed,     \* names for which isAllowedInterface is true
    Multicast,   \* indexes with IFF_MULTICAST and without IFF_LOOPBACK
    Changing,    \* indexes of the interfaces to which something happens
    IndexOf,     \* the interface an address belongs to
    MaxQueue,    \* messages the routing socket's receive buffer holds
    BufferSize,  \* m_recvBuffer, in halves of a message
    Gone         \* the name of an interface that was deleted

Indexes == 1..Interfaces

\* The kernel gives no two interfaces the same name.
ASSUME RouteAssumption ==
    /\ Interfaces \in Nat
    /\ FirstName \in [Indexes -> Names]
    /\ \A i, j \in Indexes : FirstName[i] = FirstName[j] => i = j
    /\ IndexOf \in [Addrs -> Indexes] /\ IsFiniteSet(Addrs)
    /\ Allowed \subseteq Names /\ Multicast \subseteq Indexes /\ Changing \subseteq Indexes
    /\ Gone \notin Names /\ Absent \notin Addrs
    /\ \A i \in Indexes, n \in Names : [index |-> i, name |-> n] # Absent
    /\ MaxQueue \in Nat /\ BufferSize \in Nat \ {0, 1}

VARIABLES
    name,     \* kernel: the name of each interface
    present,  \* kernel: the addresses that exist
    queue,    \* kernel: the messages in the routing socket
    pc,       \* where the monitor is: in loadInitial, in parseTable, or waiting
    want,     \* loadInitial: buf.size()
    buf,      \* messages parseTable has still to look at
    half,     \* is the first half of the next message in m_recvBuffer already?
    known,    \* knownIfaces: indexes with their verdict
    last,     \* lastInterface
    lost,     \* history: addresses whose latest notification was dropped
    renamed   \* history: interfaces that were renamed or deleted

kernel == <<name, present, queue, lost, renamed>>
table == <<want, buf, half, known, last>>
rvars == <<kernel, pc, table, manager>>

NoInterface == [index |-> 0, name |-> Gone]
Interface(i) == [index |-> i, name |-> name[i]]

\* entry "addr" is RTA_IFA and "iface" is RTA_IFP of the message.
Message(t, a, i) == [type |-> t, addr |-> a, iface |-> i]

RInit0 ==
    /\ name = FirstName
    /\ present \in SUBSET Addrs
    /\ \A a \in Addrs : IndexOf[a] \notin Changing => a \in present
    /\ queue = <<>>
    /\ pc = "size" /\ want = 0
    /\ buf = <<>> /\ half = 0
    /\ known = {} /\ last = NoInterface
    /\ MapInit
    /\ lost = {} /\ renamed = {}

-----------------------------------------------------------------------------
(* The kernel (external) *)

Alive == pc \notin {"failed", "stopped"}

\* A notification is queued, or dropped without a trace.
Notify(m) ==
    IF Len(queue) < MaxQueue
    THEN queue' = Append(queue, m) /\ lost' = lost \ {m.addr}
    ELSE lost' = lost \cup ({m.addr} \cap Addrs) /\ UNCHANGED queue

AddrAdded(a) ==
    /\ Alive
    /\ a \notin present /\ IndexOf[a] \in Changing /\ name[IndexOf[a]] # Gone
    /\ present' = present \cup {a}
    /\ Notify(Message("new", a, Interface(IndexOf[a])))
    /\ UNCHANGED <<name, renamed, pc, table, manager>>

AddrRemoved(a) ==
    /\ Alive
    /\ a \in present /\ IndexOf[a] \in Changing
    /\ present' = present \ {a}
    /\ Notify(Message("del", a, Interface(IndexOf[a])))
    /\ UNCHANGED <<name, renamed, pc, table, manager>>

\* A new name is announced by messages that name no address.  (Bound: an
\* interface is renamed once.)
Renamed(i, n) ==
    /\ Alive
    /\ i \in Changing \ renamed
    /\ name[i] # Gone /\ \A j \in Indexes : name[j] # n
    /\ name' = [name EXCEPT ![i] = n]
    /\ renamed' = renamed \cup {i}
    /\ Notify(Message("announce", Absent, NoInterface))
    /\ UNCHANGED <<present, pc, table, manager>>

\* A device goes away after its addresses.
Deleted(i) ==
    /\ Alive
    /\ i \in Changing /\ name[i] # Gone
    /\ \A a \in present : IndexOf[a] # i
    /\ name' = [name EXCEPT ![i] = Gone]
    /\ renamed' = renamed \cup {i}
    /\ Notify(Message("info", Absent, NoInterface))
    /\ UNCHANGED <<present, pc, table, manager>>

\* The interface list: each interface, then its addresses, which do not say
\* whose they are.
ListOf(i) ==
    IF name[i] = Gone THEN <<>>
    ELSE LET Own == SetToSeq({a \in present : IndexOf[a] = i})
         IN <<Message("info", Absent, Interface(i))>>
              \o [k \in DOMAIN Own |-> Message("new", Own[k], NoInterface)]

List == FlattenSeq([i \in Indexes |-> ListOf(i)])

-----------------------------------------------------------------------------
(* InterfaceMonitorImpl::loadInitial *)

\* sysctl without a buffer tells the size.
SysctlSize ==
    /\ pc = "size"
    /\ want' = Len(List)
    /\ pc' = "copy"
    /\ UNCHANGED <<kernel, buf, half, known, last, manager>>

\* Mutant: buf.size() > tableSize ends the loop.
SysctlCopyStrict ==
    /\ pc = "copy"
    /\ Len(List) < want
    /\ buf' = List
    /\ want' = 0
    /\ pc' = "load"
    /\ UNCHANGED <<kernel, half, known, last, manager>>

\* The table fits: it is parsed.
SysctlCopy ==
    /\ pc = "copy"
    /\ Len(List) <= want
    /\ buf' = List
    /\ want' = 0
    /\ pc' = "load"
    /\ UNCHANGED <<kernel, half, known, last, manager>>

\* ENOMEM: the table has grown.  sysctl(3) then gives the amount it copied, so
\* that the buffer keeps its size.
SysctlNoMem ==
    /\ pc = "copy"
    /\ Len(List) > want
    /\ UNCHANGED rvars

\* Another error is thrown out of start().
SysctlFails ==
    /\ pc \in {"size", "copy"}
    /\ pc' = "failed"
    /\ UNCHANGED <<kernel, table, manager>>

-----------------------------------------------------------------------------
(* InterfaceMonitorImpl::parseTable, one message at a time *)

Parsing(types) ==
    /\ pc \in {"load", "parse"}
    /\ buf # <<>>
    /\ Head(buf).type \in types
    /\ buf' = Tail(buf)

\* Mutant: the interface of the first message counts for all of the table.
WhoseFirst(m) ==
    IF last # NoInterface THEN last ELSE m.iface

\* Whose message is it?  In the table (sequential) the last interface counts.
Whose(m) ==
    IF m.iface = NoInterface /\ pc = "load" THEN last ELSE m.iface

Remembers(m) == last' = IF pc = "load" THEN Whose(m) ELSE last

Selected(i) == i # NoInterface /\ i.name \in Allowed

\* The verdicts after those of i were looked for and, where there were none, its
\* flags asked for by name: that name may be nobody's or somebody else's by now.
Asked(i) ==
    IF \E v \in known : v.index = i.index THEN known
    ELSE known \cup {[index |-> i.index, usable |-> j \in Multicast] : j \in {k \in Indexes : name[k] = i.name}}

ParseInfo ==
    /\ Parsing({"info"})
    /\ LET m == Head(buf) i == Whose(m) IN
        /\ Remembers(m)
        /\ known' = IF ~Selected(i) THEN known
                    ELSE {v \in known : v.index # i.index}
                           \cup {[index |-> i.index, usable |-> i.index \in Multicast]}
    /\ UNCHANGED <<kernel, pc, want, half, manager>>

ParseNew ==
    /\ Parsing({"new"})
    /\ LET m == Head(buf) i == Whose(m) IN
        /\ Remembers(m)
        /\ known' = IF Selected(i) THEN Asked(i) ELSE known
        /\ IF Selected(i) /\ [index |-> i.index, usable |-> TRUE] \in known'
           THEN AddAddress(m.addr, i)
           ELSE UNCHANGED manager
    /\ UNCHANGED <<kernel, pc, want, half>>

\* A removal needs no flags: the interface may be gone with its address.
ParseDel ==
    /\ Parsing({"del"})
    /\ LET m == Head(buf) i == Whose(m) IN
        /\ Remembers(m)
        /\ known' = IF Selected(i) THEN Asked(i) ELSE known
        /\ IF Selected(i) THEN RemoveAddress(m.addr, i) ELSE UNCHANGED manager
    /\ UNCHANGED <<kernel, pc, want, half>>

\* Types the switch does not name.
ParseOther ==
    /\ Parsing({"announce"})
    /\ UNCHANGED <<kernel, pc, want, half, known, last, manager>>

\* The end of parseTable, and of what it has cached: start() returns, or the
\* next read is issued.
ParseEnds ==
    /\ pc \in {"load", "parse"}
    /\ buf = <<>>
    /\ pc' = "wait"
    /\ known' = {} /\ last' = NoInterface
    /\ UNCHANGED <<kernel, want, buf, half, manager>>

-----------------------------------------------------------------------------
(* InterfaceMonitorImpl::read, stop *)

\* Mutant: m_recvOffset is not kept.
ReadForgets ==
    /\ pc = "wait"
    /\ \E n \in 0..Len(queue), h \in {0, 1} :
        /\ n + h \in 1..Len(queue)
        /\ 2 * n + h <= BufferSize
        /\ n + h < Len(queue) \/ half = 0
        /\ buf' = SubSeq(queue, 1, n)
        /\ queue' = SubSeq(queue, n + h + 1, Len(queue))
    /\ half' = 0
    /\ pc' = "parse"
    /\ UNCHANGED <<name, present, lost, renamed, want, known, last, manager>>

\* A read brings n whole messages, the first of which may have been begun
\* before, and perhaps the first half of one more, which stays in the buffer.
Read ==
    /\ pc = "wait"
    /\ \E n \in 0..Len(queue), h \in {0, 1} :
        /\ n + h \in 1..Len(queue)
        /\ 2 * n + h <= BufferSize
        /\ n = 0 => half = 0
        /\ buf' = SubSeq(queue, 1, n)
        /\ queue' = SubSeq(queue, n + 1, Len(queue))
        /\ half' = h
    /\ pc' = "parse"
    /\ UNCHANGED <<name, present, lost, renamed, want, known, last, manager>>

\* onFatalInterfaceMonitorError throws, which ends the process.
ReadFails ==
    /\ pc = "wait"
    /\ pc' = "failed"
    /\ UNCHANGED <<kernel, table, manager>>

\* stop() closes the socket: the read ends with an abort and finds no handler.
Stops ==
    /\ pc = "wait"
    /\ pc' = "stopped"
    /\ UNCHANGED <<kernel, table, manager>>

ServerFails(a) ==
    /\ pc = "wait"
    /\ Fails(a)
    /\ UNCHANGED <<kernel, pc, table>>

-----------------------------------------------------------------------------
RMonitor ==
    \/ SysctlSize \/ SysctlCopy
    \/ ParseInfo \/ ParseNew \/ ParseDel \/ ParseOther \/ ParseEnds
    \/ Read

RMNext ==
    \/ \E a \in Addrs : AddrAdded(a) \/ AddrRemoved(a) \/ ServerFails(a)
    \/ \E i \in Indexes : Deleted(i) \/ \E n \in Names : Renamed(i, n)
    \/ SysctlNoMem \/ SysctlFails
    \/ RMonitor
    \/ ReadFails \/ Stops

RMSpec == RInit0 /\ [][RMNext]_rvars

\* The process runs, and reads what is queued.
RMFairSpec == RMSpec /\ WF_rvars(RMonitor)

-----------------------------------------------------------------------------
(* Properties *)

\* The monitor has read all there is to read.
Quiet == pc = "wait" /\ queue = <<>>

Usable(a) ==
    /\ a \in present
    /\ name[IndexOf[a]] \in Allowed
    /\ IndexOf[a] \in Multicast

\* The table and the notifications that were queued while it was copied, old
\* ones included, together miss no address: when all is read, what should be
\* served has an entry.  Exceptions are notifications that the kernel dropped,
\* and interfaces renamed in between: neither is announced again.
TableMissesNone ==
    Quiet => \A a \in Addrs :
                Usable(a) => entry[a] # Absent \/ a \in lost \/ IndexOf[a] \in renamed

\* An old notification brings no address back for good: when all is read, an
\* address that is gone is served no more, with the same exceptions.
TableLeavesNoGhosts ==
    Quiet => \A a \in Addrs :
                a \notin present /\ running[a] => a \in lost \/ IndexOf[a] \in renamed

\* An address is served on the interface it belongs to, although the table names
\* that only once, and never on one that the options do not select or that
\* cannot do multicast ("Loop-back interfaces are never used",
\* doc/wsddn.8.adoc:322).
ServedOnItsInterface ==
    \A a \in Addrs :
        running[a] /\ IndexOf[a] \notin renamed
        => /\ entry[a] = Interface(IndexOf[a])
           /\ name[IndexOf[a]] \in Allowed /\ IndexOf[a] \in Multicast

\* start() comes to an end, unless the table is, again and again or for good,
\* larger than what the first sysctl said: the buffer of loadInitial never grows
\* after that.
LoadEnds == <>(pc \notin {"size", "copy", "load"}) \/ []<>(pc = "copy" /\ Len(List) > want)
=============================================================================
