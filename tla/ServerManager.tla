---------------------------- MODULE ServerManager ----------------------------
(***************************************************************************)
(* The ServerManager of src/src/server_manager.cpp: one WSD server per     *)
(* local address, created and removed as the interface monitor reports     *)
(* addresses, and the graceful stop that lets asio's run() return.         *)
(*                                                                         *)
(* The servers themselves are module WsdServer.  The interface monitor may *)
(* report any pair of Reports at any time and in any order; which reports  *)
(* the kernel leads it to make is module InterfaceMonitor.                 *)
(***************************************************************************)
EXTENDS WsdServer

CONSTANTS
    Ifaces,      \* network interfaces: name and index together
    Addrs,       \* local addresses
    Reports,     \* the pairs <<interface, address>> the monitor may report
    Absent,      \* no entry in m_serversByAddress
    Null,        \* an entry with a null server: creation failed
    NoIface, NoAddr

ASSUME ManagerAssumption ==
    /\ Absent \notin Servers /\ Null \notin Servers /\ Absent # Null
    /\ NoIface \notin Ifaces /\ NoAddr \notin Addrs
    /\ Reports \subseteq Ifaces \X Addrs

VARIABLES
    servers,     \* m_serversByAddress
    ifaceOf,     \* WsdServer::interface()
    addrOf,      \* the address a server was created for
    moved,       \* history: servers that ran when their address was reported
                 \* on another interface
    monitoring,  \* is the monitor's receive pending?
    phase        \* of ctxt.run(): "run", "stopping" after a signal, "returned",
                 \* "failed" when an exception left it, or "undefined"

mvars == <<servers, ifaceOf, addrOf, moved, monitoring, phase>>
smvars == <<wvars, mvars>>

Mapped == {s \in Servers : \E a \in Addrs : servers[a] = s}

Looping == phase \in {"run", "stopping"}

SMInit ==
    /\ WInit
    /\ servers = [a \in Addrs |-> Absent]
    /\ ifaceOf = [s \in Servers |-> NoIface]
    /\ addrOf = [s \in Servers |-> NoAddr]
    /\ moved = {}
    /\ monitoring = TRUE
    /\ phase = "run"

-----------------------------------------------------------------------------
(* addAddress and removeAddress *)

\* The early return of addAddress: the address is being served already.
Serves(i, a) ==
    /\ servers[a] \in Servers
    /\ ifaceOf[servers[a]] = i
    /\ state[servers[a]] = "Running"

\* The servers of the entry that run on another interface.
Overwritten(i, a) ==
    {s \in Servers : servers[a] = s /\ ifaceOf[s] # i /\ state[s] = "Running"}

\* The constructor of the HTTP server binds to the address's port, which the
\* kernel refuses (SO_REUSEADDR or not) while another socket listens there.
Bindable(a) == \A s \in Servers : handler[s] => addrOf[s] # a

\* server = createServer(...), and it is started.  Assigning to the map entry
\* releases the server that was there, running or not.
AddCreates(i, a) ==
    /\ phase = "run"
    /\ ~Serves(i, a)
    /\ Bindable(a)
    /\ \E s \in Servers :
        /\ Gone(s)
        /\ Started(s)
        /\ owned' = [t \in Servers |-> t = s \/ (owned[t] /\ t # servers[a])]
        /\ servers' = [servers EXCEPT ![a] = s]
        /\ ifaceOf' = [ifaceOf EXCEPT ![s] = i]
        /\ addrOf' = [addrOf EXCEPT ![s] = a]
        /\ moved' = (moved \ {s}) \cup Overwritten(i, a)
    /\ UNCHANGED <<monitoring, phase>>

\* createServer catches the error of a constructor and returns null.
AddFails(i, a) ==
    /\ phase = "run"
    /\ ~Serves(i, a)
    /\ owned' = [t \in Servers |-> owned[t] /\ t # servers[a]]
    /\ servers' = [servers EXCEPT ![a] = Null]
    /\ UNCHANGED <<state, handler, reads, accepting, writes, byes, failed>>
    /\ moved' = moved \cup Overwritten(i, a)
    /\ UNCHANGED <<ifaceOf, addrOf, monitoring, phase>>

\* The error of start() (the listen of the HTTP acceptor) is not caught: it
\* leaves ctxt.run() and ends the process.
AddThrows(i, a) ==
    /\ phase = "run"
    /\ ~Serves(i, a)
    /\ phase' = "failed"
    /\ UNCHANGED wvars
    /\ UNCHANGED <<servers, ifaceOf, addrOf, moved, monitoring>>

\* Mutant: the entry is erased and its server not stopped.
RemoveAddressOnly(i, a) ==
    /\ phase = "run"
    /\ servers[a] # Absent
    /\ servers[a] \in Servers => ifaceOf[servers[a]] = i
    /\ owned' = [t \in Servers |-> owned[t] /\ t # servers[a]]
    /\ servers' = [servers EXCEPT ![a] = Absent]
    /\ UNCHANGED <<state, handler, reads, accepting, writes, byes, failed>>
    /\ UNCHANGED <<ifaceOf, addrOf, moved, monitoring, phase>>

\* An address is gone: its server, if this is its interface, is stopped at once.
RemoveAddress(i, a) ==
    /\ phase = "run"
    /\ servers[a] # Absent
    /\ servers[a] \in Servers => ifaceOf[servers[a]] = i
    /\ Stopped({servers[a]})
    /\ owned' = [t \in Servers |-> owned[t] /\ t # servers[a]]
    /\ servers' = [servers EXCEPT ![a] = Absent]
    /\ UNCHANGED <<reads, accepting, writes, byes, failed>>
    /\ UNCHANGED <<ifaceOf, addrOf, moved, monitoring, phase>>

-----------------------------------------------------------------------------
(* The end *)

\* onFatalInterfaceMonitorError throws.
MonitorFails ==
    /\ phase = "run"
    /\ phase' = "failed"
    /\ UNCHANGED wvars
    /\ UNCHANGED <<servers, ifaceOf, addrOf, moved, monitoring>>

\* Mutant: the servers are released without being told to stop.
StopReleasesOnly ==
    /\ phase = "run"
    /\ phase' = "stopping"
    /\ owned' = [s \in Servers |-> FALSE]
    /\ servers' = [a \in Addrs |-> Absent]
    /\ UNCHANGED <<state, handler, reads, accepting, writes, byes, failed>>
    /\ UNCHANGED <<ifaceOf, addrOf, moved, monitoring>>

\* The signal handler of serve(): ServerManager::stop(true).
Stop ==
    /\ phase = "run"
    /\ phase' = "stopping"
    /\ Byed(Mapped)
    /\ owned' = [s \in Servers |-> FALSE]
    /\ servers' = [a \in Addrs |-> Absent]
    /\ UNCHANGED <<state, handler, reads, accepting, failed>>
    /\ UNCHANGED <<ifaceOf, addrOf, moved, monitoring>>

\* The aborted receive of the stopped monitor is delivered.
MonitorAborted ==
    /\ phase = "stopping"
    /\ monitoring
    /\ monitoring' = FALSE
    /\ UNCHANGED wvars
    /\ UNCHANGED <<servers, ifaceOf, addrOf, moved, phase>>

\* ctxt.run() returns when no operation is pending.
RunReturns ==
    /\ phase = "stopping"
    /\ ~monitoring
    /\ \A s \in Servers : ~Pending(s)
    /\ phase' = "returned"
    /\ UNCHANGED wvars
    /\ UNCHANGED <<servers, ifaceOf, addrOf, moved, monitoring>>

\* An operation completes and its handler calls a WsdServerImpl that was
\* destroyed: undefined behaviour.
CallsDestroyed(s) ==
    /\ Looping
    /\ handler[s] /\ ~Alive(s)
    /\ Pending(s)
    /\ phase' = "undefined"
    /\ UNCHANGED wvars
    /\ UNCHANGED <<servers, ifaceOf, addrOf, moved, monitoring>>

Ended ==
    /\ ~Looping
    /\ UNCHANGED smvars

-----------------------------------------------------------------------------
Address ==
    \E r \in Reports :
        \/ AddCreates(r[1], r[2]) \/ AddFails(r[1], r[2]) \/ AddThrows(r[1], r[2])
        \/ RemoveAddress(r[1], r[2])

ServerStep(s) == Looping /\ (Completes(s) \/ Happens(s)) /\ UNCHANGED mvars

SMNext ==
    \/ Address
    \/ \E s \in Servers : ServerStep(s) \/ CallsDestroyed(s)
    \/ MonitorFails \/ Stop \/ MonitorAborted \/ RunReturns
    \/ Ended

SMSpec == SMInit /\ [][SMNext]_smvars

\* As for WsdServer: the loop delivers aborts, timers and completed sends, and
\* run() returns when it has no work.  No address, error or signal has to come.
SMFairness ==
    /\ WF_smvars(MonitorAborted)
    /\ WF_smvars(RunReturns)
    /\ \A s \in Servers :
        /\ \A sock \in Sockets : WF_smvars(Looping /\ ReadAborted(s, sock) /\ UNCHANGED mvars)
        /\ WF_smvars(Looping /\ AcceptAborted(s) /\ UNCHANGED mvars)
        /\ \A k \in Kinds :
             WF_smvars(/\ Looping
                       /\ \/ WriteAborted(s, k) \/ WriteRepeats(s, k)
                          \/ WriteCompletes(s, k) \/ TimerFires(s, k)
                       /\ UNCHANGED mvars)

SMFairSpec == SMSpec /\ SMFairness

-----------------------------------------------------------------------------
(* Properties *)

\* While addresses come and go, every running server is the map's server for
\* its address, so a later removeAddress or stop still reaches it.  The one way
\* to lose a running server is a report of its address on another interface:
\* the interface was renamed, or two interfaces have the same address.
RunningIsMapped ==
    phase = "run" =>
        \A s \in Servers :
            state[s] = "Running" => servers[addrOf[s]] = s \/ s \in moved

\* No pending operation of a UDP or HTTP server can call a destroyed
\* WsdServerImpl, neither while addresses come and go nor during the graceful
\* stop, unless the address moved to another interface.
DanglingNeedsMove ==
    \A s \in Servers : handler[s] /\ Pending(s) => Alive(s) \/ s \in moved

\* Once the ServerManager is stopped and no server is out of its reach,
\* ctxt.run() returns: every Bye ends, every read, accept and timer is aborted.
StopReturns == phase = "stopping" /\ NoDanglingHandler ~> phase = "returned"

\* After SIGTERM or SIGINT stopped the ServerManager, ctxt.run() returns and the
\* process can exit ("Gracefully stop network communications and exit",
\* doc/wsddn.8.adoc:233).
StopCompletes == phase = "stopping" ~> phase = "returned"
=============================================================================
