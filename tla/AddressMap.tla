----------------------------- MODULE AddressMap -----------------------------
(***************************************************************************)
(* ServerManager::addAddress and removeAddress as an interface monitor     *)
(* sees them: the entry that m_serversByAddress has for each address, and  *)
(* whether the server in it runs.  ServerManager has the servers           *)
(* themselves.                                                             *)
(***************************************************************************)

CONSTANTS
    Addrs,       \* addresses of an enabled family
    Absent, Null \* no entry for an address; an entry with a null server

ASSUME EntryAssumption == Absent # Null

VARIABLES
    entry,       \* m_serversByAddress: Absent, Null, or a server's interface
    running      \* is the server of the entry Running?

manager == <<entry, running>>

MapInit ==
    /\ entry = [a \in Addrs |-> Absent]
    /\ running = [a \in Addrs |-> FALSE]

\* Where the entry holds a running server of another interface, the new server
\* cannot bind to the port, which the one that is being dropped still has.
AddAddress(a, n) ==
    IF entry[a] = n /\ running[a]
    THEN UNCHANGED manager
    ELSE \E created \in (IF running[a] THEN {FALSE} ELSE BOOLEAN) :
            /\ entry' = [entry EXCEPT ![a] = IF created THEN n ELSE Null]
            /\ running' = [running EXCEPT ![a] = created]

\* Mutant: only an entry without a server is erased.
RemoveAddressNull(a, n) ==
    IF entry[a] = Null
    THEN /\ entry' = [entry EXCEPT ![a] = Absent]
         /\ UNCHANGED running
    ELSE UNCHANGED manager

RemoveAddress(a, n) ==
    IF entry[a] \in {n, Null}
    THEN /\ entry' = [entry EXCEPT ![a] = Absent]
         /\ running' = [running EXCEPT ![a] = FALSE]
    ELSE UNCHANGED manager

\* A server stops because of a network error; its entry stays.
Fails(a) ==
    /\ running[a]
    /\ running' = [running EXCEPT ![a] = FALSE]
    /\ UNCHANGED entry
=============================================================================
