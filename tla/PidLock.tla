------------------------------- MODULE PidLock -------------------------------
(***************************************************************************)
(* What the pid file is for, without files: a path is reserved for at most *)
(* one daemon, and a daemon has at most two: the one it serves with and,   *)
(* during a reload, the next.  When a daemon dies its paths become free,   *)
(* unless a server process that it forked still keeps them: then they      *)
(* become free when that process lets go.  PidFile implements this.        *)
(***************************************************************************)

CONSTANTS Procs, Paths

VARIABLES
    holders,  \* holders[f]: the daemon f is reserved for, as a set
    ended     \* daemons that have ended

lvars == <<holders, ended>>

LInit ==
    /\ holders = [f \in Paths |-> {}]
    /\ ended = {}

\* p has f only while nobody has, and besides it at most the path it leaves.
Acquire(p, f) ==
    /\ p \notin ended
    /\ holders[f] = {}
    /\ \A g, h \in Paths : p \in holders[g] /\ p \in holders[h] => g = h
    /\ holders' = [holders EXCEPT ![f] = {p}]
    /\ UNCHANGED ended

Release(p, f) ==
    /\ p \notin ended
    /\ holders[f] = {p}
    /\ holders' = [holders EXCEPT ![f] = {}]
    /\ UNCHANGED ended

\* Everything that is p's becomes free.
Clear(p) == holders' = [f \in Paths |-> holders[f] \ {p}]

\* The end of p; its server process, if it has one, keeps what it inherited.
End(p) ==
    /\ p \notin ended
    /\ ended' = ended \cup {p}
    /\ Clear(p) \/ UNCHANGED holders

\* The server process that outlived p lets go.
OrphanLetsGo(p) ==
    /\ p \in ended
    /\ Clear(p)
    /\ UNCHANGED ended

LNext ==
    \E p \in Procs :
        \/ \E f \in Paths : Acquire(p, f) \/ Release(p, f)
        \/ End(p)
        \/ OrphanLetsGo(p)

LSpec == LInit /\ [][LNext]_lvars
==============================================================================
