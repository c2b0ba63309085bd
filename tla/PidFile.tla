------------------------------- MODULE PidFile -------------------------------
(***************************************************************************)
(* The pid file protocol of src/src/pid_file.h, as src/src/app_state.cpp   *)
(* drives it: several daemons start, reload and end on one file system,    *)
(* and the file at a path is what keeps two of them from serving together. *)
(*                                                                         *)
(* PidFile::open creates or opens the file, try-locks it, and only then    *)
(* compares the inode behind its descriptor with the inode the path names  *)
(* now: the file may have been unlinked in between.  The destructor        *)
(* unlinks the path first and closes the descriptor, which drops the lock, *)
(* second.  Each of those system calls is a step of its own here.          *)
(*                                                                         *)
(* Locks follow flock(2): they belong to the open file description, so a   *)
(* forked server process that still has the inherited descriptor keeps the *)
(* lock of a dead parent.  An inode number is reused as soon as nothing    *)
(* links or opens it.                                                      *)
(***************************************************************************)
EXTENDS Naturals, FiniteSets

CONSTANTS
    Procs,        \* main processes; each is one life of one daemon
    Paths,        \* pid file paths that configurations name
    Inodes,       \* inode numbers of the file system
    NoProc, NoPath, NoInode,
    MaxReloads    \* bound: configuration reloads per process

ASSUME ConstantsAssumption ==
    /\ NoProc \notin Procs
    /\ NoPath \notin Paths
    /\ NoInode \notin Inodes
    /\ MaxReloads \in Nat

VARIABLES
    link,     \* link[f]: the inode the path names, or NoInode
    content,  \* content[i]: the process whose pid the file holds; NoProc when empty
    lock,     \* lock[i]: the process whose open file description has the lock
    fds,      \* fds[p]: inodes p has open
    dup,      \* dup[p]: inodes open through copies in p's forked server process
    pc,       \* where p is in setPidFile, open and ~PidFile
    target,   \* the path p's running PidFile::open was called with
    fd,       \* the local fd of that call
    held,     \* m_pidFile.m_path of p, NoPath once unlinked or when there is none
    heldFd,   \* m_pidFile.m_fd of p
    reloads   \* reloads p has had

vars == <<link, content, lock, fds, dup, pc, target, fd, held, heldFd, reloads>>

\* The states of a process, and of those inside setPidFile: the ones in the
\* retry loop, with a descriptor, with its lock, with the lock confirmed by the
\* inode comparison, and with the new PidFile replacing the old one.
PCs == {"idle", "run", "dead", "open", "lock", "check", "init", "swap", "swapclose",
        "drop", "dropclose", "exit", "exitclose"}
Opening   == {"open", "lock", "check", "init"}
InSet     == {"open", "lock", "check", "init", "swap", "swapclose"}
HasFd     == {"lock", "check", "init", "swap", "swapclose"}
HasLock   == {"check", "init", "swap", "swapclose"}
Confirmed == {"init", "swap", "swapclose"}
Swapping  == {"swap", "swapclose"}

\* Nothing refers to the inode any more: the file system may hand it out.
Free(i) ==
    /\ \A f \in Paths : link[f] # i
    /\ \A p \in Procs : i \notin fds[p] /\ i \notin dup[p]

\* The lock table after p closed the descriptors in S: a lock goes with the
\* last copy of the description it belongs to.
LocksAfterClose(p, S) ==
    [i \in Inodes |-> IF lock[i] = p /\ i \in S /\ i \notin dup[p]
                      THEN NoProc ELSE lock[i]]

Init ==
    /\ link = [f \in Paths |-> NoInode]
    /\ content = [i \in Inodes |-> NoProc]
    /\ lock = [i \in Inodes |-> NoProc]
    /\ fds = [p \in Procs |-> {}]
    /\ dup = [p \in Procs |-> {}]
    /\ pc = [p \in Procs |-> "idle"]
    /\ target = [p \in Procs |-> NoPath]
    /\ fd = [p \in Procs |-> NoInode]
    /\ held = [p \in Procs |-> NoPath]
    /\ heldFd = [p \in Procs |-> NoInode]
    /\ reloads = [p \in Procs |-> 0]

-----------------------------------------------------------------------------
(* PidFile::open *)

\* AppState::init reaches setPidFile with a configured path.
Start(p, f) ==
    /\ pc[p] = "idle"
    /\ pc' = [pc EXCEPT ![p] = "open"]
    /\ target' = [target EXCEPT ![p] = f]
    /\ UNCHANGED <<link, content, lock, fds, dup, fd, held, heldFd, reloads>>

\* open(O_CREAT) finds the file.
OpenExisting(p) ==
    /\ pc[p] = "open"
    /\ link[target[p]] # NoInode
    /\ fd' = [fd EXCEPT ![p] = link[target[p]]]
    /\ fds' = [fds EXCEPT ![p] = @ \cup {link[target[p]]}]
    /\ pc' = [pc EXCEPT ![p] = "lock"]
    /\ UNCHANGED <<link, content, lock, dup, target, held, heldFd, reloads>>

\* open(O_CREAT) creates the file on a free inode.
OpenCreate(p, i) ==
    /\ pc[p] = "open"
    /\ link[target[p]] = NoInode
    /\ Free(i)
    /\ link' = [link EXCEPT ![target[p]] = i]
    /\ content' = [content EXCEPT ![i] = NoProc]
    /\ fd' = [fd EXCEPT ![p] = i]
    /\ fds' = [fds EXCEPT ![p] = @ \cup {i}]
    /\ pc' = [pc EXCEPT ![p] = "lock"]
    /\ UNCHANGED <<lock, dup, target, held, heldFd, reloads>>

\* Mutant: a shared lock is asked for, which never fails.
TryLockShared(p) ==
    /\ pc[p] = "lock"
    /\ lock' = [lock EXCEPT ![fd[p]] = p]
    /\ pc' = [pc EXCEPT ![p] = "check"]
    /\ UNCHANGED <<link, content, fds, dup, target, fd, held, heldFd, reloads>>

\* The exclusive lock is tried for and obtained.
TryLock(p) ==
    /\ pc[p] = "lock"
    /\ lock[fd[p]] = NoProc
    /\ lock' = [lock EXCEPT ![fd[p]] = p]
    /\ pc' = [pc EXCEPT ![p] = "check"]
    /\ UNCHANGED <<link, content, fds, dup, target, fd, held, heldFd, reloads>>

\* open leaves with fd closed: the loop's continue, the nullopt return, or an
\* exception.  next is where p goes from there.
LeaveLoop(p, next) ==
    /\ fds' = [fds EXCEPT ![p] = @ \ {fd[p]}]
    /\ lock' = LocksAfterClose(p, {fd[p]})
    /\ fd' = [fd EXCEPT ![p] = NoInode]
    /\ pc' = [pc EXCEPT ![p] = next]
    /\ UNCHANGED <<link, content, dup, held, heldFd, reloads>>

\* Somebody has the lock: open returns nullopt and setPidFile throws "another
\* copy of this application is already running", which ends the process.
Refused(p) ==
    /\ pc[p] = "lock"
    /\ lock[fd[p]] # NoProc
    /\ LeaveLoop(p, "exit")
    /\ target' = [target EXCEPT ![p] = NoPath]

\* Mutant: the lock counts without the inode comparison.
CheckSameNoCompare(p) ==
    /\ pc[p] = "check"
    /\ pc' = [pc EXCEPT ![p] = "init"]
    /\ UNCHANGED <<link, content, lock, fds, dup, target, fd, held, heldFd, reloads>>

\* The path names the locked inode: the lock counts.
CheckSame(p) ==
    /\ pc[p] = "check"
    /\ link[target[p]] = fd[p]
    /\ pc' = [pc EXCEPT ![p] = "init"]
    /\ UNCHANGED <<link, content, lock, fds, dup, target, fd, held, heldFd, reloads>>

\* Mutant: the retry compares again without opening again.
CheckChangedNoReopen(p) ==
    /\ pc[p] = "check"
    /\ link[target[p]] # fd[p]
    /\ UNCHANGED vars

\* The path names nothing or another inode: retry from the open.
CheckChanged(p) ==
    /\ pc[p] = "check"
    /\ link[target[p]] # fd[p]
    /\ LeaveLoop(p, "open")
    /\ UNCHANGED target

\* initFile writes the pid and open returns the PidFile.
InitFile(p) ==
    /\ pc[p] = "init"
    /\ content' = [content EXCEPT ![fd[p]] = p]
    /\ pc' = [pc EXCEPT ![p] = "swap"]
    /\ UNCHANGED <<link, lock, fds, dup, target, fd, held, heldFd, reloads>>

\* initFile throws (chmod, truncate or a partial write): the file stays.
InitFileFails(p) ==
    /\ pc[p] = "init"
    /\ content' = [content EXCEPT ![fd[p]] = NoProc]
    /\ fds' = [fds EXCEPT ![p] = @ \ {fd[p]}]
    /\ lock' = LocksAfterClose(p, {fd[p]})
    /\ fd' = [fd EXCEPT ![p] = NoInode]
    /\ target' = [target EXCEPT ![p] = NoPath]
    /\ pc' = [pc EXCEPT ![p] = "exit"]
    /\ UNCHANGED <<link, dup, held, heldFd, reloads>>

-----------------------------------------------------------------------------
(* ~PidFile and the move assignment *)

\* The unlink of the destructor, in whatever context it runs.
Unlink(p, from, to) ==
    /\ pc[p] = from
    /\ held[p] # NoPath
    /\ link' = [link EXCEPT ![held[p]] = NoInode]
    /\ held' = [held EXCEPT ![p] = NoPath]
    /\ pc' = [pc EXCEPT ![p] = to]
    /\ UNCHANGED <<content, lock, fds, dup, target, fd, heldFd, reloads>>

\* The close of m_fd that ends the destructor.
CloseHeld(p) ==
    /\ fds' = [fds EXCEPT ![p] = @ \ {heldFd[p]}]
    /\ lock' = LocksAfterClose(p, {heldFd[p]})

\* m_pidFile = std::move(*maybePidFile): destroy the old value, take the new.
SwapUnlink(p) == Unlink(p, "swap", "swapclose")

TakeNew(p) ==
    /\ held' = [held EXCEPT ![p] = target[p]]
    /\ heldFd' = [heldFd EXCEPT ![p] = fd[p]]
    /\ target' = [target EXCEPT ![p] = NoPath]
    /\ fd' = [fd EXCEPT ![p] = NoInode]
    /\ pc' = [pc EXCEPT ![p] = "run"]
    /\ UNCHANGED <<link, content, dup, reloads>>

SwapFirst(p) ==
    /\ pc[p] = "swap"
    /\ held[p] = NoPath
    /\ TakeNew(p)
    /\ UNCHANGED <<lock, fds>>

SwapClose(p) ==
    /\ pc[p] = "swapclose"
    /\ CloseHeld(p)
    /\ TakeNew(p)

\* m_pidFile = PidFile(): the new configuration names no pid file.
DropUnlink(p) == Unlink(p, "drop", "dropclose")

DropClose(p) ==
    /\ pc[p] = "dropclose"
    /\ CloseHeld(p)
    /\ heldFd' = [heldFd EXCEPT ![p] = NoInode]
    /\ pc' = [pc EXCEPT ![p] = "run"]
    /\ UNCHANGED <<link, content, dup, target, fd, held, reloads>>

\* ~AppState at the end of main.
ExitUnlink(p) == Unlink(p, "exit", "exitclose")

ExitClose(p) ==
    /\ pc[p] = "exitclose" \/ (pc[p] = "exit" /\ held[p] = NoPath)
    /\ CloseHeld(p)
    /\ heldFd' = [heldFd EXCEPT ![p] = NoInode]
    /\ pc' = [pc EXCEPT ![p] = "dead"]
    /\ UNCHANGED <<link, content, dup, target, fd, held, reloads>>

-----------------------------------------------------------------------------
(* AppState: reload, fork, end.  A reload and an orderly exit come after the
   server process, if there was one, has ended. *)

\* refresh: the configuration names another path.
Refresh(p, f) ==
    /\ pc[p] = "run" /\ dup[p] = {} /\ reloads[p] < MaxReloads
    /\ held[p] # f
    /\ pc' = [pc EXCEPT ![p] = "open"]
    /\ target' = [target EXCEPT ![p] = f]
    /\ reloads' = [reloads EXCEPT ![p] = @ + 1]
    /\ UNCHANGED <<link, content, lock, fds, dup, fd, held, heldFd>>

\* refresh: the configuration names no path.
RefreshNone(p) ==
    /\ pc[p] = "run" /\ dup[p] = {} /\ reloads[p] < MaxReloads
    /\ held[p] # NoPath
    /\ pc' = [pc EXCEPT ![p] = "drop"]
    /\ reloads' = [reloads EXCEPT ![p] = @ + 1]
    /\ UNCHANGED <<link, content, lock, fds, dup, target, fd, held, heldFd>>

\* The fork of the server process copies every descriptor.
Fork(p) ==
    /\ pc[p] = "run" /\ dup[p] = {} /\ fds[p] # {}
    /\ dup' = [dup EXCEPT ![p] = fds[p]]
    /\ UNCHANGED <<link, content, lock, fds, pc, target, fd, held, heldFd, reloads>>

\* Mutant: ~PidFile unlinks in the server process too (no getpid comparison).
ChildDropsAndUnlinks(p) ==
    /\ dup[p] # {}
    /\ dup' = [dup EXCEPT ![p] = {}]
    /\ lock' = [i \in Inodes |-> IF lock[i] = p /\ i \in dup[p] /\ i \notin fds[p]
                                 THEN NoProc ELSE lock[i]]
    /\ link' = [f \in Paths |-> IF link[f] \in dup[p] THEN NoInode ELSE link[f]]
    /\ UNCHANGED <<content, fds, pc, target, fd, held, heldFd, reloads>>

\* postForkInServerProcess: ~PidFile in the server process sees a pid that is
\* not m_lockingProcess, so it closes its copy and unlinks nothing.  The end
\* of that process closes the copy just the same.
ChildDrops(p) ==
    /\ dup[p] # {}
    /\ dup' = [dup EXCEPT ![p] = {}]
    /\ lock' = [i \in Inodes |-> IF lock[i] = p /\ i \in dup[p] /\ i \notin fds[p]
                                 THEN NoProc ELSE lock[i]]
    /\ UNCHANGED <<link, content, fds, pc, target, fd, held, heldFd, reloads>>

Exit(p) ==
    /\ pc[p] = "run" /\ dup[p] = {}
    /\ pc' = [pc EXCEPT ![p] = "exit"]
    /\ UNCHANGED <<link, content, lock, fds, dup, target, fd, held, heldFd, reloads>>

\* The process ends without ~AppState: killed, or exit() in a signal handler.
Crash(p) ==
    /\ pc[p] \notin {"idle", "dead"}
    /\ pc' = [pc EXCEPT ![p] = "dead"]
    /\ lock' = LocksAfterClose(p, fds[p])
    /\ fds' = [fds EXCEPT ![p] = {}]
    /\ target' = [target EXCEPT ![p] = NoPath]
    /\ fd' = [fd EXCEPT ![p] = NoInode]
    /\ held' = [held EXCEPT ![p] = NoPath]
    /\ heldFd' = [heldFd EXCEPT ![p] = NoInode]
    /\ UNCHANGED <<link, content, dup, reloads>>

-----------------------------------------------------------------------------
\* What the program does once it runs, and what the outside world does to it.
Step(p) ==
    \/ OpenExisting(p)
    \/ \E i \in Inodes : OpenCreate(p, i)
    \/ TryLock(p) \/ Refused(p)
    \/ CheckSame(p) \/ CheckChanged(p)
    \/ InitFile(p)
    \/ SwapUnlink(p) \/ SwapFirst(p) \/ SwapClose(p)
    \/ DropUnlink(p) \/ DropClose(p)
    \/ ExitUnlink(p) \/ ExitClose(p)

Outside(p) ==
    \/ \E f \in Paths : Start(p, f) \/ Refresh(p, f)
    \/ RefreshNone(p) \/ Exit(p)
    \/ InitFileFails(p)
    \/ Fork(p) \/ ChildDrops(p)
    \/ Crash(p)

Next == \E p \in Procs : Step(p) \/ Outside(p)

Spec == Init /\ [][Next]_vars

\* The kernel runs every process that can run.
Fairness == \A p \in Procs : WF_vars(Step(p))

FairSpec == Spec /\ Fairness

-----------------------------------------------------------------------------
(* Properties *)

TypeOK ==
    /\ link \in [Paths -> Inodes \cup {NoInode}]
    /\ content \in [Inodes -> Procs \cup {NoProc}]
    /\ lock \in [Inodes -> Procs \cup {NoProc}]
    /\ fds \in [Procs -> SUBSET Inodes]
    /\ dup \in [Procs -> SUBSET Inodes]
    /\ pc \in [Procs -> PCs]
    /\ target \in [Procs -> Paths \cup {NoPath}]
    /\ fd \in [Procs -> Inodes \cup {NoInode}]
    /\ held \in [Procs -> Paths \cup {NoPath}]
    /\ heldFd \in [Procs -> Inodes \cup {NoInode}]
    /\ reloads \in [Procs -> 0..MaxReloads]

\* p has been told by the inode comparison that the file at f is its own, and
\* has not given it up again.
Owns(p, f) ==
    \/ held[p] = f
    \/ pc[p] \in Confirmed /\ target[p] = f

\* Two daemons never both own one pid file, whatever the interleaving of their
\* opens, locks, inode comparisons and unlinks, across crashes and reloads.
OneOwner ==
    \A p, q \in Procs : \A f \in Paths : Owns(p, f) /\ Owns(q, f) => p = q

\* While a daemon runs with a pid file, the path names a file that holds its
\* pid: nobody unlinks, replaces or overwrites it.  ("Send SIGHUP to the
\* process ID in the PID file", doc/wsddn.8.adoc:80.)
FileNamesOwner ==
    \A p \in Procs :
        held[p] # NoPath =>
            /\ link[held[p]] # NoInode
            /\ content[link[held[p]]] = p

\* A server process that outlives its crashed parent with the inherited
\* descriptor still open keeps every new daemon out of the file it locks.
OrphanKeepsOthersOut ==
    \A p, q \in Procs : \A f \in Paths :
        pc[p] = "dead" /\ link[f] \in dup[p] => ~Owns(q, f)

\* The refinement: f is reserved for p while p owns it, and for as long as a
\* server process that outlived p has a copy of the locked descriptor.
Reserved(p, f) == Owns(p, f) \/ (pc[p] = "dead" /\ link[f] \in dup[p])

PL == INSTANCE PidLock WITH
        holders <- [f \in Paths |-> {p \in Procs : Reserved(p, f)}],
        ended   <- {p \in Procs : pc[p] = "dead"}

\* The system calls of any number of daemons, in any order and with crashes and
\* forked copies, amount to one reservation per path: it is taken at the inode
\* comparison and only when free, for at most two paths at once (the one in use
\* and the one of a reload), and given up by the unlink or with the lock.
ImplementsPidLock == PL!LSpec

\* The inductive invariant behind the three invariants above.  A process past
\* TryLock has the lock of its descriptor; one past the inode comparison also
\* knows that the path names that inode; and no two paths name one inode.
LocksAreOpen ==
    \A i \in Inodes : \A p \in Procs : lock[i] = p => i \in fds[p] \cup dup[p]

CopiesAreLocked ==
    \A p \in Procs : \A i \in dup[p] : lock[i] = p

LinksDiffer ==
    \A f, g \in Paths : link[f] = link[g] /\ link[f] # NoInode => f = g

OpenInv(p) ==
    /\ pc[p] \in InSet => target[p] \in Paths /\ target[p] # held[p]
    /\ pc[p] \in HasFd => fd[p] \in fds[p] /\ fd[p] # heldFd[p]
    /\ pc[p] \in HasLock => lock[fd[p]] = p
    /\ pc[p] \in Confirmed => link[target[p]] = fd[p]
    /\ pc[p] \in Swapping => content[fd[p]] = p
    /\ pc[p] \notin HasFd => fd[p] = NoInode
    /\ fds[p] \subseteq {fd[p], heldFd[p]}

HeldInv(p) ==
    /\ held[p] # NoPath => /\ heldFd[p] \in fds[p]
                           /\ lock[heldFd[p]] = p
                           /\ link[held[p]] = heldFd[p]
                           /\ content[heldFd[p]] = p
    /\ held[p] = NoPath /\ pc[p] \in {"idle", "run", "swap"} \cup Opening => heldFd[p] = NoInode
    /\ pc[p] \in {"idle", "dead", "swapclose", "dropclose", "exitclose"} => held[p] = NoPath

IndInv ==
    /\ TypeOK
    /\ LocksAreOpen
    /\ CopiesAreLocked
    /\ LinksDiffer
    /\ \A p \in Procs : OpenInv(p) /\ HeldInv(p)

\* The retry loop of PidFile::open ends: with the file or with a refusal.
OpenDecides ==
    \A p \in Procs : pc[p] \in Opening ~> pc[p] \notin Opening
=============================================================================
