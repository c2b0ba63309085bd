---------------------------- MODULE PidFileProofs ----------------------------
(***************************************************************************)
(* Proofs about PidFile: the pid file has one owner, names it, and stays   *)
(* out of reach while an orphaned server process has the lock, for every   *)
(* number of processes, paths, inodes and reloads.                         *)
(***************************************************************************)
EXTENDS PidFile, TLAPS

\* The invariant holds before any process has opened a file.
LEMMA InitInd == Init => IndInv
  BY ConstantsAssumption
  DEF Init, Opening, PCs, InSet, HasFd, HasLock, Confirmed, Swapping, IndInv, TypeOK, LocksAreOpen, CopiesAreLocked, LinksDiffer, OpenInv, HeldInv

\* Every variable keeps its type: one step per action.
LEMMA TypeStep == TypeOK /\ (\A p \in Procs : OpenInv(p) /\ HeldInv(p)) /\ [Next]_vars => TypeOK'
  <1> USE DEF PCs, InSet, HasFd
  <1> SUFFICES ASSUME TypeOK, \A p \in Procs : OpenInv(p) /\ HeldInv(p), [Next]_vars
               PROVE  TypeOK'
    OBVIOUS
  <1>0. CASE UNCHANGED vars
    BY <1>0 DEF vars, TypeOK
  <1>1. ASSUME NEW p \in Procs, Step(p) PROVE TypeOK'
    <2>1. CASE OpenExisting(p)
      BY <2>1 DEF OpenExisting, TypeOK, OpenInv
    <2>2. ASSUME NEW i \in Inodes, OpenCreate(p, i) PROVE TypeOK'
      BY <2>2 DEF OpenCreate, TypeOK, OpenInv
    <2>3. CASE TryLock(p)
      BY <2>3 DEF TryLock, TypeOK, OpenInv
    <2>4. CASE Refused(p)
      BY <2>4 DEF Refused, LeaveLoop, LocksAfterClose, TypeOK
    <2>5. CASE CheckSame(p)
      BY <2>5 DEF CheckSame, TypeOK
    <2>6. CASE CheckChanged(p)
      BY <2>6 DEF CheckChanged, LeaveLoop, LocksAfterClose, TypeOK
    <2>7. CASE InitFile(p)
      BY <2>7 DEF InitFile, TypeOK
    <2>8. CASE SwapUnlink(p) \/ DropUnlink(p) \/ ExitUnlink(p)
      BY <2>8 DEF SwapUnlink, DropUnlink, ExitUnlink, Unlink, TypeOK
    <2>9. CASE SwapFirst(p)
      BY <2>9 DEF SwapFirst, TakeNew, TypeOK
    <2>10. CASE SwapClose(p)
      BY <2>10 DEF SwapClose, CloseHeld, LocksAfterClose, TakeNew, TypeOK
    <2>11. CASE DropClose(p)
      BY <2>11 DEF DropClose, CloseHeld, LocksAfterClose, TypeOK
    <2>12. CASE ExitClose(p)
      BY <2>12 DEF ExitClose, CloseHeld, LocksAfterClose, TypeOK
    <2> QED
      BY <1>1, <2>1, <2>2, <2>3, <2>4, <2>5, <2>6, <2>7, <2>8, <2>9, <2>10, <2>11, <2>12 DEF Step
  <1>2. ASSUME NEW p \in Procs, Outside(p) PROVE TypeOK'
    <2>1. ASSUME NEW f \in Paths, Start(p, f) PROVE TypeOK'
      BY <2>1 DEF Start, TypeOK
    <2>2. ASSUME NEW f \in Paths, Refresh(p, f) PROVE TypeOK'
      BY <2>2, ConstantsAssumption DEF Refresh, TypeOK
    <2>3. CASE RefreshNone(p)
      BY <2>3, ConstantsAssumption DEF RefreshNone, TypeOK
    <2>4. CASE Exit(p)
      BY <2>4 DEF Exit, TypeOK
    <2>5. CASE InitFileFails(p)
      BY <2>5 DEF InitFileFails, LocksAfterClose, TypeOK
    <2>6. CASE Fork(p)
      BY <2>6 DEF Fork, TypeOK
    <2>7. CASE ChildDrops(p)
      BY <2>7 DEF ChildDrops, TypeOK
    <2>8. CASE Crash(p)
      BY <2>8 DEF Crash, LocksAfterClose, TypeOK
    <2> QED
      BY <1>2, <2>1, <2>2, <2>3, <2>4, <2>5, <2>6, <2>7, <2>8 DEF Outside
  <1> QED
    BY <1>0, <1>1, <1>2 DEF Next

\* The parts of the inductive invariant other than the types.
Rest == LocksAreOpen /\ CopiesAreLocked /\ LinksDiffer /\ \A p \in Procs : OpenInv(p) /\ HeldInv(p)

\* Each system call keeps what is said of locks, copies, links and processes.
LEMMA RestStep == IndInv /\ Next => Rest'
  <1> SUFFICES ASSUME IndInv, Next PROVE Rest'
    OBVIOUS
  <1> USE DEF PCs, Opening, InSet, HasFd, HasLock, Confirmed, Swapping,
              IndInv, TypeOK, Rest, LocksAreOpen, CopiesAreLocked, LinksDiffer, OpenInv, HeldInv
  <1>1. ASSUME NEW p \in Procs, Step(p) PROVE Rest'
    <2>1. CASE OpenExisting(p)
      BY <2>1, ConstantsAssumption DEF OpenExisting
    <2>2. CASE TryLock(p)
      BY <2>2, ConstantsAssumption DEF TryLock
    <2>3. CASE Refused(p)
      <3> USE <2>3, ConstantsAssumption DEF Refused, LeaveLoop, LocksAfterClose
      <3>1. OpenInv(p)'
        OBVIOUS
      <3>2. HeldInv(p)'
        OBVIOUS
      <3>3. ASSUME NEW q \in Procs, q # p PROVE OpenInv(q)' /\ HeldInv(q)'
        BY <3>3
      <3>4. LocksAreOpen' /\ CopiesAreLocked'
        OBVIOUS
      <3>5. LinksDiffer'
        OBVIOUS
      <3> QED
        BY <3>1, <3>2, <3>3, <3>4, <3>5
    <2>4. CASE CheckSame(p)
      BY <2>4, ConstantsAssumption DEF CheckSame
    <2>5. CASE CheckChanged(p)
      <3> USE <2>5, ConstantsAssumption DEF CheckChanged, LeaveLoop, LocksAfterClose
      <3>1. OpenInv(p)'
        OBVIOUS
      <3>2. HeldInv(p)'
        OBVIOUS
      <3>3. ASSUME NEW q \in Procs, q # p PROVE OpenInv(q)' /\ HeldInv(q)'
        BY <3>3
      <3>4. LocksAreOpen' /\ CopiesAreLocked'
        OBVIOUS
      <3>5. LinksDiffer'
        OBVIOUS
      <3> QED
        BY <3>1, <3>2, <3>3, <3>4, <3>5
    <2>6. CASE InitFile(p)
      <3> USE <2>6, ConstantsAssumption DEF InitFile
      <3>1. OpenInv(p)'
        OBVIOUS
      <3>2. HeldInv(p)'
        OBVIOUS
      <3>3. ASSUME NEW q \in Procs, q # p PROVE OpenInv(q)' /\ HeldInv(q)'
        BY <3>3
      <3>4. LocksAreOpen' /\ CopiesAreLocked'
        OBVIOUS
      <3>5. LinksDiffer'
        OBVIOUS
      <3> QED
        BY <3>1, <3>2, <3>3, <3>4, <3>5
    <2>7. CASE SwapUnlink(p)
      <3> USE <2>7, ConstantsAssumption DEF SwapUnlink, Unlink
      <3>1. OpenInv(p)'
        OBVIOUS
      <3>2. HeldInv(p)'
        OBVIOUS
      <3>3. ASSUME NEW q \in Procs, q # p PROVE OpenInv(q)' /\ HeldInv(q)'
        BY <3>3
      <3>4. LocksAreOpen' /\ CopiesAreLocked'
        OBVIOUS
      <3>5. LinksDiffer'
        OBVIOUS
      <3> QED
        BY <3>1, <3>2, <3>3, <3>4, <3>5
    <2>8. CASE DropUnlink(p)
      <3> USE <2>8, ConstantsAssumption DEF DropUnlink, Unlink
      <3>1. OpenInv(p)'
        OBVIOUS
      <3>2. HeldInv(p)'
        OBVIOUS
      <3>3. ASSUME NEW q \in Procs, q # p PROVE OpenInv(q)' /\ HeldInv(q)'
        BY <3>3
      <3>4. LocksAreOpen' /\ CopiesAreLocked'
        OBVIOUS
      <3>5. LinksDiffer'
        OBVIOUS
      <3> QED
        BY <3>1, <3>2, <3>3, <3>4, <3>5
    <2>9. CASE ExitUnlink(p)
      <3> USE <2>9, ConstantsAssumption DEF ExitUnlink, Unlink
      <3>1. OpenInv(p)'
        OBVIOUS
      <3>2. HeldInv(p)'
        OBVIOUS
      <3>3. ASSUME NEW q \in Procs, q # p PROVE OpenInv(q)' /\ HeldInv(q)'
        BY <3>3
      <3>4. LocksAreOpen' /\ CopiesAreLocked'
        OBVIOUS
      <3>5. LinksDiffer'
        OBVIOUS
      <3> QED
        BY <3>1, <3>2, <3>3, <3>4, <3>5
    <2>10. CASE SwapFirst(p)
      <3> USE <2>10, ConstantsAssumption DEF SwapFirst, TakeNew
      <3>1. OpenInv(p)'
        OBVIOUS
      <3>2. HeldInv(p)'
        OBVIOUS
      <3>3. ASSUME NEW q \in Procs, q # p PROVE OpenInv(q)' /\ HeldInv(q)'
        BY <3>3
      <3>4. LocksAreOpen' /\ CopiesAreLocked'
        OBVIOUS
      <3>5. LinksDiffer'
        OBVIOUS
      <3> QED
        BY <3>1, <3>2, <3>3, <3>4, <3>5
    <2>11. CASE SwapClose(p)
      <3> USE <2>11, ConstantsAssumption DEF SwapClose, CloseHeld, LocksAfterClose, TakeNew
      <3>1. OpenInv(p)'
        OBVIOUS
      <3>2. HeldInv(p)'
        OBVIOUS
      <3>3. ASSUME NEW q \in Procs, q # p PROVE OpenInv(q)' /\ HeldInv(q)'
        BY <3>3
      <3>4. LocksAreOpen' /\ CopiesAreLocked'
        OBVIOUS
      <3>5. LinksDiffer'
        OBVIOUS
      <3> QED
        BY <3>1, <3>2, <3>3, <3>4, <3>5
    <2>12. CASE DropClose(p)
      <3> USE <2>12, ConstantsAssumption DEF DropClose, CloseHeld, LocksAfterClose
      <3>1. OpenInv(p)'
        OBVIOUS
      <3>2. HeldInv(p)'
        OBVIOUS
      <3>3. ASSUME NEW q \in Procs, q # p PROVE OpenInv(q)' /\ HeldInv(q)'
        BY <3>3
      <3>4. LocksAreOpen' /\ CopiesAreLocked'
        OBVIOUS
      <3>5. LinksDiffer'
        OBVIOUS
      <3> QED
        BY <3>1, <3>2, <3>3, <3>4, <3>5
    <2>13. CASE ExitClose(p)
      <3> USE <2>13, ConstantsAssumption DEF ExitClose, CloseHeld, LocksAfterClose
      <3>1. OpenInv(p)'
        OBVIOUS
      <3>2. HeldInv(p)'
        OBVIOUS
      <3>3. ASSUME NEW q \in Procs, q # p PROVE OpenInv(q)' /\ HeldInv(q)'
        BY <3>3
      <3>4. LocksAreOpen' /\ CopiesAreLocked'
        OBVIOUS
      <3>5. LinksDiffer'
        OBVIOUS
      <3> QED
        BY <3>1, <3>2, <3>3, <3>4, <3>5
    <2>14. ASSUME NEW i \in Inodes, OpenCreate(p, i) PROVE Rest'
      BY <2>14, ConstantsAssumption DEF OpenCreate, Free
    <2> QED
      BY <1>1, <2>1, <2>2, <2>3, <2>4, <2>5, <2>6, <2>7, <2>8, <2>9, <2>10, <2>11, <2>12, <2>13, <2>14 DEF Step
  <1>2. ASSUME NEW p \in Procs, Outside(p) PROVE Rest'
    <2>1. CASE RefreshNone(p)
      BY <2>1, ConstantsAssumption DEF RefreshNone
    <2>2. CASE Exit(p)
      BY <2>2, ConstantsAssumption DEF Exit
    <2>3. CASE InitFileFails(p)
      <3> USE <2>3, ConstantsAssumption DEF InitFileFails, LocksAfterClose
      <3>1. OpenInv(p)'
        OBVIOUS
      <3>2. HeldInv(p)'
        OBVIOUS
      <3>3. ASSUME NEW q \in Procs, q # p PROVE OpenInv(q)' /\ HeldInv(q)'
        BY <3>3
      <3>4. LocksAreOpen' /\ CopiesAreLocked'
        OBVIOUS
      <3>5. LinksDiffer'
        OBVIOUS
      <3> QED
        BY <3>1, <3>2, <3>3, <3>4, <3>5
    <2>4. CASE Fork(p)
      BY <2>4, ConstantsAssumption DEF Fork
    <2>5. CASE ChildDrops(p)
      BY <2>5, ConstantsAssumption DEF ChildDrops
    <2>6. CASE Crash(p)
      <3> USE <2>6, ConstantsAssumption DEF Crash, LocksAfterClose
      <3>1. OpenInv(p)'
        OBVIOUS
      <3>2. HeldInv(p)'
        OBVIOUS
      <3>3. ASSUME NEW q \in Procs, q # p PROVE OpenInv(q)' /\ HeldInv(q)'
        BY <3>3
      <3>4. LocksAreOpen' /\ CopiesAreLocked'
        OBVIOUS
      <3>5. LinksDiffer'
        OBVIOUS
      <3> QED
        BY <3>1, <3>2, <3>3, <3>4, <3>5
    <2>7. ASSUME NEW f \in Paths, Start(p, f) PROVE Rest'
      BY <2>7, ConstantsAssumption DEF Start
    <2>8. ASSUME NEW f \in Paths, Refresh(p, f) PROVE Rest'
      BY <2>8, ConstantsAssumption DEF Refresh
    <2> QED
      BY <1>2, <2>1, <2>2, <2>3, <2>4, <2>5, <2>6, <2>7, <2>8 DEF Outside
  <1> QED
    BY <1>1, <1>2 DEF Next

\* No step of any process, and no crash, breaks the inductive invariant.
LEMMA IndStep == IndInv /\ [Next]_vars => IndInv'
  <1>1. CASE UNCHANGED vars
    BY <1>1 DEF vars, IndInv, TypeOK, LocksAreOpen, CopiesAreLocked, LinksDiffer, OpenInv, HeldInv
  <1>2. CASE Next
    BY <1>2, TypeStep, RestStep DEF IndInv, Rest
  <1> QED
    BY <1>1, <1>2

\* The invariant holds throughout.
LEMMA IndCorrect == Spec => []IndInv
  BY InitInd, IndStep, PTL DEF Spec

\* Every variable of the pid file protocol stays in its type.
THEOREM TypeCorrect == Spec => []TypeOK
  <1>1. IndInv => TypeOK
    BY DEF IndInv
  <1> QED
    BY <1>1, IndCorrect, PTL

\* Who owns a path has the lock of the inode the path names.
LEMMA OwnerHasLock ==
    ASSUME IndInv, NEW p \in Procs, NEW f \in Paths, Owns(p, f)
    PROVE  link[f] \in Inodes /\ lock[link[f]] = p /\ pc[p] # "dead"
  BY ConstantsAssumption DEF IndInv, TypeOK, OpenInv, HeldInv, Owns, InSet, HasFd, HasLock, Confirmed

\* Two daemons never both own one pid file: PidFile::open gives exclusion to
\* any number of processes that start, reload, crash and end in any order.
THEOREM OneOwnerAlways == Spec => []OneOwner
  <1>1. IndInv => OneOwner
    BY OwnerHasLock DEF OneOwner
  <1> QED
    BY <1>1, IndCorrect, PTL

\* A running daemon's path names a file with its pid, whatever the others do.
THEOREM FileNamesOwnerAlways == Spec => []FileNamesOwner
  <1>1. IndInv => FileNamesOwner
    BY ConstantsAssumption DEF IndInv, TypeOK, HeldInv, FileNamesOwner
  <1> QED
    BY <1>1, IndCorrect, PTL

\* The lock an orphaned server process inherited keeps new daemons out.
THEOREM OrphanKeepsOthersOutAlways == Spec => []OrphanKeepsOthersOut
  <1>1. IndInv => OrphanKeepsOthersOut
    BY OwnerHasLock DEF IndInv, CopiesAreLocked, OrphanKeepsOthersOut
  <1> QED
    BY <1>1, IndCorrect, PTL

-----------------------------------------------------------------------------
(* The refinement: PidFile implements PidLock. *)

\* Only a serving process, or one that died serving, has a forked copy, and what
\* the copy was given is all that the process has open.
CopyInv(p) ==
    dup[p] # {} => /\ pc[p] \in {"run", "dead"}
                   /\ pc[p] = "run" => dup[p] = fds[p]

CopiesInv == \A p \in Procs : CopyInv(p)

\* A copy of the descriptors exists only while its process serves, or after it
\* died serving.
LEMMA CopiesStep == IndInv /\ CopiesInv /\ [Next]_vars => CopiesInv'
  <1> SUFFICES ASSUME IndInv, CopiesInv, [Next]_vars PROVE CopiesInv'
    OBVIOUS
  <1> USE DEF CopiesInv, CopyInv, IndInv, TypeOK
  <1>0. CASE UNCHANGED vars
    BY <1>0 DEF vars
  <1>1. ASSUME NEW p \in Procs, Step(p) PROVE CopiesInv'
    BY <1>1 DEF Step, OpenExisting, OpenCreate, TryLock, Refused, CheckSame, CheckChanged, LeaveLoop,
       InitFile, SwapUnlink, DropUnlink, ExitUnlink, Unlink, SwapFirst, SwapClose, TakeNew, CloseHeld,
       DropClose, ExitClose
  <1>2. ASSUME NEW p \in Procs, Outside(p) PROVE CopiesInv'
    BY <1>2 DEF Outside, Start, Refresh, RefreshNone, Exit, InitFileFails, Fork, ChildDrops, Crash
  <1> QED
    BY <1>0, <1>1, <1>2 DEF Next

LEMMA CopiesCorrect == Spec => []CopiesInv
  <1>1. Init => CopiesInv
    BY DEF Init, CopiesInv, CopyInv
  <1> QED
    BY <1>1, IndCorrect, CopiesStep, PTL DEF Spec

\* Who has a path reserved has the lock of the inode the path names.
LEMMA ReservedHasLock ==
    ASSUME IndInv, NEW p \in Procs, NEW f \in Paths, Reserved(p, f)
    PROVE  link[f] \in Inodes /\ lock[link[f]] = p
  BY OwnerHasLock DEF Reserved, IndInv, CopiesAreLocked, TypeOK

\* The steps that neither reserve nor free a path.
Silent(p) ==
    \/ OpenExisting(p) \/ (\E i \in Inodes : OpenCreate(p, i)) \/ TryLock(p) \/ Refused(p)
    \/ CheckChanged(p) \/ InitFile(p) \/ SwapFirst(p) \/ SwapClose(p) \/ DropClose(p)
    \/ (\E f \in Paths : Start(p, f) \/ Refresh(p, f))
    \/ RefreshNone(p) \/ Exit(p) \/ Fork(p)

\* Such a step changes neither what is reserved nor who has ended.
LEMMA SilentStep ==
    ASSUME IndInv, CopiesInv, NEW p \in Procs, Silent(p)
    PROVE  /\ \A q \in Procs : \A f \in Paths : Reserved(q, f)' <=> Reserved(q, f)
           /\ \A q \in Procs : (pc'[q] = "dead") <=> (pc[q] = "dead")
  <1> USE ConstantsAssumption
      DEF IndInv, TypeOK, OpenInv, HeldInv, CopiesInv, CopyInv, Reserved, Owns, PCs, Opening, InSet, HasFd, HasLock, Confirmed, Swapping
  <1> DEFINE Same == /\ \A q \in Procs : \A f \in Paths : Reserved(q, f)' <=> Reserved(q, f)
                     /\ \A q \in Procs : (pc'[q] = "dead") <=> (pc[q] = "dead")
  <1>1. CASE OpenExisting(p) \/ TryLock(p) \/ Refused(p) \/ CheckChanged(p) \/ InitFile(p)
    BY <1>1 DEF OpenExisting, TryLock, Refused, CheckChanged, LeaveLoop, InitFile
  <1>2. ASSUME NEW i \in Inodes, OpenCreate(p, i) PROVE Same
    BY <1>2 DEF OpenCreate, Free
  <1>3. CASE SwapFirst(p) \/ SwapClose(p)
    BY <1>3 DEF SwapFirst, SwapClose, TakeNew
  <1>4. CASE DropClose(p) \/ RefreshNone(p) \/ Exit(p) \/ Fork(p)
    BY <1>4 DEF DropClose, RefreshNone, Exit, Fork
  <1>5. ASSUME NEW f \in Paths, Start(p, f) \/ Refresh(p, f) PROVE Same
    BY <1>5 DEF Start, Refresh
  <1> QED
    BY <1>1, <1>2, <1>3, <1>4, <1>5 DEF Silent

\* The inode comparison reserves the path, which nobody had.
LEMMA CheckSameReserves ==
    ASSUME IndInv, CopiesInv, NEW p \in Procs, CheckSame(p)
    PROVE  \E f \in Paths : PL!Acquire(p, f)
  <1>0. PICK f \in Paths : f = target[p]
    BY DEF CheckSame, IndInv, OpenInv, InSet
  <1>1. link[f] \in Inodes /\ lock[link[f]] = p /\ pc[p] = "check" /\ held[p] # f
    BY <1>0 DEF CheckSame, IndInv, TypeOK, OpenInv, InSet, HasFd, HasLock
  <1>2. \A q \in Procs : ~Reserved(q, f)
    BY <1>1, ReservedHasLock DEF Reserved, Owns, Confirmed
  <1>3. \A g, h \in Paths : Reserved(p, g) /\ Reserved(p, h) => g = h
    BY <1>1 DEF Reserved, Owns, Confirmed
  <1>4. \A q \in Procs : \A g \in Paths : Reserved(q, g)' <=> Reserved(q, g) \/ (q = p /\ g = f)
    BY <1>0, <1>1 DEF CheckSame, Reserved, Owns, Confirmed, IndInv, TypeOK
  <1>5. \A q \in Procs : (pc'[q] = "dead") <=> (pc[q] = "dead")
    BY <1>1 DEF CheckSame, IndInv, TypeOK
  <1> DEFINE H == [g \in Paths |-> {q \in Procs : Reserved(q, g)}]
  <1>6. H[f] = {} /\ \A g, h \in Paths : p \in H[g] /\ p \in H[h] => g = h
    BY <1>2, <1>3
  <1>7. H' = [H EXCEPT ![f] = {p}]
    BY <1>2, <1>4
  <1>8. PL!Acquire(p, f)
    BY <1>1, <1>5, <1>6, <1>7 DEF PL!Acquire
  <1> QED
    BY <1>8

\* What frees a path of a process that goes on: the unlink of ~PidFile, and the
\* close after initFile threw.
LEMMA FreesOne ==
    ASSUME IndInv, CopiesInv, NEW p \in Procs,
           SwapUnlink(p) \/ DropUnlink(p) \/ ExitUnlink(p) \/ InitFileFails(p)
    PROVE  \E f \in Paths : PL!Release(p, f)
  <1>0. PICK f \in Paths : f = IF pc[p] = "init" THEN target[p] ELSE held[p]
    BY DEF SwapUnlink, DropUnlink, ExitUnlink, Unlink, InitFileFails, IndInv, TypeOK, OpenInv, InSet
  <1>1. Reserved(p, f) /\ pc[p] # "dead"
    BY <1>0 DEF SwapUnlink, DropUnlink, ExitUnlink, Unlink, InitFileFails, IndInv, TypeOK, OpenInv,
           Reserved, Owns, InSet, Confirmed
  <1>2. \A q \in Procs : Reserved(q, f) => q = p
    BY <1>1, ReservedHasLock
  <1>3. \A q \in Procs : \A g \in Paths : Reserved(q, g)' <=> Reserved(q, g) /\ g # f
    <2>1. CASE InitFileFails(p)
      BY <2>1, <1>0, <1>1, <1>2, ConstantsAssumption DEF InitFileFails, Reserved, Owns, Confirmed, InSet, IndInv, TypeOK, OpenInv
    <2>2. CASE SwapUnlink(p) \/ DropUnlink(p) \/ ExitUnlink(p)
      BY <2>2, <1>0, <1>1, <1>2, ConstantsAssumption
      DEF SwapUnlink, DropUnlink, ExitUnlink, Unlink, Reserved, Owns, Confirmed, InSet, IndInv, TypeOK, OpenInv
    <2> QED
      BY <2>1, <2>2
  <1>4. \A q \in Procs : (pc'[q] = "dead") <=> (pc[q] = "dead")
    BY DEF SwapUnlink, DropUnlink, ExitUnlink, Unlink, InitFileFails, IndInv, TypeOK
  <1>5. PL!Release(p, f)
    BY <1>1, <1>2, <1>3, <1>4 DEF PL!Release
  <1> QED
    BY <1>5

\* A process that ends frees its paths, or leaves them to its server process.
LEMMA EndsOne ==
    ASSUME IndInv, CopiesInv, NEW p \in Procs, ExitClose(p) \/ Crash(p)
    PROVE  PL!End(p)
  <1> USE ConstantsAssumption
      DEF IndInv, TypeOK, OpenInv, HeldInv, CopiesInv, CopyInv, Reserved, Owns, Opening, InSet, HasFd, HasLock, Confirmed
  <1>1. pc[p] # "dead" /\ pc'[p] = "dead" /\ \A q \in Procs : q # p => pc'[q] = pc[q]
    BY DEF ExitClose, Crash
  <1>2. \A q \in Procs : \A g \in Paths : q # p => (Reserved(q, g)' <=> Reserved(q, g))
    BY DEF ExitClose, Crash
  <1>3. CASE dup[p] = {}
    <2>1. \A g \in Paths : ~Reserved(p, g)'
      BY <1>3 DEF ExitClose, Crash
    <2> QED
      BY <1>1, <1>2, <2>1 DEF PL!End, PL!Clear
  <1>4. CASE dup[p] # {}
    <2>1. Crash(p) /\ pc[p] = "run" /\ dup[p] = {heldFd[p]} /\ held[p] \in Paths
      BY <1>4, <1>1 DEF ExitClose
    <2>2. \A g \in Paths : Reserved(p, g)' <=> Reserved(p, g)
      BY <2>1 DEF Crash, LinksDiffer
    <2> HIDE DEF Reserved
    <2> QED
      BY <1>1, <1>2, <2>2 DEF PL!End
  <1> QED
    BY <1>3, <1>4

\* The server process closes its copy: nothing happens while its parent lives,
\* and otherwise the parent's paths become free.
LEMMA ChildDropsFrees ==
    ASSUME IndInv, CopiesInv, NEW p \in Procs, ChildDrops(p)
    PROVE  PL!OrphanLetsGo(p) \/ UNCHANGED PL!lvars
  <1> USE DEF IndInv, TypeOK, ChildDrops, Reserved, Owns, Confirmed
  <1>1. pc' = pc /\ \A q \in Procs : \A g \in Paths : q # p => (Reserved(q, g)' <=> Reserved(q, g))
    OBVIOUS
  <1>2. CASE pc[p] = "dead"
    <2>1. \A g \in Paths : ~Reserved(p, g)'
      BY <1>2, ConstantsAssumption DEF HeldInv
    <2> HIDE DEF Reserved
    <2> QED
      BY <1>1, <1>2, <2>1 DEF PL!OrphanLetsGo, PL!Clear
  <1>3. CASE pc[p] # "dead"
    <2>1. \A g \in Paths : Reserved(p, g)' <=> Reserved(p, g)
      BY <1>3
    <2> HIDE DEF Reserved
    <2> QED
      BY <1>1, <2>1 DEF PL!lvars
  <1> QED
    BY <1>2, <1>3

\* Every step of PidFile is a step of PidLock or leaves it as it is.
LEMMA RefinementStep ==
    ASSUME IndInv, CopiesInv, [Next]_vars
    PROVE  [PL!LNext]_(PL!lvars)
  <1>0. CASE UNCHANGED vars
    BY <1>0 DEF vars, PL!lvars, Reserved, Owns
  <1>1. ASSUME NEW p \in Procs, Silent(p) PROVE UNCHANGED PL!lvars
    BY <1>1, SilentStep DEF PL!lvars
  <1>2. ASSUME NEW p \in Procs, CheckSame(p) PROVE PL!LNext
    BY <1>2, CheckSameReserves DEF PL!LNext
  <1>3. ASSUME NEW p \in Procs, SwapUnlink(p) \/ DropUnlink(p) \/ ExitUnlink(p) \/ InitFileFails(p)
        PROVE  PL!LNext
    BY <1>3, FreesOne DEF PL!LNext
  <1>4. ASSUME NEW p \in Procs, ExitClose(p) \/ Crash(p) PROVE PL!LNext
    BY <1>4, EndsOne DEF PL!LNext
  <1>5. ASSUME NEW p \in Procs, ChildDrops(p) PROVE [PL!LNext]_(PL!lvars)
    BY <1>5, ChildDropsFrees DEF PL!LNext
  <1> QED
    BY <1>0, <1>1, <1>2, <1>3, <1>4, <1>5 DEF Next, Step, Outside, Silent

\* The pid file protocol implements one reservation per path.
THEOREM PidLockRefined == Spec => ImplementsPidLock
  <1>1. Init => PL!LInit
    BY ConstantsAssumption DEF Init, PL!LInit, Reserved, Owns, Confirmed
  <1>2. IndInv /\ CopiesInv /\ [Next]_vars => [PL!LNext]_(PL!lvars)
    BY RefinementStep
  <1> QED
    BY <1>1, <1>2, IndCorrect, CopiesCorrect, PTL DEF Spec, ImplementsPidLock, PL!LSpec

=============================================================================
