---------------------------- MODULE DaemonProofs ----------------------------
(***************************************************************************)
(* Proofs about Daemon: one signal to the main process does what it should *)
(* whenever it comes, in every mode and change of mode.                    *)
(*                                                                         *)
(* The invariant follows the signal.  It is pending in a main process that *)
(* will look at it before it ends, or it was caught and stops the process  *)
(* that serves, or it was passed on and stops the child, whose end is then *)
(* answered by the next reload or the end of the main process.             *)
(***************************************************************************)
EXTENDS Daemon, TLAPS

DTypeOK ==
    /\ pc \in [Procs -> {"none", "reload", "wait", "reaped", "emptied",
                         "intRestored", "termRestored", "restored",
                         "starting", "serving", "stopping", "closing", "exited"}]
    /\ end \in [Procs -> {"none", "success", "failure", "reload", "KILL"} \cup Signals]
    /\ blocked \in [Procs -> BOOLEAN]
    /\ disp \in [Procs -> {"initial", "forward", "asio", "default"}]
    /\ pending \in [Procs -> SUBSET Signals]
    /\ caught \in [Procs -> Seq(Signals)]
    /\ reload \in [Procs -> BOOLEAN]
    /\ saved \in {"initial", "forward", "asio", "default"}
    /\ eof \in BOOLEAN /\ stale \in BOOLEAN /\ fault \in BOOLEAN
    /\ sent \in Seq(Signals \X {"main", "group"})

\* At most one signal was sent, to the main process.
Lone == ~fault /\ Len(sent) <= 1 /\ \A i \in 1..Len(sent) : sent[i][2] = "main"

\* Which one it was, if it was.
Was(sig) == Len(sent) = 1 /\ sent[1][1] = sig

\* A child that starts holds signals back until it can catch them.
Catches ==
    \/ pc["child"] = "starting" /\ blocked["child"]
    \/ pc["child"] = "serving" /\ disp["child"] = "asio"

\* No signal has had an effect that is not over; the main process may have one
\* pending.
Undisturbed ==
    /\ end["main"] = "none"
    /\ \/ pc["main"] = "reload" /\ blocked["main"] /\ pc["child"] = "none"
       \/ pc["main"] = "serving" /\ disp["main"] = "asio" /\ pc["child"] = "none"
       \/ pc["main"] = "wait" /\ disp["main"] = "forward" /\ Catches
    /\ \A sig \in pending["main"] : Was(sig)
    /\ pending["child"] = {} /\ caught["main"] = <<>> /\ caught["child"] = <<>>

\* The signal stops a main process that serves alone.
AloneStops ==
    /\ end["main"] = "none" /\ pc["child"] = "none"
    /\ pending["main"] = {} /\ pending["child"] = {} /\ caught["child"] = <<>>
    /\ \/ /\ pc["main"] = "serving" /\ disp["main"] = "asio"
          /\ Len(caught["main"]) = 1 /\ Was(caught["main"][1])
       \/ /\ pc["main"] \in {"stopping", "closing"}
          /\ caught["main"] = <<>> /\ Len(sent) = 1 /\ (Was("HUP") => reload["main"])

\* The signal was passed on to the child.
ChildStops ==
    /\ end["main"] = "none" /\ Len(sent) = 1 /\ (Was("HUP") => reload["main"])
    /\ pending["main"] = {} /\ caught["main"] = <<>>
    /\ \/ /\ pc["main"] = "wait" /\ disp["main"] = "forward"
          /\ \/ /\ Catches /\ caught["child"] = <<>>
                /\ \E sig \in Signals : pending["child"] = {sig}
             \/ pc["child"] = "serving" /\ pending["child"] = {} /\ Len(caught["child"]) = 1
             \/ pc["child"] \in {"stopping", "closing"} /\ pending["child"] = {} /\ caught["child"] = <<>>
             \/ /\ pc["child"] = "exited" /\ end["child"] \in {"success", "reload"}
                /\ pending["child"] = {} /\ caught["child"] = <<>>
       \/ /\ pc["main"] \in {"reaped", "emptied", "intRestored", "termRestored", "restored"}
          /\ pc["child"] = "none" /\ end["child"] \in {"success", "reload"}
          /\ pending["child"] = {} /\ caught["child"] = <<>>

\* The main process has ended as it should.
Over ==
    /\ pc["main"] = "exited" /\ end["main"] = "success" /\ pc["child"] = "none"
    /\ Len(sent) = 1 /\ ~Was("HUP")

LoneInv == Lone => Undisturbed \/ AloneStops \/ ChildStops \/ Over

\* The inductive invariant.
DInd == DTypeOK /\ LoneInv

-----------------------------------------------------------------------------
\* The invariant holds at the start.
LEMMA DInitInd == DInit => DInd
<1> SUFFICES ASSUME DInit PROVE DInd
  OBVIOUS
<1>0. "main" \in Procs /\ "child" \in Procs
  BY DEF Procs
<1>1. /\ pc["main"] = "reload" /\ pc["child"] = "none" /\ end["main"] = "none"
      /\ blocked["main"] /\ pending["main"] = {} /\ pending["child"] = {}
      /\ caught["main"] = <<>> /\ caught["child"] = <<>>
  BY <1>0 DEF DInit
<1>2. LoneInv
  BY <1>1 DEF LoneInv, Undisturbed
<1>3. DTypeOK
  <2>1. blocked \in [Procs -> BOOLEAN] /\ reload \in [Procs -> BOOLEAN]
    BY DEF DInit
  <2>2. pending \in [Procs -> SUBSET Signals] /\ caught \in [Procs -> Seq(Signals)]
    BY DEF DInit
  <2>3. sent \in Seq(Signals \X {"main", "group"})
    BY DEF DInit
  <2>4. pc \in [Procs -> {"reload", "none"}] /\ end \in [Procs -> {"none"}] /\ disp \in [Procs -> {"initial"}]
    BY DEF DInit
  <2> QED
    BY <2>1, <2>2, <2>3, <2>4 DEF DInit, DTypeOK
<1> QED
  BY <1>2, <1>3 DEF DInd

\* The two processes.
LEMMA TwoProcs == "main" \in Procs /\ "child" \in Procs /\ \A p \in Procs : p = "main" \/ p = "child"
BY DEF Procs

\* What a queue of one signal holds, and what is left of it.
LEMMA OneCaught ==
    ASSUME NEW s \in Seq(Signals), Len(s) = 1
    PROVE  Tail(s) = <<>> /\ Head(s) = s[1]
<1>1. Tail(s) \in Seq(Signals) /\ Len(Tail(s)) = 0
  OBVIOUS
<1>2. \A t \in Seq(Signals) : Len(t) = 0 => t = <<>>
  OBVIOUS
<1>3. Head(s) = s[1]
  OBVIOUS
<1>4. Tail(s) = <<>>
  BY <1>1, <1>2
<1> QED
  BY <1>3, <1>4

-----------------------------------------------------------------------------
\* The main process begins to serve: a signal that is pending will be caught.
LEMMA ReloadAloneStep ==
    ASSUME DInd, ReloadAlone
    PROVE  DInd'
<1>t. DTypeOK'
  BY DEF DInd, DTypeOK, ReloadAlone
<1>1. /\ pc["main"] = "reload"
      /\ pc'["main"] = "serving" /\ pc'["child"] = pc["child"]
      /\ disp'["main"] = "asio"
      /\ UNCHANGED <<end, pending, caught, sent, fault>>
  BY TwoProcs DEF DInd, DTypeOK, ReloadAlone
<1>2. LoneInv'
  <2> SUFFICES ASSUME Lone' PROVE Undisturbed'
    BY DEF LoneInv
  <2>1. Undisturbed
    BY <1>1 DEF DInd, LoneInv, Lone, AloneStops, ChildStops, Over
  <2> QED
    BY <1>1, <2>1 DEF Undisturbed, Was
<1> QED
  BY <1>t, <1>2 DEF DInd

\* The main process forks: a signal that is pending will be passed on.
LEMMA ReloadForksStep ==
    ASSUME DInd, ReloadForks
    PROVE  DInd'
<1>t. DTypeOK'
  <2>1. /\ pc' \in [Procs -> {"wait", "starting"}] /\ reload' \in [Procs -> BOOLEAN]
        /\ blocked' \in [Procs -> BOOLEAN]
    BY DEF ReloadForks
  <2>2. disp' \in [Procs -> {"initial", "forward", "asio", "default"}] /\ saved' = disp["main"]
    BY TwoProcs DEF ReloadForks, DInd, DTypeOK
  <2>3. pending' \in [Procs -> SUBSET Signals]
    BY DEF ReloadForks, DInd, DTypeOK
  <2>4. caught' \in [Procs -> Seq(Signals)]
    <3>1. <<>> \in Seq(Signals)
      OBVIOUS
    <3> QED
      BY <3>1 DEF ReloadForks, DInd, DTypeOK
  <2> QED
    BY <2>1, <2>2, <2>3, <2>4, TwoProcs DEF DInd, DTypeOK, ReloadForks
<1>1. /\ pc["main"] = "reload"
      /\ pc'["main"] = "wait" /\ pc'["child"] = "starting"
      /\ disp'["main"] = "forward" /\ blocked'["child"]
      /\ end'["main"] = end["main"]
      /\ pending'["main"] = pending["main"] /\ caught'["main"] = caught["main"]
      /\ pending'["child"] = {} /\ caught'["child"] = <<>>
      /\ UNCHANGED <<sent, fault>>
  BY TwoProcs DEF DInd, DTypeOK, ReloadForks
<1>2. LoneInv'
  <2> SUFFICES ASSUME Lone' PROVE Undisturbed'
    BY DEF LoneInv
  <2>1. Undisturbed
    BY <1>1 DEF DInd, LoneInv, Lone, AloneStops, ChildStops, Over
  <2> QED
    BY <1>1, <2>1 DEF Undisturbed, Was, Catches
<1> QED
  BY <1>t, <1>2 DEF DInd

\* The child is waited for.
LEMMA ReapStep ==
    ASSUME DInd, Reap
    PROVE  DInd'
<1>t. DTypeOK'
  BY DEF DInd, DTypeOK, Reap
<1>1. /\ pc["main"] = "wait" /\ pc["child"] = "exited"
      /\ pc'["main"] = "reaped" /\ pc'["child"] = "none"
      /\ UNCHANGED <<end, pending, caught, reload, sent, fault>>
  BY TwoProcs DEF DInd, DTypeOK, Reap
<1>2. LoneInv'
  <2> SUFFICES ASSUME Lone' PROVE ChildStops'
    BY DEF LoneInv
  <2>1. ChildStops
    BY <1>1 DEF DInd, LoneInv, Lone, Undisturbed, Catches, AloneStops, Over
  <2> QED
    BY <1>1, <2>1 DEF ChildStops, Catches, Was
<1> QED
  BY <1>t, <1>2 DEF DInd

\* The ChildProcess is made empty, when no signal is pending.
LEMMA EmptiedStep ==
    ASSUME DInd, Emptied
    PROVE  DInd'
<1>t. DTypeOK'
  BY DEF DInd, DTypeOK, Emptied
<1>1. /\ pc["main"] = "reaped"
      /\ pc'["main"] = "emptied" /\ pc'["child"] = pc["child"]
      /\ UNCHANGED <<end, pending, caught, reload, sent, fault>>
  BY TwoProcs DEF DInd, DTypeOK, Emptied
<1>2. LoneInv'
  <2> SUFFICES ASSUME Lone' PROVE ChildStops'
    BY DEF LoneInv
  <2>1. ChildStops
    BY <1>1 DEF DInd, LoneInv, Lone, Undisturbed, AloneStops, Over
  <2> QED
    BY <1>1, <2>1 DEF ChildStops, Was
<1> QED
  BY <1>t, <1>2 DEF DInd

\* The old handlers are set again, when no signal is pending.
LEMMA RestoreStep ==
    ASSUME DInd, Restore
    PROVE  DInd'
<1>0. /\ pc["main"] \in {"emptied", "intRestored", "termRestored"}
      /\ AfterRestore[pc["main"]] \in {"intRestored", "termRestored", "restored"}
  BY DEF Restore, AfterRestore
<1>t. DTypeOK'
  BY <1>0 DEF DInd, DTypeOK, Restore
<1>1. /\ pc'["main"] \in {"intRestored", "termRestored", "restored"} /\ pc'["child"] = pc["child"]
      /\ UNCHANGED <<end, pending, caught, reload, sent, fault>>
  BY <1>0, TwoProcs DEF DInd, DTypeOK, Restore
<1>2. LoneInv'
  <2> SUFFICES ASSUME Lone' PROVE ChildStops'
    BY DEF LoneInv
  <2>1. ChildStops
    BY <1>0, <1>1 DEF DInd, LoneInv, Lone, Undisturbed, AloneStops, Over
  <2> QED
    BY <1>0, <1>1, <2>1 DEF ChildStops, Was
<1> QED
  BY <1>t, <1>2 DEF DInd

\* After the end of the child, the configuration is read again or all ends well.
LEMMA DecideStep ==
    ASSUME DInd, Decide
    PROVE  DInd'
<1>t. DTypeOK'
  <2>1. reload' \in [Procs -> BOOLEAN]
    BY DEF DInd, DTypeOK, Decide
  <2>2. /\ pc' = [pc EXCEPT !["main"] = "reload"] \/ pc' = [pc EXCEPT !["main"] = "exited"]
        /\ blocked' = blocked \/ blocked' = [blocked EXCEPT !["main"] = TRUE]
        /\ \E c \in {"success", "failure"} : end' = end \/ end' = [end EXCEPT !["main"] = c]
    BY DEF Decide, Again, Ends
  <2>3. pc' \in [Procs -> {"none", "reload", "wait", "reaped", "emptied",
                         "intRestored", "termRestored", "restored",
                         "starting", "serving", "stopping", "closing", "exited"}]
    BY <2>2 DEF DInd, DTypeOK
  <2>4. end' \in [Procs -> {"none", "success", "failure", "reload", "KILL"} \cup Signals]
    BY <2>2 DEF DInd, DTypeOK
  <2>5. blocked' \in [Procs -> BOOLEAN]
    BY <2>2 DEF DInd, DTypeOK
  <2> QED
    BY <2>1, <2>3, <2>4, <2>5 DEF DInd, DTypeOK, Decide
<1>1. /\ pc["main"] = "restored" /\ pc'["child"] = pc["child"]
      /\ UNCHANGED <<pending, caught, sent, fault>>
  BY TwoProcs DEF DInd, DTypeOK, Decide, Again, Ends
<1>2. LoneInv'
  <2> SUFFICES ASSUME Lone' PROVE (Undisturbed \/ Over)'
    BY DEF LoneInv
  <2>1. ChildStops
    BY <1>1 DEF DInd, LoneInv, Lone, Undisturbed, AloneStops, Over
  <2>2. end["child"] \in {"success", "reload"} /\ pc["child"] = "none"
    BY <1>1, <2>1 DEF ChildStops
  <2>3. reload["main"] => reload'["main"]
    BY TwoProcs DEF DInd, DTypeOK, Decide
  <2>4. CASE reload'["main"]
    <3>1. /\ pc'["main"] = "reload" /\ blocked'["main"] /\ end' = end
      BY <2>2, <2>4, TwoProcs DEF Decide, Again, DInd, DTypeOK
    <3> QED
      BY <1>1, <2>1, <2>2, <3>1 DEF ChildStops, Undisturbed
  <2>5. CASE ~reload'["main"]
    <3>1. /\ pc'["main"] = "exited" /\ end'["main"] = "success"
      BY <2>2, <2>5, TwoProcs DEF Decide, Ends, DInd, DTypeOK
    <3>2. ~Was("HUP") /\ Len(sent) = 1
      BY <2>1, <2>3, <2>5 DEF ChildStops
    <3> QED
      BY <1>1, <2>2, <3>1, <3>2 DEF Over, Was
  <2> QED
    BY <2>4, <2>5
<1> QED
  BY <1>t, <1>2 DEF DInd

\* So it is after the end of serve() in a main process that serves alone.
LEMMA FinishAloneStep ==
    ASSUME DInd, FinishAlone
    PROVE  DInd'
<1>t. DTypeOK'
  <2>2. /\ pc' = [pc EXCEPT !["main"] = "reload"] \/ pc' = [pc EXCEPT !["main"] = "exited"]
        /\ blocked' = blocked \/ blocked' = [blocked EXCEPT !["main"] = TRUE]
        /\ end' = end \/ end' = [end EXCEPT !["main"] = "success"]
    BY DEF FinishAlone, Again, Ends
  <2>3. pc' \in [Procs -> {"none", "reload", "wait", "reaped", "emptied",
                         "intRestored", "termRestored", "restored",
                         "starting", "serving", "stopping", "closing", "exited"}]
    BY <2>2 DEF DInd, DTypeOK
  <2>4. end' \in [Procs -> {"none", "success", "failure", "reload", "KILL"} \cup Signals]
    BY <2>2 DEF DInd, DTypeOK
  <2>5. blocked' \in [Procs -> BOOLEAN]
    BY <2>2 DEF DInd, DTypeOK
  <2> QED
    BY <2>3, <2>4, <2>5 DEF DInd, DTypeOK, FinishAlone
<1>1. /\ pc["main"] = "closing" /\ pc'["child"] = pc["child"]
      /\ UNCHANGED <<pending, caught, sent, fault>>
  BY TwoProcs DEF DInd, DTypeOK, FinishAlone, Again, Ends
<1>2. LoneInv'
  <2> SUFFICES ASSUME Lone' PROVE (Undisturbed \/ Over)'
    BY DEF LoneInv
  <2>1. AloneStops
    BY <1>1 DEF DInd, LoneInv, Lone, Undisturbed, ChildStops, Over
  <2>4. CASE reload["main"]
    <3>1. /\ pc'["main"] = "reload" /\ blocked'["main"] /\ end' = end
      BY <2>4, TwoProcs DEF FinishAlone, Again, DInd, DTypeOK
    <3> QED
      BY <1>1, <2>1, <3>1 DEF AloneStops, Undisturbed
  <2>5. CASE ~reload["main"]
    <3>1. /\ pc'["main"] = "exited" /\ end'["main"] = "success"
      BY <2>5, TwoProcs DEF FinishAlone, Ends, DInd, DTypeOK
    <3>2. ~Was("HUP") /\ Len(sent) = 1 /\ pc["child"] = "none"
      BY <1>1, <2>1, <2>5 DEF AloneStops
    <3> QED
      BY <1>1, <3>1, <3>2 DEF Over, Was
  <2> QED
    BY <2>4, <2>5
<1> QED
  BY <1>t, <1>2 DEF DInd

\* The child begins to serve: a signal that is pending will be caught.
LEMMA ChildStartsStep ==
    ASSUME DInd, ChildStarts
    PROVE  DInd'
<1>t. DTypeOK'
  BY DEF DInd, DTypeOK, ChildStarts
<1>1. /\ pc["child"] = "starting"
      /\ pc'["child"] = "serving" /\ pc'["main"] = pc["main"]
      /\ disp'["child"] = "asio" /\ disp'["main"] = disp["main"]
      /\ UNCHANGED <<end, pending, caught, reload, sent, fault>>
  BY TwoProcs DEF DInd, DTypeOK, ChildStarts
<1>2. LoneInv'
  <2> SUFFICES ASSUME Lone' PROVE (Undisturbed \/ ChildStops)'
    BY DEF LoneInv
  <2>1. Undisturbed \/ ChildStops
    BY <1>1 DEF DInd, LoneInv, Lone, AloneStops, Over
  <2>2. CASE Undisturbed
    BY <1>1, <2>2 DEF Undisturbed, Catches, Was
  <2>3. CASE ChildStops
    <3>1. pc["main"] = "wait" /\ Catches /\ caught["child"] = <<>> /\ \E sig \in Signals : pending["child"] = {sig}
      BY <1>1, <2>3 DEF ChildStops
    <3> QED
      BY <1>1, <2>3, <3>1 DEF ChildStops, Catches, Was
  <2> QED
    BY <2>1, <2>2, <2>3
<1> QED
  BY <1>t, <1>2 DEF DInd

\* The signal that was caught begins the stop.
LEMMA HandleSignalStep ==
    ASSUME DInd, NEW p \in Procs, HandleSignal(p)
    PROVE  DInd'
<1>t. DTypeOK'
  <2>1. Tail(caught[p]) \in Seq(Signals) /\ reload' \in [Procs -> BOOLEAN]
    BY DEF HandleSignal, DInd, DTypeOK
  <2> QED
    BY <2>1 DEF DInd, DTypeOK, HandleSignal
<1>1. /\ pc[p] = "serving" /\ caught[p] # <<>> /\ caught[p] \in Seq(Signals)
      /\ pc'[p] = "stopping" /\ caught'[p] = Tail(caught[p])
      /\ reload'[p] <=> (reload[p] \/ Head(caught[p]) = "HUP")
      /\ \A q \in Procs : q # p => pc'[q] = pc[q] /\ caught'[q] = caught[q] /\ (reload'[q] <=> reload[q])
      /\ UNCHANGED <<end, disp, pending, sent, fault>>
  BY DEF DInd, DTypeOK, HandleSignal
<1>2. LoneInv'
  <2> SUFFICES ASSUME Lone' PROVE (AloneStops \/ ChildStops)'
    BY DEF LoneInv
  <2>0. "main" # "child"
    OBVIOUS
  <2>1. CASE p = "main"
    <3>1. AloneStops /\ Len(caught["main"]) = 1 /\ Was(caught["main"][1])
      BY <1>1, <2>1 DEF DInd, LoneInv, Lone, Undisturbed, AloneStops, ChildStops, Over
    <3>2. caught'["main"] = <<>> /\ Head(caught["main"]) = caught["main"][1]
      BY <1>1, <2>1, <3>1, OneCaught
    <3>3. Was("HUP") => reload'["main"]
      BY <1>1, <2>1, <3>1, <3>2 DEF Was
    <3> QED
      BY <1>1, <2>0, <2>1, <3>1, <3>2, <3>3, TwoProcs DEF AloneStops, Was
  <2>2. CASE p = "child"
    <3>1. ChildStops /\ Len(caught["child"]) = 1 /\ pending["child"] = {} /\ pc["main"] = "wait" /\ disp["main"] = "forward"
      BY <1>1, <2>2 DEF DInd, LoneInv, Lone, Undisturbed, AloneStops, ChildStops, Over
    <3>2. caught'["child"] = <<>>
      BY <1>1, <2>2, <3>1, OneCaught
    <3> QED
      BY <1>1, <2>0, <2>2, <3>1, <3>2, TwoProcs DEF ChildStops, Was
  <2> QED
    BY <2>1, <2>2, TwoProcs
<1> QED
  BY <1>t, <1>2 DEF DInd

\* serve() returns, when no signal is pending or caught.
LEMMA RunReturnsStep ==
    ASSUME DInd, NEW p \in Procs, RunReturns(p)
    PROVE  DInd'
<1>t. DTypeOK'
  <2>1. <<>> \in Seq(Signals)
    OBVIOUS
  <2> QED
    BY <2>1 DEF DInd, DTypeOK, RunReturns
<1>1. /\ pc[p] = "stopping" /\ pc'[p] = "closing" /\ caught'[p] = <<>>
      /\ \A q \in Procs : q # p => pc'[q] = pc[q] /\ caught'[q] = caught[q] /\ disp'[q] = disp[q]
      /\ UNCHANGED <<end, pending, reload, sent, fault>>
  BY DEF DInd, DTypeOK, RunReturns
<1>2. LoneInv'
  <2> SUFFICES ASSUME Lone' PROVE (AloneStops \/ ChildStops)'
    BY DEF LoneInv
  <2>0. "main" # "child"
    OBVIOUS
  <2>1. CASE p = "main"
    <3>1. AloneStops
      BY <1>1, <2>1 DEF DInd, LoneInv, Lone, Undisturbed, ChildStops, Over
    <3> QED
      BY <1>1, <2>0, <2>1, <3>1, TwoProcs DEF AloneStops, Was
  <2>2. CASE p = "child"
    <3>1. ChildStops
      BY <1>1, <2>2 DEF DInd, LoneInv, Lone, Undisturbed, Catches, AloneStops, Over
    <3>2. pending["child"] = {} /\ pc["main"] = "wait" /\ disp["main"] = "forward"
      BY <1>1, <2>2, <3>1 DEF ChildStops, Catches
    <3> QED
      BY <1>1, <2>0, <2>2, <3>1, <3>2, TwoProcs DEF ChildStops, Was
  <2> QED
    BY <2>1, <2>2, TwoProcs
<1> QED
  BY <1>t, <1>2 DEF DInd

\* The child ends in good order.
LEMMA FinishChildStep ==
    ASSUME DInd, FinishChild
    PROVE  DInd'
<1>t. DTypeOK'
  BY DEF DInd, DTypeOK, FinishChild, Ends
<1>1. /\ pc["child"] = "closing" /\ pc'["child"] = "exited" /\ pc'["main"] = pc["main"]
      /\ end'["child"] \in {"success", "reload"} /\ end'["main"] = end["main"]
      /\ UNCHANGED <<disp, pending, caught, reload, sent, fault>>
  BY TwoProcs DEF DInd, DTypeOK, FinishChild, Ends
<1>2. LoneInv'
  <2> SUFFICES ASSUME Lone' PROVE ChildStops'
    BY DEF LoneInv
  <2>1. ChildStops
    BY <1>1 DEF DInd, LoneInv, Lone, Undisturbed, Catches, AloneStops, Over
  <2>2. pending["child"] = {} /\ caught["child"] = <<>> /\ pc["main"] = "wait" /\ disp["main"] = "forward"
    BY <1>1, <2>1 DEF ChildStops, Catches
  <2> QED
    BY <1>1, <2>1, <2>2 DEF ChildStops, Was
<1> QED
  BY <1>t, <1>2 DEF DInd

\* A child has lost its parent only after a fault or more signals.
LEMMA ParentExitedStep ==
    ASSUME DInd, ParentExited
    PROVE  DInd'
<1>t. DTypeOK'
  <2>1. pending' \in [Procs -> SUBSET Signals]
    BY DEF ParentExited, Posted, PostedTo, Signals, DInd, DTypeOK
  <2> QED
    BY <2>1 DEF DInd, DTypeOK, ParentExited
<1>1. /\ pc["child"] = "serving" /\ pc["main"] \in {"none", "exited"}
      /\ UNCHANGED <<sent, fault>>
  BY DEF ParentExited, Live
<1>2. LoneInv'
  BY <1>1 DEF DInd, LoneInv, Lone, Undisturbed, AloneStops, ChildStops, Over
<1> QED
  BY <1>t, <1>2 DEF DInd

-----------------------------------------------------------------------------
\* A lone signal meets no handler that was restored before the others.
LEMMA DeliveredBy ==
    ASSUME DInd, Lone, NEW p \in Procs, NEW sig, NEW d, Delivers(p, sig, d)
    PROVE  disp[p] = d
<1>1. ~HandlerRestored(p, sig)
  <2> SUFFICES ASSUME HandlerRestored(p, sig) PROVE FALSE
    OBVIOUS
  <2>1. pc["main"] \in {"intRestored", "termRestored"} /\ pending["main"] # {}
    BY DEF HandlerRestored, Delivers
  <2> QED
    BY <2>1 DEF DInd, LoneInv, Undisturbed, AloneStops, ChildStops, Over
<1> QED
  BY <1>1 DEF Delivers

\* asio catches the signal: it was pending in the process that serves alone, or
\* was passed on to the child.
LEMMA DeliverCaughtStep ==
    ASSUME DInd, NEW p \in Procs, NEW sig \in Signals, DeliverCaught(p, sig)
    PROVE  DInd'
<1>t. DTypeOK'
  <2>1. pending' \in [Procs -> SUBSET Signals]
    BY DEF DeliverCaught, DInd, DTypeOK
  <2>2. Append(caught[p], sig) \in Seq(Signals)
    BY DEF DInd, DTypeOK
  <2> QED
    BY <2>1, <2>2 DEF DInd, DTypeOK, DeliverCaught
<1>d. Lone => disp[p] = "asio"
  BY DeliveredBy DEF DeliverCaught
<1>1. /\ ~blocked[p] /\ sig \in pending[p]
      /\ pc[p] \notin {"none", "exited"}
      /\ pending'[p] = pending[p] \ {sig} /\ caught'[p] = Append(caught[p], sig)
      /\ \A q \in Procs : q # p => pending'[q] = pending[q] /\ caught'[q] = caught[q]
      /\ UNCHANGED <<pc, end, blocked, disp, reload, sent, fault>>
  BY DEF DInd, DTypeOK, DeliverCaught, Delivers, Live
<1>2. LoneInv'
  <2> SUFFICES ASSUME Lone' PROVE (AloneStops \/ ChildStops)'
    BY DEF LoneInv
  <2>0. "main" # "child"
    OBVIOUS
  <2>1. CASE p = "main"
    <3>1. Undisturbed /\ pc["main"] = "serving" /\ pc["child"] = "none"
      BY <1>1, <1>d, <2>1 DEF DInd, LoneInv, Lone, Undisturbed, AloneStops, ChildStops, Over, DTypeOK
    <3>2. /\ pending'["main"] = {} /\ Was(sig)
      BY <1>1, <2>1, <3>1 DEF Undisturbed, Was
    <3>3. caught'["main"] = Append(<<>>, sig)
      BY <1>1, <2>1, <3>1 DEF Undisturbed
    <3>4. Len(Append(<<>>, sig)) = 1 /\ Append(<<>>, sig)[1] = sig
      OBVIOUS
    <3>5. Len(caught'["main"]) = 1 /\ caught'["main"][1] = sig
      BY <3>3, <3>4
    <3> QED
      BY <1>1, <2>0, <2>1, <3>1, <3>2, <3>5, TwoProcs DEF Undisturbed, AloneStops, Was
  <2>2. CASE p = "child"
    <3>1. ChildStops /\ pc["main"] = "wait" /\ disp["main"] = "forward" /\ Catches /\ caught["child"] = <<>>
      BY <1>1, <1>d, <2>2 DEF DInd, LoneInv, Lone, Undisturbed, AloneStops, ChildStops, Over
    <3>2. PICK s \in Signals : pending["child"] = {s}
      BY <1>1, <2>2, <3>1 DEF ChildStops
    <3>3. pending'["child"] = {} /\ pc["child"] = "serving"
      BY <1>1, <2>2, <3>1, <3>2 DEF Catches
    <3>4. Len(Append(<<>>, sig)) = 1
      OBVIOUS
    <3>5. Len(caught'["child"]) = 1
      BY <1>1, <2>2, <3>1, <3>4
    <3> QED
      BY <1>1, <2>0, <2>2, <3>1, <3>3, <3>5, TwoProcs DEF ChildStops, Was
  <2> QED
    BY <2>1, <2>2, TwoProcs
<1> QED
  BY <1>t, <1>2 DEF DInd

\* The main process passes the signal on to a child that will catch it.
LEMMA DeliverForwardedStep ==
    ASSUME DInd, NEW sig \in Signals, DeliverForwarded(sig)
    PROVE  DInd'
<1> DEFINE on == IF sig = "HUP" THEN "INT" ELSE sig
<1>0. on \in Signals
  BY DEF Signals
<1>t. DTypeOK'
  <2>1. [pending EXCEPT !["main"] = @ \ {sig}] \in [Procs -> SUBSET Signals]
    BY DEF DInd, DTypeOK
  <2>2. pending' \in [Procs -> SUBSET Signals]
    BY <1>0, <2>1 DEF DeliverForwarded, PostedTo
  <2>3. reload' \in [Procs -> BOOLEAN]
    BY DEF DeliverForwarded, DInd, DTypeOK
  <2> QED
    BY <2>2, <2>3 DEF DInd, DTypeOK, DeliverForwarded
<1>d. Lone => disp["main"] = "forward"
  BY DeliveredBy, TwoProcs DEF DeliverForwarded
<1>1. /\ ~blocked["main"] /\ sig \in pending["main"]
      /\ pc["main"] \notin {"none", "exited"}
      /\ reload'["main"] <=> (reload["main"] \/ sig = "HUP")
      /\ UNCHANGED <<pc, end, blocked, disp, caught, sent, fault>>
  BY TwoProcs DEF DInd, DTypeOK, DeliverForwarded, Delivers, Live
<1>w. ASSUME pc["main"] = "wait"
      PROVE  /\ pending'["main"] = pending["main"] \ {sig}
             /\ pending'["child"] = IF Live("child") THEN pending["child"] \cup {on} ELSE pending["child"]
  <2>1. KillTarget = {"child"}
    BY <1>w DEF KillTarget, AfterRestore
  <2>2. pending' = PostedTo([pending EXCEPT !["main"] = @ \ {sig}], {"child"}, on)
    BY <2>1 DEF DeliverForwarded
  <2> QED
    BY <2>2, TwoProcs DEF PostedTo, DInd, DTypeOK
<1> HIDE DEF on
<1>2. LoneInv'
  <2> SUFFICES ASSUME Lone' PROVE ChildStops'
    BY DEF LoneInv
  <2>1. Undisturbed /\ pc["main"] = "wait" /\ Catches
    BY <1>1, <1>d DEF DInd, LoneInv, Lone, Undisturbed, AloneStops, ChildStops, Over
  <2>2. pending'["main"] = {} /\ Was(sig)
    BY <1>1, <1>w, <2>1 DEF Undisturbed, Was
  <2>3. pending'["child"] = {on}
    BY <1>1, <1>w, <2>1 DEF Undisturbed, Catches, Live
  <2> QED
    BY <1>0, <1>1, <2>1, <2>2, <2>3 DEF Undisturbed, ChildStops, Catches, Was
<1> QED
  BY <1>t, <1>2 DEF DInd

\* The handlers of main() never see a lone signal: it is held back while they
\* are set, or gone when they are set again.
LEMMA DeliverInitialStep ==
    ASSUME DInd, NEW sig \in Signals, DeliverInitial(sig)
    PROVE  DInd'
<1>t. DTypeOK'
  <2>1. pending' \in [Procs -> SUBSET Signals]
    BY DEF DeliverInitial, DInd, DTypeOK
  <2>2. CASE UNCHANGED <<pc, end>>
    BY <2>1, <2>2 DEF DInd, DTypeOK, DeliverInitial
  <2>3. CASE Ends("main", "success")
    BY <2>1, <2>3 DEF DInd, DTypeOK, DeliverInitial, Ends
  <2> QED
    BY <2>2, <2>3 DEF DeliverInitial
<1>d. Lone => disp["main"] = "initial"
  BY DeliveredBy, TwoProcs DEF DeliverInitial
<1>1. /\ ~blocked["main"] /\ sig \in pending["main"]
      /\ UNCHANGED <<sent, fault>>
  BY DEF DeliverInitial, Delivers
<1>2. LoneInv'
  <2>1. ~Lone
    BY <1>1, <1>d, DeliverInitial(sig) DEF DInd, LoneInv, Undisturbed, AloneStops, ChildStops, Over, DeliverInitial, Delivers, Live
  <2> QED
    BY <1>1, <2>1 DEF LoneInv, Lone
<1> QED
  BY <1>t, <1>2 DEF DInd

\* Nor do the default dispositions, which would kill the process.
LEMMA DeliverDefaultStep ==
    ASSUME DInd, NEW p \in Procs, NEW sig \in Signals, DeliverDefault(p, sig)
    PROVE  DInd'
<1>t. DTypeOK'
  <2>1. pending' \in [Procs -> SUBSET Signals]
    BY DEF DeliverDefault, DInd, DTypeOK
  <2> QED
    BY <2>1 DEF DInd, DTypeOK, DeliverDefault, Ends
<1>d. Lone => disp[p] = "default"
  BY DeliveredBy DEF DeliverDefault
<1>1. /\ ~blocked[p] /\ sig \in pending[p]
      /\ pc[p] \notin {"none", "exited"}
      /\ UNCHANGED <<sent, fault>>
  BY DEF DeliverDefault, Delivers, Live
<1>2. LoneInv'
  <2>1. CASE p = "main"
    <3>1. ~Lone
      BY <1>1, <1>d, <2>1 DEF DInd, LoneInv, Undisturbed, AloneStops, ChildStops, Over
    <3> QED
      BY <1>1, <3>1 DEF LoneInv, Lone
  <2>2. CASE p = "child"
    <3>1. ~Lone
      BY <1>1, <1>d, <2>2 DEF DInd, LoneInv, Undisturbed, AloneStops, ChildStops, Over, Catches
    <3> QED
      BY <1>1, <3>1 DEF LoneInv, Lone
  <2> QED
    BY <2>1, <2>2, TwoProcs
<1> QED
  BY <1>t, <1>2 DEF DInd

-----------------------------------------------------------------------------
\* A signal is sent: the first one finds a main process that is undisturbed.
LEMMA SendStep ==
    ASSUME DInd, NEW sig \in Sendable, NEW target \in Targets, Send(sig, target)
    PROVE  DInd'
<1>0. sig \in Signals /\ target \in {"main", "group"} /\ <<sig, target>> \in Signals \X {"main", "group"}
  BY DaemonAssumption DEF Signals
<1>p. pending' \in [Procs -> SUBSET Signals]
  BY <1>0 DEF Send, Posted, PostedTo, DInd, DTypeOK
<1>s. sent \in Seq(Signals \X {"main", "group"}) /\ Len(sent) \in Nat
  BY DEF DInd, DTypeOK
<1>a. /\ sent' = Append(sent, <<sig, target>>)
      /\ sent' \in Seq(Signals \X {"main", "group"})
      /\ Len(sent') = Len(sent) + 1
      /\ sent'[Len(sent) + 1] = <<sig, target>>
  BY <1>0, <1>s DEF Send
<1>t. DTypeOK'
  <2>1. stale' \in BOOLEAN
    BY DEF Send, DInd, DTypeOK
  <2> QED
    BY <1>p, <1>a, <2>1 DEF DInd, DTypeOK, Send
<1>2. LoneInv'
  <2> SUFFICES ASSUME Lone' PROVE Undisturbed'
    BY DEF LoneInv
  <2>1. ~fault /\ Len(sent) = 0
    BY <1>a, <1>s DEF Lone, Send
  <2>2. Len(sent') = 1 /\ sent'[1] = <<sig, target>> /\ sent'[1][2] = "main"
    BY <1>a, <2>1 DEF Lone
  <2>3. sent'[1][1] = sig /\ target = "main"
    BY <2>2
  <2>4. Lone /\ Len(sent) # 1
    BY <2>1 DEF Lone
  <2>5. Undisturbed
    BY <2>4 DEF DInd, LoneInv, AloneStops, ChildStops, Over, Was
  <2>6. pending["main"] = {}
    BY <2>4, <2>5, TwoProcs DEF Undisturbed, Was, DInd, DTypeOK
  <2>7. pending' = Posted({"main"}, sig) /\ UNCHANGED <<pc, end, blocked, disp, caught>>
    BY <2>3 DEF Send
  <2>8. pending'["child"] = pending["child"]
    BY <2>7, TwoProcs DEF Posted, PostedTo
  <2>9. pending'["main"] \subseteq {sig}
    BY <2>6, <2>7, TwoProcs DEF Posted, PostedTo
  <2>10. \A g \in pending'["main"] : Was(g)'
    <3> SUFFICES ASSUME NEW g \in pending'["main"] PROVE Len(sent') = 1 /\ sent'[1][1] = g
      BY DEF Was
    <3> QED
      BY <2>2, <2>3, <2>9
  <2> QED
    BY <2>5, <2>7, <2>8, <2>10 DEF Undisturbed, Catches
<1> QED
  BY <1>t, <1>2 DEF DInd

\* A fault ends what is claimed.
LEMMA FaultStep ==
    ASSUME DInd, Crash \/ ReloadFails \/ \E p \in Procs : ServeFails(p)
    PROVE  DInd'
<1>1. CASE Crash
  BY <1>1 DEF Crash, Ends, DInd, DTypeOK, LoneInv, Lone
<1>2. CASE ReloadFails
  BY <1>2 DEF ReloadFails, Ends, DInd, DTypeOK, LoneInv, Lone
<1>3. ASSUME NEW p \in Procs, ServeFails(p) PROVE DInd'
  BY <1>3 DEF ServeFails, Ends, DInd, DTypeOK, LoneInv, Lone
<1> QED
  BY <1>1, <1>2, <1>3

-----------------------------------------------------------------------------
\* Every step keeps the invariant.
LEMMA DStepInd == DInd /\ [DNext]_vars => DInd'
<1> SUFFICES ASSUME DInd, [DNext]_vars PROVE DInd'
  OBVIOUS
<1>1. CASE Main
  <2>1. CASE \E sig \in Signals : DeliverForwarded(sig) \/ DeliverInitial(sig)
    BY <2>1, DeliverForwardedStep, DeliverInitialStep
  <2> QED
    BY <1>1, <2>1, ReloadAloneStep, ReloadForksStep, ReapStep, EmptiedStep, RestoreStep, DecideStep, FinishAloneStep DEF Main
<1>2. CASE Child
  BY <1>2, ChildStartsStep, FinishChildStep, ParentExitedStep DEF Child
<1>3. CASE Outside
  <2>1. CASE \E sig \in Sendable, target \in Targets : Send(sig, target)
    BY <2>1, SendStep
  <2> QED
    BY <1>3, <2>1, FaultStep DEF Outside
<1>4. ASSUME NEW p \in Procs, Proc(p) PROVE DInd'
  <2>1. CASE \E sig \in Signals : DeliverCaught(p, sig) \/ DeliverDefault(p, sig)
    BY <2>1, DeliverCaughtStep, DeliverDefaultStep
  <2> QED
    BY <1>4, <2>1, HandleSignalStep, RunReturnsStep DEF Proc
<1>5. CASE UNCHANGED vars
  BY <1>5 DEF vars, DInd, DTypeOK, LoneInv, Lone, Was, Catches, Undisturbed, AloneStops, ChildStops, Over
<1> QED
  BY <1>1, <1>2, <1>3, <1>4, <1>5 DEF DNext

\* What the invariant says of one signal to the main process.
LEMMA DIndLone == DInd => LoneSignal
<1> SUFFICES ASSUME DInd, ~fault, NEW sig \in Signals, sent = <<<<sig, "main">>>>
             PROVE  /\ IF sent[1][1] = "HUP" THEN Live("main") ELSE end["main"] \in {"none", "success"}
                    /\ ~SelfSignalling
  BY DEF LoneSignal
<1>1. Len(sent) = 1 /\ sent[1][1] = sig /\ sent[1][2] = "main"
  OBVIOUS
<1>2. Lone /\ Was(sig)
  BY <1>1 DEF Lone, Was
<1>3. CASE Undisturbed
  BY <1>1, <1>3 DEF Undisturbed, Live, SelfSignalling
<1>4. CASE AloneStops
  BY <1>1, <1>4 DEF AloneStops, Live, SelfSignalling
<1>5. CASE ChildStops
  BY <1>1, <1>5 DEF ChildStops, Live, SelfSignalling
<1>6. CASE Over
  BY <1>1, <1>6 DEF Over, Was, SelfSignalling
<1> QED
  BY <1>2, <1>3, <1>4, <1>5, <1>6 DEF DInd, LoneInv

\* The inductive invariant holds always.
THEOREM DIndAlways == DSpec => []DInd
BY DInitInd, DStepInd, PTL DEF DSpec

\* One SIGHUP to the main process never ends the daemon, and one SIGTERM or
\* SIGINT never makes it exit with anything but 0, wherever in reload, fork,
\* wait or stop it arrives: the masks and handlers of runServer, waitForChild
\* and serve leave no gap for a single signal, and it takes more than one to
\* make the main process signal itself.
THEOREM LoneSignalAlways == DSpec => []LoneSignal
BY DIndAlways, DIndLone, PTL

=============================================================================
