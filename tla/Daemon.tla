------------------------------- MODULE Daemon -------------------------------
(***************************************************************************)
(* The processes of the daemon and the signals that control them:          *)
(* src/src/main.cpp.  The main process either serves itself or forks a     *)
(* child that serves under another root directory or user, and waits for   *)
(* it.  Which one it does is decided anew at every reload of the           *)
(* configuration.                                                          *)
(*                                                                         *)
(* What a signal does depends on when it comes: it may be blocked, run the *)
(* handlers that main() installs, be forwarded to the child, be caught by  *)
(* asio's signal_set, or find the default disposition that the signal_set  *)
(* leaves behind.  What the serving process does between its start and the *)
(* end of its graceful stop is module ServerManager.                       *)
(*                                                                         *)
(* The kernel delivers a pending signal before a process goes on, so that  *)
(* a process that signals itself in a handler runs that handler again.     *)
(***************************************************************************)
EXTENDS Naturals, Sequences

CONSTANTS
    Modes,        \* what a configuration may ask for: "alone", "fork"
    Sendable,     \* the signals somebody sends
    Targets,      \* to whom: "main", or "group" for both processes
    MaxSignals,   \* bound on the signals sent
    Faults        \* may operations fail?

ASSUME DaemonAssumption ==
    /\ Modes \subseteq {"alone", "fork"} /\ Modes # {}
    /\ Sendable \subseteq {"INT", "TERM", "HUP"}
    /\ Targets \subseteq {"main", "group"}
    /\ MaxSignals \in Nat
    /\ Faults \in BOOLEAN

VARIABLES
    pc,         \* where each process is
    end,        \* how it ended: EXIT_SUCCESS, EXIT_FAILURE, EXIT_RELOAD, a signal
    blocked,    \* are the control signals blocked?
    disp,       \* what they do: "initial" handlers of main(), "forward",
                \* "asio", or "default"
    pending,    \* signals sent and not yet delivered
    caught,     \* signals caught by the signal_set and not yet handled
    reload,     \* g_reload
    saved,      \* the dispositions waitForChild restores
    eof,        \* has the child seen the monitor pipe close?
    stale,      \* history: was SIGHUP sent since the configuration was read?
    sent,       \* history: the signals sent, in order
    fault       \* history: did an operation fail?

vars == <<pc, end, blocked, disp, pending, caught, reload, saved, eof, stale, sent, fault>>

Signals == {"INT", "TERM", "HUP"}
Procs == {"main", "child"}

Live(p) == pc[p] \notin {"none", "exited"}

DInit ==
    /\ pc = [p \in Procs |-> IF p = "main" THEN "reload" ELSE "none"]
    /\ end = [p \in Procs |-> "none"]
    /\ blocked = [p \in Procs |-> TRUE]
    /\ disp = [p \in Procs |-> "initial"]
    /\ pending = [p \in Procs |-> {}]
    /\ caught = [p \in Procs |-> <<>>]
    /\ reload = [p \in Procs |-> FALSE]
    /\ saved = "initial"
    /\ eof = FALSE /\ stale = FALSE /\ sent = <<>> /\ fault = FALSE

\* A process is over: it exited with c, or was killed by signal c.
Ends(p, c) ==
    /\ pc' = [pc EXCEPT ![p] = "exited"]
    /\ end' = [end EXCEPT ![p] = c]

\* kill() of the processes in S, where before is pending; one that is over takes
\* no notice.
PostedTo(before, S, sig) ==
    [p \in Procs |-> IF p \in S /\ Live(p) THEN before[p] \cup {sig} ELSE before[p]]

Posted(S, sig) == PostedTo(pending, S, sig)

-----------------------------------------------------------------------------
(* runServer and waitForChild: the main process *)

\* Mutant: signals are never unblocked in a process that serves alone.
ReloadAloneBlocked ==
    /\ pc["main"] = "reload"
    /\ "alone" \in Modes
    /\ stale' = FALSE
    /\ reload' = [reload EXCEPT !["main"] = FALSE]
    /\ pc' = [pc EXCEPT !["main"] = "serving"]
    /\ disp' = [disp EXCEPT !["main"] = "asio"]
    /\ UNCHANGED <<end, blocked, pending, caught, saved, eof, sent, fault>>

\* The configuration is read and says: serve here.  Signals are blocked from
\* before the read until the signal_set is there.
ReloadAlone ==
    /\ pc["main"] = "reload"
    /\ "alone" \in Modes
    /\ stale' = FALSE
    /\ reload' = [reload EXCEPT !["main"] = FALSE]
    /\ pc' = [pc EXCEPT !["main"] = "serving"]
    /\ disp' = [disp EXCEPT !["main"] = "asio"]
    /\ blocked' = [blocked EXCEPT !["main"] = FALSE]
    /\ UNCHANGED <<end, pending, caught, saved, eof, sent, fault>>

\* The configuration is read and says: fork.  The child inherits the mask and
\* the dispositions; the parent installs the forwarding handlers and unblocks.
ReloadForks ==
    /\ pc["main"] = "reload"
    /\ "fork" \in Modes
    /\ stale' = FALSE
    /\ reload' = [p \in Procs |-> FALSE]
    /\ pc' = [p \in Procs |-> IF p = "main" THEN "wait" ELSE "starting"]
    /\ end' = [end EXCEPT !["child"] = "none"]
    /\ saved' = disp["main"]
    /\ disp' = [p \in Procs |-> IF p = "main" THEN "forward" ELSE disp["main"]]
    /\ blocked' = [p \in Procs |-> p = "child"]
    /\ pending' = [pending EXCEPT !["child"] = {}]
    /\ caught' = [caught EXCEPT !["child"] = <<>>]
    /\ UNCHANGED <<eof, sent, fault>>

\* reload() or fork() throws: runServer returns EXIT_FAILURE.
ReloadFails ==
    /\ Faults
    /\ pc["main"] = "reload"
    /\ Ends("main", "failure")
    /\ fault' = TRUE
    /\ UNCHANGED <<blocked, disp, pending, caught, reload, saved, eof, stale, sent>>

\* wait() returns the child's status.
Reap ==
    /\ pc["main"] = "wait"
    /\ pc["child"] = "exited"
    /\ pc' = [pc EXCEPT !["main"] = "reaped", !["child"] = "none"]
    /\ UNCHANGED <<end, blocked, disp, pending, caught, reload, saved, eof, stale, sent, fault>>

\* wait() makes the ChildProcess empty.  A signal that came before its system
\* call returned was delivered when it did.
Emptied ==
    /\ pc["main"] = "reaped" /\ pending["main"] = {}
    /\ pc' = [pc EXCEPT !["main"] = "emptied"]
    /\ UNCHANGED <<end, blocked, disp, pending, caught, reload, saved, eof, stale, sent, fault>>

AfterRestore == [emptied |-> "intRestored", intRestored |-> "termRestored", termRestored |-> "restored"]

\* The handlers from before are set again, one after the other.
Restore ==
    /\ pc["main"] \in DOMAIN AfterRestore /\ pending["main"] = {}
    /\ pc' = [pc EXCEPT !["main"] = AfterRestore[@]]
    /\ disp' = [disp EXCEPT !["main"] = IF pc["main"] = "termRestored" THEN saved ELSE @]
    /\ UNCHANGED <<end, blocked, pending, caught, reload, saved, eof, stale, sent, fault>>

\* Back to the top of the loop: blockSignals().
Again ==
    /\ pc' = [pc EXCEPT !["main"] = "reload"]
    /\ blocked' = [blocked EXCEPT !["main"] = TRUE]
    /\ UNCHANGED end

\* The end of waitForChild and what runServer makes of it.
Decide ==
    /\ pc["main"] = "restored"
    /\ reload' = [reload EXCEPT !["main"] = @ \/ end["child"] = "reload"]
    /\ IF end["child"] \in {"success", "reload", "INT"}
       THEN IF reload'["main"] THEN Again ELSE Ends("main", "success") /\ UNCHANGED blocked
       ELSE Ends("main", "failure") /\ UNCHANGED blocked
    /\ UNCHANGED <<disp, pending, caught, saved, eof, stale, sent, fault>>

\* serve() returned in a main process that serves alone.
FinishAlone ==
    /\ pc["main"] = "closing"
    /\ IF reload["main"] THEN Again ELSE Ends("main", "success") /\ UNCHANGED blocked
    /\ UNCHANGED <<disp, pending, caught, reload, saved, eof, stale, sent, fault>>

-----------------------------------------------------------------------------
(* serve, in either process *)

\* The child is set up, its signal_set is there, and it unblocks.
ChildStarts ==
    /\ pc["child"] = "starting"
    /\ pc' = [pc EXCEPT !["child"] = "serving"]
    /\ disp' = [disp EXCEPT !["child"] = "asio"]
    /\ blocked' = [blocked EXCEPT !["child"] = FALSE]
    /\ UNCHANGED <<end, pending, caught, reload, saved, eof, stale, sent, fault>>

\* Mutant: every signal is handled like SIGTERM.
HandleSignalAlike(p) ==
    /\ pc[p] = "serving"
    /\ caught[p] # <<>>
    /\ pc' = [pc EXCEPT ![p] = "stopping"]
    /\ caught' = [caught EXCEPT ![p] = Tail(@)]
    /\ UNCHANGED <<end, blocked, disp, pending, reload, saved, eof, stale, sent, fault>>

\* The one async_wait of the signal_set completes with the first signal caught:
\* the graceful stop begins, and g_reload is set for SIGHUP.
HandleSignal(p) ==
    /\ pc[p] = "serving"
    /\ caught[p] # <<>>
    /\ pc' = [pc EXCEPT ![p] = "stopping"]
    /\ caught' = [caught EXCEPT ![p] = Tail(@)]
    /\ reload' = [reload EXCEPT ![p] = @ \/ Head(caught[p]) = "HUP"]
    /\ UNCHANGED <<end, blocked, disp, pending, saved, eof, stale, sent, fault>>

\* The graceful stop is over and serve() returns.  The signal_set goes, with the
\* signals it caught, and leaves the default dispositions.
RunReturns(p) ==
    /\ pc[p] = "stopping"
    /\ pc' = [pc EXCEPT ![p] = "closing"]
    /\ disp' = [disp EXCEPT ![p] = "default"]
    /\ caught' = [caught EXCEPT ![p] = <<>>]
    /\ UNCHANGED <<end, blocked, pending, reload, saved, eof, stale, sent, fault>>

\* An exception leaves serve(): runServer returns EXIT_FAILURE.
ServeFails(p) ==
    /\ Faults
    /\ pc[p] \in {"starting", "serving", "stopping"}
    /\ Ends(p, "failure")
    /\ fault' = TRUE
    /\ UNCHANGED <<blocked, disp, pending, caught, reload, saved, eof, stale, sent>>

\* runServer returns in the child.
FinishChild ==
    /\ pc["child"] = "closing"
    /\ Ends("child", IF reload["child"] THEN "reload" ELSE "success")
    /\ UNCHANGED <<blocked, disp, pending, caught, reload, saved, eof, stale, sent, fault>>

\* Mutant: the end of the parent is only logged.
ParentExitedLogged ==
    /\ pc["child"] = "serving"
    /\ ~Live("main") /\ ~eof
    /\ eof' = TRUE
    /\ UNCHANGED <<pc, end, blocked, disp, pending, caught, reload, saved, stale, sent, fault>>

\* The read of the monitor pipe completes because the parent is no more:
\* kill(getpid(), SIGINT).
ParentExited ==
    /\ pc["child"] = "serving"
    /\ ~Live("main") /\ ~eof
    /\ eof' = TRUE
    /\ pending' = Posted({"child"}, "INT")
    /\ UNCHANGED <<pc, end, blocked, disp, caught, reload, saved, stale, sent, fault>>

-----------------------------------------------------------------------------
(* Delivery of a signal, by disposition *)

\* Has waitForChild set the handler of sig again, and not yet all of them?
HandlerRestored(p, sig) ==
    /\ p = "main"
    /\ \/ pc[p] = "intRestored" /\ sig = "INT"
       \/ pc[p] = "termRestored" /\ sig # "HUP"

Delivers(p, sig, d) ==
    /\ Live(p) /\ ~blocked[p]
    /\ sig \in pending[p]
    /\ d = IF HandlerRestored(p, sig) THEN saved ELSE disp[p]

\* asio's handler queues the signal for the event loop.
DeliverCaught(p, sig) ==
    /\ Delivers(p, sig, "asio")
    /\ pending' = [pending EXCEPT ![p] = @ \ {sig}]
    /\ caught' = [caught EXCEPT ![p] = Append(@, sig)]
    /\ UNCHANGED <<pc, end, blocked, disp, reload, saved, eof, stale, sent, fault>>

\* Whom kill() reaches with the pid of the ChildProcess: the child, dead or
\* alive, and with the 0 of an empty one all of the caller's process group.
KillTarget == IF pc["main"] \in DOMAIN AfterRestore THEN Procs ELSE {"child"}

\* Mutant: SIGHUP is noted, but the child is not stopped.
DeliverForwardedNoted(sig) ==
    /\ Delivers("main", sig, "forward")
    /\ pending' = PostedTo([pending EXCEPT !["main"] = @ \ {sig}],
                           IF sig = "HUP" THEN {} ELSE KillTarget, sig)
    /\ reload' = [reload EXCEPT !["main"] = @ \/ sig = "HUP"]
    /\ UNCHANGED <<pc, end, blocked, disp, caught, saved, eof, stale, sent, fault>>

\* The handlers of waitForChild: SIGHUP is passed on as SIGINT.
DeliverForwarded(sig) ==
    /\ Delivers("main", sig, "forward")
    /\ pending' = PostedTo([pending EXCEPT !["main"] = @ \ {sig}],
                           KillTarget, IF sig = "HUP" THEN "INT" ELSE sig)
    /\ reload' = [reload EXCEPT !["main"] = @ \/ sig = "HUP"]
    /\ UNCHANGED <<pc, end, blocked, disp, caught, saved, eof, stale, sent, fault>>

\* The handlers of main(): exit(EXIT_SUCCESS), or SIG_IGN for SIGHUP.
DeliverInitial(sig) ==
    /\ Delivers("main", sig, "initial")
    /\ pending' = [pending EXCEPT !["main"] = @ \ {sig}]
    /\ IF sig = "HUP" THEN UNCHANGED <<pc, end>> ELSE Ends("main", "success")
    /\ UNCHANGED <<blocked, disp, caught, reload, saved, eof, stale, sent, fault>>

\* SIG_DFL: the process is killed.
DeliverDefault(p, sig) ==
    /\ Delivers(p, sig, "default")
    /\ pending' = [pending EXCEPT ![p] = @ \ {sig}]
    /\ Ends(p, sig)
    /\ UNCHANGED <<blocked, disp, caught, reload, saved, eof, stale, sent, fault>>

-----------------------------------------------------------------------------
(* The outside *)

\* Somebody sends a signal to the main process or, as systemd and terminals do,
\* to all of its processes.
Send(sig, target) ==
    /\ Len(sent) < MaxSignals
    /\ Live("main")
    /\ sent' = Append(sent, <<sig, target>>)
    /\ pending' = Posted(IF target = "group" THEN Procs ELSE {"main"}, sig)
    /\ stale' = (stale \/ sig = "HUP")
    /\ UNCHANGED <<pc, end, blocked, disp, caught, reload, saved, eof, fault>>

\* The main process is killed.
Crash ==
    /\ Faults
    /\ Live("main")
    /\ Ends("main", "KILL")
    /\ fault' = TRUE
    /\ UNCHANGED <<blocked, disp, pending, caught, reload, saved, eof, stale, sent>>

-----------------------------------------------------------------------------
Proc(p) ==
    \/ HandleSignal(p) \/ RunReturns(p)
    \/ \E sig \in Signals : DeliverCaught(p, sig) \/ DeliverDefault(p, sig)

Main ==
    \/ ReloadAlone \/ ReloadForks
    \/ Reap \/ Emptied \/ Restore \/ Decide \/ FinishAlone
    \/ \E sig \in Signals : DeliverForwarded(sig) \/ DeliverInitial(sig)

Child == ChildStarts \/ FinishChild \/ ParentExited

Outside ==
    \/ Crash \/ ReloadFails
    \/ \E p \in Procs : ServeFails(p)
    \/ \E sig \in Sendable, target \in Targets : Send(sig, target)

DNext == Main \/ Child \/ Outside \/ \E p \in Procs : Proc(p)

DSpec == DInit /\ [][DNext]_vars

\* Both processes keep running, the graceful stop ends (ServerManager), and a
\* signal that is not blocked is delivered.
DFairness ==
    /\ WF_vars(Main) /\ WF_vars(Child)
    /\ \A p \in Procs :
        /\ WF_vars(HandleSignal(p)) /\ WF_vars(RunReturns(p))
        /\ \A sig \in Signals :
             WF_vars(DeliverCaught(p, sig)) /\ WF_vars(DeliverDefault(p, sig))

DFairSpec == DSpec /\ DFairness

-----------------------------------------------------------------------------
(* Properties *)

SentSignals == {sent[i][1] : i \in DOMAIN sent}

Ended == ~Live("main") /\ ~Live("child")

\* The handler of a signal sends this process the same signal, for ever.
SelfSignalling ==
    \/ pc["main"] = "emptied" /\ pending["main"] # {}
    \/ pc["main"] = "intRestored" /\ "TERM" \in pending["main"]

\* One signal to the main process, whenever it comes, does what the manual page
\* says: SIGHUP never ends the daemon, and SIGTERM or SIGINT never make it exit
\* with anything but 0, wherever in a reload, a fork or a stop it arrives; and
\* one signal is not enough to make the main process signal itself.
LoneSignal ==
    ~fault /\ sent \in {<<<<sig, "main">>>> : sig \in Signals} =>
        /\ IF sent[1][1] = "HUP" THEN Live("main") ELSE end["main"] \in {"none", "success"}
        /\ ~SelfSignalling

\* SIGTERM and SIGINT end both processes, however many of them are sent and to
\* whichever process, as long as nobody asks for a reload.  The exception, which
\* doc/wsddn.8.adoc:233 ("stop network communications and exit") does not have,
\* is a signal that comes after the child was waited for and before the handlers
\* are restored: kill(0) then sends it to the process itself, again and again.
TermEnds ==
    sent # <<>> /\ "HUP" \notin SentSignals ~> Ended \/ SelfSignalling \/ "HUP" \in SentSignals

\* A SIGHUP is never forgotten: after each, the configuration is read again or
\* the main process is over, with the same exception.
HupRereads == stale ~> ~stale \/ ~Live("main") \/ SelfSignalling

\* Neither process is left alone: the serving child does not outlive its parent,
\* however that ended, and an exception that leaves the child's event loop (an
\* address that cannot be listened on, a client that is gone when its connection
\* is accepted) ends the parent as well, which would otherwise wait with no one
\* serving, with the same exception.
EndTogether ==
    /\ ~Live("main") ~> ~Live("child")
    /\ end["child"] = "failure" ~> ~Live("main") \/ SelfSignalling
=============================================================================
