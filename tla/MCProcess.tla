----------------------------- MODULE MCProcess -----------------------------
(***************************************************************************)
(* Process on small instances.  Spec itself is checked with two user tasks; *)
(* TreeSpec leaves out the calls that only matter to signals and windows,   *)
(* so that more tasks fit, and is also the one liveness is checked on.      *)
(***************************************************************************)
EXTENDS Process

\* Programs that fork, wait, kill, exit and compute.
TreeStep(i) ==
    \/ SysFork(i)
    \/ \E status \in ExitCodes : SysExit(i, status)
    \/ \E t \in UserIds : KillChild(i, t, SIGKILL)
    \/ SysWait(i)
    \/ WaitResume(i)

TreeNext ==
    \/ TimerTick
    \/ IdleYield
    \/ \E i \in UserIds : TreeStep(i)
    \/ ReaperStep
    \/ LoaderStep
    \/ HltLoop

TreeSpec == Init /\ [][TreeNext]_vars

\* The timer keeps firing; a task that is switched to with interrupts off goes
\* on; and init, which is scheduled again and again, gets work done in some of
\* its quanta (a PIT period is 55 ms, a section of reap_orphans a few microseconds).
FairTreeSpec ==
    /\ TreeSpec
    /\ WF_vars(TimerTick)
    /\ \A i \in UserIds : WF_vars(WaitResume(i))
    /\ SF_vars(ReaperStep)
=============================================================================
