------------------------------ MODULE MCInput -------------------------------
(***************************************************************************)
(* Input on small instances, and with the fairness liveness needs.          *)
(***************************************************************************)
EXTENDS Input

\* A step of the current task that is not the idle loop.
Work ==
    \/ Acquire \/ KbdStep \/ MouseStep \/ Poll
    \/ \E d \in Drivers : BridgeStep(d)
    \/ \E r \in Readers : ReaderStep(r)

\* What round-robin scheduling (Process, RunnableRuns) gives the tasks that
\* matter: the drivers and whoever holds INPUT are switched to again and again, and
\* get a step done in some of their quanta.  INPUT is held for a few microseconds of
\* a 55 ms quantum, so the timer does not switch to the driver only at moments when
\* a preempted task holds it.  A task with interrupts off goes on, and a raised
\* interrupt is taken when they are on.
Fairness ==
    /\ SF_vars(lock # "none" /\ TimerTick(lock))
    /\ SF_vars(lock = "none" /\ TimerTick("kbd"))
    /\ SF_vars(cur = lock /\ Work)
    /\ SF_vars(cur = "kbd" /\ Work)
    /\ WF_vars(~iflag[cur] /\ Work)
    /\ WF_vars(KeyboardInterrupt)

FairSpec == Spec /\ Fairness

\* keyboard_interrupt_handler: the byte "remains latched in the controller's output
\* buffer until the driver drains it": every byte of the keyboard is read by the
\* keyboard driver or taken by the mouse driver, unless the machine hangs.
ByteIsRead ==
    \A n \in 1..MaxBytes :
        (n <= sent /\ n \notin aux) ~> (n \in heard \cup taken \/ Hung)
=============================================================================
