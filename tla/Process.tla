------------------------------ MODULE Process ------------------------------
(***************************************************************************)
(* The process core of the PickleOS kernel: the task table, the round-robin *)
(* scheduler, the exit / wait / fork / exec primitives, signals, and the    *)
(* init task that reaps orphans (kernel/src/task.rs, kernel/src/signal.rs). *)
(*                                                                          *)
(* There is one CPU.  A system call enters through an interrupt gate with   *)
(* interrupts off, so the code between its entry and a call of schedule()   *)
(* is one action; what follows schedule() is another action, taken when the *)
(* task is current again (pc tells which).  Kernel tasks run with           *)
(* interrupts on: each scheduler::with section of theirs is an action, and  *)
(* the timer may preempt between two of them.                               *)
(***************************************************************************)
EXTENDS Integers, Sequences, FiniteSets, FiniteSetsExt

CONSTANTS
    MaxId,        \* bound: the last task id the model hands out
    Signals,      \* the signal numbers in use, SIGKILL and SIGCHLD among them
    ExitCodes,    \* statuses a program passes to exit()
    RoleHolders   \* user tasks whose capability table holds ROLE_SPAWN,
                  \* ROLE_FILE_SYSTEM and ROLE_KILL

SIGILL  == 4
SIGKILL == 9
SIGSEGV == 11
SIGCHLD == 17
SIGSTOP == 19

ASSUME ConstantsAssumption ==
    /\ MaxId \in Nat /\ MaxId >= 2
    /\ Signals \subseteq 1..31 /\ {SIGKILL, SIGCHLD} \subseteq Signals
    /\ ExitCodes \subseteq Int
    /\ RoleHolders \subseteq 3..MaxId

\* Tasks that exist from boot: the idle task, init (the reaper, PID 1) and
\* ahci-init, the kernel task that launches the programs of /etc/inittab.
Idle   == 0
Reaper == 1
Loader == 2

Ids     == 0..MaxId
UserIds == 3..MaxId
NoTask  == -1

States   == {"Runnable", "Running", "Blocked", "Zombie", "Dead"}
Handlers == {"SIG_DFL", "SIG_IGN", "custom"}

VARIABLES
    tasks,       \* Scheduler.tasks: the ids in slot order
    current,     \* Scheduler.current: the slot of the running task
    nextId,      \* NEXT_ID
    state,       \* Task.state, or "None" for an id that has no task yet
    parent,      \* Task.parent
    children,    \* Task.children, as a set
    exitStatus,  \* Task.exit_status
    waitBlocked, \* Task.wait_blocked
    handlers,    \* SignalState.handlers, the address of a handler abstracted
    pending,     \* SignalState.pending
    restorer,    \* SignalState.restorer # 0
    saved,       \* SignalState.saved.is_some(): a handler is in flight
    pc,          \* where each task is in the kernel ("user": in its program)
    kids,        \* reap_orphans: the snapshot of init's children
    zombies,     \* reap_orphans: the zombies still to be reaped
    cid,         \* reap_orphans: the one being reaped
    newId,       \* spawn_user_from_entry: the id of the task being built
    fds,         \* tasks that own a table in FD_TABLES
    windows,     \* tasks that own a window of the window server
    machine      \* "up", or "panic" once the panic handler halted the CPU

schedVars  == <<tasks, current, nextId>>
treeVars   == <<parent, children, exitStatus>>
sigVars    == <<handlers, pending, restorer, saved>>
reaperVars == <<kids, zombies, cid>>
vars == <<tasks, current, nextId, state, parent, children, exitStatus,
          waitBlocked, handlers, pending, restorer, saved, pc, kids, zombies, cid,
          newId, fds, windows, machine>>

Cur == tasks[current]

-----------------------------------------------------------------------------
(* scheduler::schedule *)

\* The slot reached k steps after slot `from`, going round the table.
SlotAfter(from, k) == IF from + k > Len(tasks) THEN from + k - Len(tasks) ELSE from + k

\* How many steps ahead the runnable tasks are, in the states s.
RunnableAhead(s) ==
    {k \in 1..Len(tasks) : s[tasks[SlotAfter(current, k)]] = "Runnable"}

\* Faulty variants of Schedule: the outgoing task is not demoted to Runnable; the
\* search for the next task starts at the first slot instead of after the current.
ScheduleNoDemotion(s) ==
    IF RunnableAhead(s) = {}
      THEN current' = current /\ state' = s
      ELSE LET next == SlotAfter(current, Min(RunnableAhead(s))) IN
           current' = next /\ state' = [s EXCEPT ![tasks[next]] = "Running"]

ScheduleFromFirst(s) ==
    LET ready == {k \in DOMAIN tasks : s[tasks[k]] = "Runnable"} IN
    IF ready = {}
      THEN current' = current /\ state' = s
      ELSE /\ current' = Min(ready)
           /\ state' = [i \in Ids |->
                          IF i = tasks[Min(ready)] THEN "Running"
                          ELSE IF i = Cur /\ s[i] = "Running" THEN "Runnable"
                          ELSE s[i]]

\* schedule(), entered with the task states s: the next runnable task after the
\* current one (the current one last) becomes the running one; with none, the
\* current task goes on.
Schedule(s) ==
    IF RunnableAhead(s) = {}
      THEN current' = current /\ state' = s
      ELSE LET next == SlotAfter(current, Min(RunnableAhead(s))) IN
           /\ current' = next
           /\ state' = [i \in Ids |->
                          IF i = tasks[next] THEN "Running"
                          ELSE IF i = Cur /\ s[i] = "Running" THEN "Runnable"
                          ELSE s[i]]

\* Interrupts are enabled unless the current task sits in the kernel side of a
\* system call that has just been rescheduled.
InterruptsOn == pc[Cur] \notin {"wait", "yield", "sleep"}

\* The timer interrupt preempts the current task (scheduler::on_timer_tick).
TimerTick ==
    /\ machine = "up"
    /\ InterruptsOn
    /\ Schedule(state)
    /\ UNCHANGED <<tasks, nextId, treeVars, waitBlocked, sigVars, pc, reaperVars,
                   newId, fds, windows, machine>>

\* idle_task: after hlt, yield.
IdleYield ==
    /\ machine = "up"
    /\ Cur = Idle
    /\ Schedule(state)
    /\ UNCHANGED <<tasks, nextId, treeVars, waitBlocked, sigVars, pc, reaperVars,
                   newId, fds, windows, machine>>

-----------------------------------------------------------------------------
(* The task table *)

\* The slots add_task and do_fork reuse before they grow the table.
DeadSlots == {k \in DOMAIN tasks : state[tasks[k]] = "Dead"}

\* Assigning to a reused slot drops the task that was in it, hence its
\* GuardedStack.  Its drop unmaps 33 pages and expects every unmap to succeed,
\* but the first of them is the guard page, which new() leaves unmapped: the
\* kernel panics with interrupts off.
ReuseSlot ==
    /\ DeadSlots # {}
    /\ machine' = "panic"
    /\ UNCHANGED <<tasks, current, state, treeVars, waitBlocked, sigVars, pc,
                   reaperVars, newId, windows>>

-----------------------------------------------------------------------------
(* Signal delivery: SignalState and deliver_pending_signals *)

\* default_terminates
DefaultTerminates(sig) == sig \notin {SIGCHLD, 18, 23, 28, 29, SIGSTOP, 20, 21, 22}

\* next_deliverable, as a set: the lowest pending signal of task i that has a
\* custom handler in h, or nothing.
NextDeliverable(i, h, p) ==
    LET caught == {sig \in p[i] : h[i][sig] = "custom"} IN
    IF caught = {} THEN {} ELSE {Min(caught)}

\* The end of syscall_dispatch for task i, the signal state being h, r, p: enter
\* the handler of a deliverable signal unless one is already in flight.
ReturnToUser(i, h, r, p) ==
    LET sig == IF saved[i] \/ ~r[i] THEN {} ELSE NextDeliverable(i, h, p) IN
    /\ pending' = [p EXCEPT ![i] = @ \ sig]
    /\ saved' = [saved EXCEPT ![i] = @ \/ sig # {}]

Deliver(i) == ReturnToUser(i, handlers, restorer, pending)

\* Task i is the running program and makes a system call.
Syscall(i) == machine = "up" /\ Cur = i /\ i \in UserIds /\ pc[i] = "user"

\* A system call that leaves the process state alone, or that is refused: for
\* signals it is still a return to user mode.
SysOther(i) ==
    /\ Syscall(i)
    /\ Deliver(i)
    /\ UNCHANGED <<schedVars, state, treeVars, waitBlocked, handlers, restorer, pc,
                   reaperVars, newId, fds, windows, machine>>

\* do_signal: install a disposition for sig, with or without a restorer.
SysSignal(i, sig, h, withRestorer) ==
    /\ Syscall(i)
    /\ i \in RoleHolders
    /\ sig # SIGKILL
    /\ handlers' = [handlers EXCEPT ![i][sig] = h]
    /\ restorer' = [restorer EXCEPT ![i] = @ \/ withRestorer]
    /\ ReturnToUser(i, handlers', restorer', pending)
    /\ UNCHANGED <<schedVars, state, treeVars, waitBlocked, pc, reaperVars, newId,
                   fds, windows, machine>>

\* do_sigreturn: the handler is over.  No signal is delivered on this return.
SysSigreturn(i) ==
    /\ Syscall(i)
    /\ saved[i]
    /\ saved' = [saved EXCEPT ![i] = FALSE]
    /\ UNCHANGED <<schedVars, state, treeVars, waitBlocked, handlers, pending,
                   restorer, pc, reaperVars, newId, fds, windows, machine>>

-----------------------------------------------------------------------------
(* Process creation: do_fork, and the launcher of the boot programs *)

\* do_fork: the child gets the parent's dispositions and a copy of its fds.
SysFork(i) ==
    /\ Syscall(i)
    /\ i \in RoleHolders
    /\ nextId <= MaxId
    /\ nextId' = nextId + 1
    /\ fds' = fds \cup {nextId}
    /\ \/ ReuseSlot
       \/ /\ DeadSlots = {}
          /\ tasks' = Append(tasks, nextId)
          /\ state' = [state EXCEPT ![nextId] = "Runnable"]
          /\ parent' = [parent EXCEPT ![nextId] = i]
          /\ children' = [children EXCEPT ![i] = @ \cup {nextId}]
          /\ handlers' = [handlers EXCEPT ![nextId] = handlers[i]]
          /\ restorer' = [restorer EXCEPT ![nextId] = restorer[i]]
          /\ Deliver(i)
          /\ UNCHANGED <<current, exitStatus, waitBlocked, pc, reaperVars, newId,
                         windows, machine>>

\* spawn_user_from_entry: the id of the new task is taken first ...
SpawnId ==
    /\ machine = "up" /\ Cur = Loader /\ pc[Loader] = "load"
    /\ nextId <= MaxId
    /\ newId' = nextId
    /\ nextId' = nextId + 1
    /\ pc' = [pc EXCEPT ![Loader] = "fds"]
    /\ UNCHANGED <<tasks, current, state, treeVars, waitBlocked, sigVars, reaperVars,
                   fds, windows, machine>>

\* ... then its standard streams are opened (init_task_fds) ...
SpawnFds ==
    /\ machine = "up" /\ Cur = Loader /\ pc[Loader] = "fds"
    /\ fds' = fds \cup {newId}
    /\ pc' = [pc EXCEPT ![Loader] = "add"]
    /\ UNCHANGED <<schedVars, state, treeVars, waitBlocked, sigVars, reaperVars,
                   newId, windows, machine>>

\* ... and add_task puts it in the table, without a parent.
SpawnAdd ==
    /\ machine = "up" /\ Cur = Loader /\ pc[Loader] = "add"
    /\ UNCHANGED <<nextId, fds>>
    /\ \/ ReuseSlot
       \/ /\ DeadSlots = {}
          /\ tasks' = Append(tasks, newId)
          /\ state' = [state EXCEPT ![newId] = "Runnable"]
          /\ pc' = [pc EXCEPT ![Loader] = "load"]
          /\ UNCHANGED <<current, treeVars, waitBlocked, sigVars, reaperVars, newId,
                         windows, machine>>

\* ahci_init_task yields while it polls the disk.
LoaderYield ==
    /\ machine = "up" /\ Cur = Loader /\ pc[Loader] = "load"
    /\ Schedule(state)
    /\ UNCHANGED <<tasks, nextId, treeVars, waitBlocked, sigVars, pc, reaperVars,
                   newId, fds, windows, machine>>

\* When the programs are launched, ahci_init_task marks itself Dead; it never
\* resumes.  Its slot is the first one a later fork or spawn reuses.
LoaderExit ==
    /\ machine = "up" /\ Cur = Loader /\ pc[Loader] = "load"
    /\ Schedule([state EXCEPT ![Loader] = "Dead"])
    /\ UNCHANGED <<tasks, nextId, treeVars, waitBlocked, sigVars, pc, reaperVars,
                   newId, fds, windows, machine>>

-----------------------------------------------------------------------------
(* Termination: do_exit, terminate_task, do_kill *)

\* A faulty variant of StatesAfterExit: the waiting parent is not woken.
StatesAfterExitNoWake(i) == [state EXCEPT ![i] = "Zombie"]

\* Task i becomes a zombie; its parent is woken if it is blocked in wait().
StatesAfterExit(i) ==
    [j \in Ids |->
        IF j = i THEN "Zombie"
        ELSE IF j = parent[i] /\ state[j] = "Blocked" /\ waitBlocked[j] THEN "Runnable"
        ELSE state[j]]

\* SIGCHLD is posted to the parent of i.
PendingAfterExit(i) ==
    [j \in Ids |-> IF j = parent[i] THEN pending[j] \cup {SIGCHLD} ELSE pending[j]]

\* A faulty variant of Bury: the orphans are not handed to init.
BuryNoAdoption(i, status) ==
    /\ exitStatus' = [exitStatus EXCEPT ![i] = status]
    /\ fds' = fds \ {i}
    /\ UNCHANGED <<parent, children>>

\* What do_exit and terminate_task have in common: the status is recorded, the
\* fds are released and the children go to init.
Bury(i, status) ==
    /\ exitStatus' = [exitStatus EXCEPT ![i] = status]
    /\ fds' = fds \ {i}
    /\ parent' = [j \in Ids |-> IF j \in children[i] THEN Reaper ELSE parent[j]]
    /\ children' = [children EXCEPT ![i] = {}, ![Reaper] = @ \cup children[i]]

\* do_exit: the current task i ends, and its windows go with it.
DoExit(i, status) ==
    /\ Bury(i, status)
    /\ windows' = windows \ {i}
    /\ pending' = PendingAfterExit(i)
    /\ Schedule(StatesAfterExit(i))
    /\ UNCHANGED <<tasks, nextId, waitBlocked, handlers, restorer, saved, pc,
                   reaperVars, newId, machine>>

SysExit(i, status) == Syscall(i) /\ DoExit(i, status)

\* An invalid opcode, a protection fault or a bad access in ring 3 ends the task.
UserFault(i) ==
    /\ machine = "up" /\ Cur = i /\ i \in UserIds /\ pc[i] = "user"
    /\ \E sig \in {SIGILL, SIGSEGV} : DoExit(i, 128 + sig)

\* do_kill: a user task may signal itself and its children.
MaySignal(i, t) == t = i \/ t \in children[i] \/ (state[t] # "None" /\ parent[t] = i)

Alive(t) == state[t] \in {"Runnable", "Running", "Blocked"}

\* The signals that end the target: SIGKILL, and the fatal ones left to default.
Lethal(t, sig) ==
    sig = SIGKILL \/ (handlers[t][sig] = "SIG_DFL" /\ DefaultTerminates(sig))

\* kill(self): terminate_task defers to do_exit.
KillSelf(i, sig) ==
    /\ Syscall(i) /\ i \in RoleHolders
    /\ Lethal(i, sig)
    /\ DoExit(i, 128 + sig)

\* A faulty variant of KillChild: a child that has already ended is killed again.
KillChildTwice(i, t, sig) ==
    /\ Syscall(i) /\ i \in RoleHolders
    /\ t # i /\ MaySignal(i, t) /\ state[t] \notin {"None", "Dead"}
    /\ Lethal(t, sig)
    /\ Bury(t, 128 + sig)
    /\ state' = StatesAfterExit(t)
    /\ ReturnToUser(i, handlers, restorer, PendingAfterExit(t))
    /\ UNCHANGED <<schedVars, waitBlocked, handlers, restorer, pc, reaperVars, newId,
                   windows, machine>>

\* kill(child): terminate_task turns the child into a zombie where it stands.
KillChild(i, t, sig) ==
    /\ Syscall(i) /\ i \in RoleHolders
    /\ t # i /\ MaySignal(i, t) /\ Alive(t)
    /\ Lethal(t, sig)
    /\ Bury(t, 128 + sig)
    /\ state' = StatesAfterExit(t)
    /\ ReturnToUser(i, handlers, restorer, PendingAfterExit(t))
    /\ UNCHANGED <<schedVars, waitBlocked, handlers, restorer, pc, reaperVars, newId,
                   windows, machine>>

\* kill() of a caught signal: it is marked pending and the target is woken,
\* whatever it is blocked on.
KillCaught(i, t, sig) ==
    /\ Syscall(i) /\ i \in RoleHolders
    /\ MaySignal(i, t) /\ Alive(t)
    /\ sig # SIGKILL /\ handlers[t][sig] = "custom"
    /\ state' = [state EXCEPT ![t] = IF @ = "Blocked" THEN "Runnable" ELSE @]
    /\ ReturnToUser(i, handlers, restorer, [pending EXCEPT ![t] = @ \cup {sig}])
    /\ UNCHANGED <<schedVars, treeVars, waitBlocked, handlers, restorer, pc,
                   reaperVars, newId, fds, windows, machine>>

-----------------------------------------------------------------------------
(* do_wait *)

NoZombieChild(i) == \A c \in children[i] : state[c] # "Zombie"

\* One round of do_wait's loop.  wait_blocked is clear while it scans (the
\* caller clears it after a sleep).
WaitScan(i) ==
    \/ /\ children[i] = {}                        \* NoChildren
       /\ pc' = [pc EXCEPT ![i] = "user"]
       /\ waitBlocked' = [waitBlocked EXCEPT ![i] = FALSE]
       /\ Deliver(i)
       /\ UNCHANGED <<schedVars, state, treeVars, fds>>
    \/ \E c \in children[i] :                     \* Reaped
       /\ state[c] = "Zombie"
       /\ children' = [children EXCEPT ![i] = @ \ {c}]
       /\ state' = [state EXCEPT ![c] = "Dead"]
       /\ fds' = fds \ {c}
       /\ pc' = [pc EXCEPT ![i] = "user"]
       /\ waitBlocked' = [waitBlocked EXCEPT ![i] = FALSE]
       /\ Deliver(i)
       /\ UNCHANGED <<schedVars, parent, exitStatus>>
    \/ /\ children[i] # {} /\ NoZombieChild(i)    \* WaitMore
       /\ waitBlocked' = [waitBlocked EXCEPT ![i] = TRUE]
       /\ pc' = [pc EXCEPT ![i] = "wait"]
       /\ Schedule([state EXCEPT ![i] = "Blocked"])
       /\ UNCHANGED <<tasks, nextId, treeVars, pending, saved, fds>>

SysWait(i) ==
    /\ Syscall(i)
    /\ WaitScan(i)
    /\ UNCHANGED <<handlers, restorer, reaperVars, newId, windows, machine>>

\* The waiting task is scheduled again and looks once more.
WaitResume(i) ==
    /\ machine = "up" /\ Cur = i /\ pc[i] = "wait"
    /\ WaitScan(i)
    /\ UNCHANGED <<handlers, restorer, reaperVars, newId, windows, machine>>

-----------------------------------------------------------------------------
(* do_exec, yield, sleep and other sleeps *)

\* do_exec loads the new image with interrupts on ...
SysExec(i) ==
    /\ Syscall(i) /\ i \in RoleHolders
    /\ pc' = [pc EXCEPT ![i] = "exec"]
    /\ UNCHANGED <<schedVars, state, treeVars, waitBlocked, sigVars, reaperVars,
                   newId, fds, windows, machine>>

\* ... and then, in one section, resets the signal state (reset_for_exec).
ExecDone(i) ==
    /\ machine = "up" /\ Cur = i /\ pc[i] = "exec"
    /\ pc' = [pc EXCEPT ![i] = "user"]
    /\ pending' = [pending EXCEPT ![i] = {}]
    /\ handlers' = [handlers EXCEPT ![i] =
                      [sig \in Signals |-> IF @[sig] = "SIG_IGN" THEN "SIG_IGN" ELSE "SIG_DFL"]]
    /\ restorer' = [restorer EXCEPT ![i] = FALSE]
    /\ saved' = [saved EXCEPT ![i] = FALSE]
    /\ UNCHANGED <<schedVars, state, treeVars, waitBlocked, reaperVars, newId, fds,
                   windows, machine>>

\* The image cannot be loaded: the old program goes on.
ExecFail(i) ==
    /\ machine = "up" /\ Cur = i /\ pc[i] = "exec"
    /\ pc' = [pc EXCEPT ![i] = "user"]
    /\ Deliver(i)
    /\ UNCHANGED <<schedVars, state, treeVars, waitBlocked, handlers, restorer,
                   reaperVars, newId, fds, windows, machine>>

\* SYS_YIELD and SYS_SLEEP give the CPU away with interrupts off.
SysYield(i, call) ==
    /\ Syscall(i)
    /\ pc' = [pc EXCEPT ![i] = call]
    /\ Schedule(state)
    /\ UNCHANGED <<tasks, nextId, treeVars, waitBlocked, sigVars, reaperVars, newId,
                   fds, windows, machine>>

\* sleep_ticks yields again as long as too few ticks have passed.
SleepMore(i) ==
    /\ machine = "up" /\ Cur = i /\ pc[i] = "sleep"
    /\ Schedule(state)
    /\ UNCHANGED <<tasks, nextId, treeVars, waitBlocked, sigVars, pc, reaperVars,
                   newId, fds, windows, machine>>

YieldReturn(i) ==
    /\ machine = "up" /\ Cur = i /\ pc[i] \in {"yield", "sleep"}
    /\ pc' = [pc EXCEPT ![i] = "user"]
    /\ Deliver(i)
    /\ UNCHANGED <<schedVars, state, treeVars, waitBlocked, handlers, restorer,
                   reaperVars, newId, fds, windows, machine>>

\* A blocking read of stdin: block_current_and_schedule, first from the system
\* call and again from its loop while no character is there.
ReadBlock(i) ==
    /\ machine = "up" /\ Cur = i /\ i \in UserIds /\ pc[i] \in {"user", "read"}
    /\ pc' = [pc EXCEPT ![i] = "read"]
    /\ Schedule([state EXCEPT ![i] = "Blocked"])
    /\ UNCHANGED <<tasks, nextId, treeVars, waitBlocked, sigVars, reaperVars, newId,
                   fds, windows, machine>>

\* unblock(i), from the driver that has a character for i.
Unblock(i) ==
    /\ machine = "up" /\ InterruptsOn
    /\ pc[i] = "read" /\ state[i] = "Blocked"
    /\ state' = [state EXCEPT ![i] = "Runnable"]
    /\ UNCHANGED <<schedVars, treeVars, waitBlocked, sigVars, pc, reaperVars, newId,
                   fds, windows, machine>>

ReadReturn(i) ==
    /\ machine = "up" /\ Cur = i /\ pc[i] = "read"
    /\ pc' = [pc EXCEPT ![i] = "user"]
    /\ Deliver(i)
    /\ UNCHANGED <<schedVars, state, treeVars, waitBlocked, handlers, restorer,
                   reaperVars, newId, fds, windows, machine>>

\* SYS_WIN_CREATE and SYS_WIN_DESTROY of the task's last window.
SysWindow(i) ==
    /\ Syscall(i)
    /\ windows' \in {windows \cup {i}, windows \ {i}}
    /\ Deliver(i)
    /\ UNCHANGED <<schedVars, state, treeVars, waitBlocked, handlers, restorer, pc,
                   reaperVars, newId, fds, machine>>

-----------------------------------------------------------------------------
(* init_reaper_task: reap_orphans and a yield, forever *)

ReaperAt(l) == machine = "up" /\ Cur = Reaper /\ pc[Reaper] = l

ReapSnapshot ==
    /\ ReaperAt("snapshot")
    /\ kids' = children[Reaper]
    /\ pc' = [pc EXCEPT ![Reaper] = IF children[Reaper] = {} THEN "next" ELSE "filter"]
    /\ UNCHANGED <<schedVars, state, treeVars, waitBlocked, sigVars, zombies, cid, newId,
                   fds, windows, machine>>

\* Faulty variants of ReapFilter: every child counts as a zombie; none does.
ReapFilterAll ==
    /\ ReaperAt("filter")
    /\ zombies' = kids
    /\ kids' = {}
    /\ pc' = [pc EXCEPT ![Reaper] = IF zombies' = {} THEN "next" ELSE "reap"]
    /\ UNCHANGED <<schedVars, state, treeVars, waitBlocked, sigVars, cid, newId, fds,
                   windows, machine>>

ReapFilterNone ==
    /\ ReaperAt("filter")
    /\ zombies' = {c \in kids : state[c] = "Dead"}
    /\ kids' = {}
    /\ pc' = [pc EXCEPT ![Reaper] = IF zombies' = {} THEN "next" ELSE "reap"]
    /\ UNCHANGED <<schedVars, state, treeVars, waitBlocked, sigVars, cid, newId, fds,
                   windows, machine>>

ReapFilter ==
    /\ ReaperAt("filter")
    /\ zombies' = {c \in kids : state[c] = "Zombie"}
    /\ kids' = {}                                \* not used any more
    /\ pc' = [pc EXCEPT ![Reaper] = IF zombies' = {} THEN "next" ELSE "reap"]
    /\ UNCHANGED <<schedVars, state, treeVars, waitBlocked, sigVars, cid, newId, fds,
                   windows, machine>>

\* One zombie leaves init's children and the table ...
ReapOne(c) ==
    /\ ReaperAt("reap")
    /\ c \in zombies
    /\ children' = [children EXCEPT ![Reaper] = @ \ {c}]
    /\ state' = [state EXCEPT ![c] = "Dead"]
    /\ cid' = c
    /\ zombies' = zombies \ {c}
    /\ pc' = [pc EXCEPT ![Reaper] = "clean"]
    /\ UNCHANGED <<schedVars, parent, exitStatus, waitBlocked, sigVars, kids, newId,
                   fds, windows, machine>>

\* ... and then its fds are released, outside the scheduler's lock.
ReapClean ==
    /\ ReaperAt("clean")
    /\ fds' = fds \ {cid}
    /\ cid' = NoTask
    /\ pc' = [pc EXCEPT ![Reaper] = IF zombies = {} THEN "next" ELSE "reap"]
    /\ UNCHANGED <<schedVars, state, treeVars, waitBlocked, sigVars, kids, zombies,
                   newId, windows, machine>>

ReapYield ==
    /\ ReaperAt("next")
    /\ pc' = [pc EXCEPT ![Reaper] = "snapshot"]
    /\ Schedule(state)
    /\ UNCHANGED <<tasks, nextId, treeVars, waitBlocked, sigVars, reaperVars, newId,
                   fds, windows, machine>>

\* The panic handler's hlt_loop.
HltLoop == machine = "panic" /\ UNCHANGED vars

-----------------------------------------------------------------------------
\* scheduler::run has picked the first task of the table, the idle task.
Init ==
    /\ tasks = <<Idle, Reaper, Loader>>
    /\ current = 1
    /\ nextId = 3
    /\ state = [i \in Ids |-> IF i = Idle THEN "Running"
                              ELSE IF i \in {Reaper, Loader} THEN "Runnable" ELSE "None"]
    /\ parent = [i \in Ids |-> NoTask]
    /\ children = [i \in Ids |-> {}]
    /\ exitStatus = [i \in Ids |-> 0]
    /\ waitBlocked = [i \in Ids |-> FALSE]
    /\ handlers = [i \in Ids |-> [sig \in Signals |-> "SIG_DFL"]]
    /\ pending = [i \in Ids |-> {}]
    /\ restorer = [i \in Ids |-> FALSE]
    /\ saved = [i \in Ids |-> FALSE]
    /\ pc = [i \in Ids |-> CASE i = Idle -> "idle" [] i = Reaper -> "snapshot"
                             [] i = Loader -> "load" [] OTHER -> "user"]
    /\ kids = {}
    /\ zombies = {}
    /\ cid = NoTask
    /\ newId = NoTask
    /\ fds = {Idle, Reaper, Loader}
    /\ windows = {}
    /\ machine = "up"

ProgramStep(i) ==
    \/ SysOther(i)
    \/ \E sig \in Signals, h \in Handlers, r \in BOOLEAN : SysSignal(i, sig, h, r)
    \/ SysSigreturn(i)
    \/ SysFork(i)
    \/ \E status \in ExitCodes : SysExit(i, status)
    \/ UserFault(i)
    \/ \E sig \in Signals : KillSelf(i, sig)
    \/ \E t \in UserIds, sig \in Signals : KillChild(i, t, sig) \/ KillCaught(i, t, sig)
    \/ SysWait(i)
    \/ SysExec(i)
    \/ \E call \in {"yield", "sleep"} : SysYield(i, call)
    \/ ReadBlock(i)
    \/ SysWindow(i)

ResumeStep(i) ==
    WaitResume(i) \/ ExecDone(i) \/ ExecFail(i) \/ SleepMore(i) \/ YieldReturn(i) \/ ReadReturn(i)

ReaperStep ==
    \/ ReapSnapshot \/ ReapFilter \/ (\E c \in UserIds : ReapOne(c)) \/ ReapClean \/ ReapYield

LoaderStep == SpawnId \/ SpawnFds \/ SpawnAdd \/ LoaderYield \/ LoaderExit

Next ==
    \/ TimerTick
    \/ IdleYield
    \/ \E i \in UserIds : ProgramStep(i) \/ ResumeStep(i) \/ Unblock(i)
    \/ ReaperStep
    \/ LoaderStep
    \/ HltLoop

Spec == Init /\ [][Next]_vars

-----------------------------------------------------------------------------
(* Properties *)

\* The type of every variable.
TypeOK ==
    /\ tasks \in Seq(Ids)
    /\ current \in DOMAIN tasks
    /\ nextId \in 3..(MaxId + 1)
    /\ state \in [Ids -> States \cup {"None"}]
    /\ parent \in [Ids -> Ids \cup {NoTask}]
    /\ children \in [Ids -> SUBSET UserIds]
    /\ exitStatus \in [Ids -> Int]
    /\ waitBlocked \in [Ids -> BOOLEAN]
    /\ handlers \in [Ids -> [Signals -> Handlers]]
    /\ pending \in [Ids -> SUBSET Signals]
    /\ restorer \in [Ids -> BOOLEAN]
    /\ saved \in [Ids -> BOOLEAN]
    /\ pc \in [Ids -> {"idle", "user", "wait", "yield", "sleep", "exec", "read", "load",
                       "fds", "add", "snapshot", "filter", "reap", "clean", "next"}]
    /\ kids \subseteq UserIds
    /\ zombies \subseteq UserIds
    /\ cid \in UserIds \cup {NoTask}
    /\ newId \in UserIds \cup {NoTask}
    /\ fds \subseteq Ids
    /\ windows \subseteq UserIds
    /\ machine \in {"up", "panic"}

\* The scheduler's table is sound: no task occupies two slots, the current slot
\* holds the only Running task, and the idle task can always run.  So schedule()
\* always finds a task to switch to when the current one cannot go on, and the
\* unreachable!() after the schedule() of do_exit is never reached.
OneRunning ==
    /\ \A j, k \in DOMAIN tasks : tasks[j] = tasks[k] => j = k
    /\ \A i \in Ids : state[i] = "Running" <=> i = Cur
    /\ state[Idle] \in {"Running", "Runnable"}

\* No lost wake-up in do_wait: a task asleep in wait() has a child, and none of
\* its children has already terminated.
NoLostChild ==
    \A i \in UserIds :
        state[i] = "Blocked" /\ pc[i] = "wait" => children[i] # {} /\ NoZombieChild(i)

\* The process tree is consistent: a task that is not reaped is listed by its
\* parent and by no other task, its parent is alive, and a task that has ended
\* has no children left (they went to init).
ProcessTree ==
    \A i \in UserIds :
        /\ \A p \in Ids : i \in children[p] <=>
                             parent[i] = p /\ Alive(p) /\ state[i] \notin {"None", "Dead"}
        /\ parent[i] # NoTask /\ state[i] \notin {"None", "Dead"} => Alive(parent[i])

\* A program that has ended holds no file descriptors, whichever way it ended.
EndedHoldsNoFds ==
    \A i \in UserIds : state[i] \in {"Zombie", "Dead"} => i \notin fds

\* A task ends once: a zombie keeps its exit status and is retired only by its
\* parent, and a retired task stays so.
EndsOnceStep ==
    \A i \in UserIds :
        /\ state[i] = "Dead" => state'[i] = "Dead"
        /\ state[i] = "Zombie" =>
             /\ exitStatus'[i] = exitStatus[i]
             /\ \/ state'[i] = "Zombie"
                \/ state'[i] = "Dead" /\ Cur = parent[i] /\ i \notin children'[Cur]

EndsOnce == [][EndsOnceStep]_vars

\* The inductive strengthening of the invariants above.
\* The table lists exactly the ids that have a task, and ids are handed out in
\* order: the task being spawned is not in the table yet.
TableInv ==
    /\ \A i \in Ids : state[i] # "None" <=> \E k \in DOMAIN tasks : tasks[k] = i
    /\ \A i \in Ids : i >= nextId => state[i] = "None"
    /\ pc[Loader] \in {"fds", "add"} =>
         newId \in UserIds /\ newId < nextId /\ state[newId] = "None"

\* Parents are programs or init and older than their children; init never ends.
TreeInv ==
    /\ ProcessTree
    /\ \A i \in Ids : /\ parent[i] \in UserIds \cup {Reaper, NoTask} /\ parent[i] < i
                      /\ state[i] = "None" => parent[i] = NoTask
    /\ Alive(Reaper)

\* A task asleep in wait() is marked as such.
WaitInv ==
    \A i \in UserIds : state[i] = "Blocked" /\ pc[i] = "wait" => waitBlocked[i]

\* What reap_orphans has read stays true until it acts on it.
ReaperInv ==
    /\ pc[Reaper] \in {"snapshot", "filter", "reap", "clean", "next"}
    /\ pc[Reaper] = "filter" => kids \subseteq children[Reaper]
    /\ pc[Reaper] \in {"reap", "clean"} =>
         \A c \in zombies : c \in children[Reaper] /\ state[c] = "Zombie"

IndInv ==
    /\ TypeOK /\ OneRunning /\ TableInv /\ TreeInv /\ WaitInv /\ NoLostChild
    /\ ReaperInv /\ EndedHoldsNoFds

\* The round-robin scheduler starves nobody: a task that can run gets the CPU,
\* unless it is killed first (or the kernel panics).
RunnableRuns ==
    \A i \in Ids :
        state[i] = "Runnable" ~> state[i] \in {"Running", "Zombie"} \/ machine = "panic"

\* init is the reaper of last resort: a zombie that init has adopted is retired.
OrphanReaped ==
    \A i \in UserIds :
        state[i] = "Zombie" /\ parent[i] = Reaper ~> state[i] = "Dead" \/ machine = "panic"

\* wait() returns once a child has terminated, unless the waiter is killed.
WaitReturns ==
    \A i \in UserIds :
        pc[i] = "wait" /\ ~NoZombieChild(i)
            ~> pc[i] = "user" \/ state[i] = "Zombie" \/ machine = "panic"
=============================================================================
