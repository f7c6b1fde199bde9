--------------------------- MODULE ProcessProofs ---------------------------
(***************************************************************************)
(* Proofs about Process for every number of tasks, set of signals, set of   *)
(* exit codes and assignment of roles.                                      *)
(***************************************************************************)
EXTENDS Process, WellFoundedInduction, TLAPS

-----------------------------------------------------------------------------
(* Minima and slots *)

\* A non-empty set of natural numbers has its Min as a member.
LEMMA MinIsMember ==
    ASSUME NEW S \in SUBSET Nat, S # {}
    PROVE  Min(S) \in S
<1>1. \E m \in S : \A k \in S : ~ (<<k, m>> \in OpToRel(<, Nat))
  BY NatLessThanWellFounded, WFMin
<1>2. \A m, k \in S : ~ (<<k, m>> \in OpToRel(<, Nat)) => m <= k
  BY DEF OpToRel
<1>3. \E m \in S : \A k \in S : m <= k
  BY <1>1, <1>2
<1>. QED
  BY <1>3 DEF Min

\* Going round the table from any slot stays in the table and reaches every slot.
LEMMA SlotsAhead ==
    ASSUME TypeOK
    PROVE  /\ \A k \in 1..Len(tasks) : SlotAfter(current, k) \in DOMAIN tasks
           /\ \A m \in DOMAIN tasks : \E k \in 1..Len(tasks) : SlotAfter(current, k) = m
<1>. Len(tasks) \in Nat /\ DOMAIN tasks = 1..Len(tasks) /\ current \in 1..Len(tasks)
  BY DEF TypeOK
<1>1. \A k \in 1..Len(tasks) : SlotAfter(current, k) \in DOMAIN tasks
  BY DEF SlotAfter
<1>2. ASSUME NEW m \in DOMAIN tasks
      PROVE  \E k \in 1..Len(tasks) : SlotAfter(current, k) = m
  <2>1. CASE m > current
    <3>1. m - current \in 1..Len(tasks) /\ SlotAfter(current, m - current) = m
      BY <2>1 DEF SlotAfter
    <3>. QED  BY <3>1
  <2>2. CASE m <= current
    <3>1. Len(tasks) + m - current \in 1..Len(tasks)
      BY <2>2
    <3>2. SlotAfter(current, Len(tasks) + m - current) = m
      BY <2>2 DEF SlotAfter
    <3>. QED  BY <3>1, <3>2
  <2>. QED  BY <2>1, <2>2
<1>. QED  BY <1>1, <1>2

\* What schedule() does to the states s it is entered with, when only the current
\* task may be Running in them and the idle task can run: one task runs, and no
\* other state changes.
LEMMA ScheduleRunsOne ==
    ASSUME TypeOK, TableInv,
           NEW s \in [Ids -> States \cup {"None"}],
           \A i \in Ids : s[i] = "Running" => i = Cur,
           s[Idle] \in {"Running", "Runnable"},
           \A i \in Ids : s[i] = "None" <=> state[i] = "None",
           \A j, k \in DOMAIN tasks : tasks[j] = tasks[k] => j = k,
           Schedule(s)
    PROVE  /\ state' \in [Ids -> States \cup {"None"}]
           /\ current' \in DOMAIN tasks
           /\ \A i \in Ids : state'[i] = "Running" <=> i = tasks[current']
           /\ \A i \in Ids : \/ state'[i] = s[i]
                             \/ /\ state'[i] \in {"Running", "Runnable"}
                                /\ s[i] \in {"Running", "Runnable"}
<1>. DEFINE ahead == RunnableAhead(s)
<1>0. /\ Idle \in Ids /\ Cur \in Ids
      /\ \A k \in DOMAIN tasks : tasks[k] \in Ids
  BY ConstantsAssumption DEF TypeOK, Ids, Idle, Cur
<1>1. CASE ahead = {}
  <2>1. PICK m \in DOMAIN tasks : tasks[m] = Idle
    BY <1>0 DEF TableInv
  <2>2. PICK k \in 1..Len(tasks) : SlotAfter(current, k) = m
    BY SlotsAhead, <2>1
  <2>3. s[Idle] # "Runnable"
    BY <1>1, <2>1, <2>2 DEF RunnableAhead
  <2>4. state' = s /\ current' = current /\ s[Cur] = "Running"
    BY <1>0, <1>1, <2>3 DEF Schedule
  <2>. QED  BY <2>4, <1>0 DEF TypeOK, Cur
<1>2. CASE ahead # {}
  <2>. DEFINE next == SlotAfter(current, Min(ahead))
  <2>1. Min(ahead) \in ahead
    <3>1. ahead \in SUBSET Nat
      BY DEF RunnableAhead
    <3>. QED  BY <3>1, <1>2, MinIsMember
  <2>2. next \in DOMAIN tasks /\ s[tasks[next]] = "Runnable"
    BY <2>1, SlotsAhead DEF RunnableAhead
  <2>3. /\ current' = next
        /\ state' = [i \in Ids |-> IF i = tasks[next] THEN "Running"
                                   ELSE IF i = Cur /\ s[i] = "Running" THEN "Runnable"
                                   ELSE s[i]]
    BY <1>2 DEF Schedule
  <2>. HIDE DEF next
  <2>4. tasks[next] \in Ids
    BY <2>2, <1>0
  <2>. QED  BY <2>2, <2>3, <2>4, <1>0 DEF States
<1>. QED  BY <1>1, <1>2

-----------------------------------------------------------------------------
(* Type correctness *)

\* The facts ScheduleRunsOne yields.
Switched(s) ==
    /\ state' \in [Ids -> States \cup {"None"}]
    /\ current' \in DOMAIN tasks
    /\ \A i \in Ids : state'[i] = "Running" <=> i = tasks[current']
    /\ \A i \in Ids : \/ state'[i] = s[i]
                      \/ /\ state'[i] \in {"Running", "Runnable"}
                         /\ s[i] \in {"Running", "Runnable"}

\* A task that yields keeps its state until schedule() demotes it.
LEMMA YieldSwitches ==
    ASSUME IndInv, Schedule(state)
    PROVE  Switched(state)
BY ScheduleRunsOne DEF IndInv, OneRunning, TypeOK, Switched

\* A task other than the idle task that gives up the CPU for good or blocks.
LEMMA StopSwitches ==
    ASSUME IndInv, NEW st \in States \ {"Running"}, Cur # Idle,
           Schedule([state EXCEPT ![Cur] = st])
    PROVE  Switched([state EXCEPT ![Cur] = st])
<1>. DEFINE s == [state EXCEPT ![Cur] = st]
<1>1. TypeOK /\ OneRunning /\ TableInv /\ Cur \in Ids /\ Idle \in Ids
  BY ConstantsAssumption DEF IndInv, TypeOK, Cur, Ids, Idle
<1>2. state[Cur] = "Running" /\ s \in [Ids -> States \cup {"None"}]
  BY <1>1 DEF TypeOK, OneRunning
<1>3. \A i \in Ids : (s[i] = "None" <=> state[i] = "None") /\ s[i] # "Running"
  BY <1>1, <1>2 DEF TypeOK, OneRunning, States
<1>4. s[Idle] = "Runnable"
  BY <1>1 DEF TypeOK, OneRunning
<1>5. \A j, k \in DOMAIN tasks : tasks[j] = tasks[k] => j = k
  BY <1>1 DEF OneRunning
<1>6. Schedule(s)
  OBVIOUS
<1>. HIDE DEF s
<1>7. Switched(s)
  BY <1>1, <1>2, <1>3, <1>4, <1>5, <1>6, ScheduleRunsOne DEF Switched
<1>. QED  BY <1>7 DEF s

\* The task that ends: its parent may be woken as well.
LEMMA ExitSwitches ==
    ASSUME IndInv, Cur # Idle, Schedule(StatesAfterExit(Cur))
    PROVE  Switched(StatesAfterExit(Cur))
<1>. DEFINE s == StatesAfterExit(Cur)
<1>1. TypeOK /\ OneRunning /\ TableInv /\ Cur \in Ids /\ Idle \in Ids
  BY ConstantsAssumption, SMTT(60) DEF IndInv, TypeOK, Cur, Ids, Idle
<1>2. state[Cur] = "Running" /\ s \in [Ids -> States \cup {"None"}]
  BY <1>1 DEF TypeOK, OneRunning, StatesAfterExit, States
<1>3. \A i \in Ids : (s[i] = "None" <=> state[i] = "None") /\ s[i] # "Running"
  BY <1>1, <1>2 DEF TypeOK, OneRunning, States, StatesAfterExit
<1>4. s[Idle] = "Runnable"
  BY <1>1 DEF TypeOK, OneRunning, StatesAfterExit
<1>5. \A j, k \in DOMAIN tasks : tasks[j] = tasks[k] => j = k
  BY <1>1 DEF OneRunning
<1>6. Schedule(s)
  OBVIOUS
<1>. HIDE DEF s
<1>7. Switched(s)
  BY <1>1, <1>2, <1>3, <1>4, <1>5, <1>6, ScheduleRunsOne DEF Switched
<1>. QED  BY <1>7 DEF s

\* Entering a handler keeps the signal state well typed.
LEMMA ReturnTypes ==
    ASSUME TypeOK, NEW i \in Ids, NEW h, NEW r, NEW p \in [Ids -> SUBSET Signals],
           ReturnToUser(i, h, r, p)
    PROVE  pending' \in [Ids -> SUBSET Signals] /\ saved' \in [Ids -> BOOLEAN]
<1>. DEFINE sig == IF saved[i] \/ ~r[i] THEN {} ELSE NextDeliverable(i, h, p)
<1>1. pending' = [p EXCEPT ![i] = @ \ sig] /\ saved' = [saved EXCEPT ![i] = @ \/ sig # {}]
  BY DEF ReturnToUser
<1>. HIDE DEF sig
<1>2. pending' \in [Ids -> SUBSET Signals]
  BY <1>1
<1>3. saved' \in [Ids -> BOOLEAN]
  BY <1>1 DEF TypeOK
<1>. QED  BY <1>2, <1>3

\* The waking of a parent and the posting of SIGCHLD keep their types.
LEMMA ExitTypes ==
    ASSUME TypeOK, NEW i \in Ids
    PROVE  /\ StatesAfterExit(i) \in [Ids -> States \cup {"None"}]
           /\ PendingAfterExit(i) \in [Ids -> SUBSET Signals]
BY ConstantsAssumption DEF TypeOK, StatesAfterExit, PendingAfterExit, States

\* Growing the table.
LEMMA AppendTask ==
    ASSUME TypeOK, NEW x \in Ids, tasks' = Append(tasks, x), current' = current
    PROVE  /\ tasks' \in Seq(Ids) /\ current' \in DOMAIN tasks'
           /\ DOMAIN tasks' = DOMAIN tasks \cup {Len(tasks) + 1}
           /\ Len(tasks) + 1 \notin DOMAIN tasks
           /\ tasks'[Len(tasks) + 1] = x
           /\ \A k \in DOMAIN tasks : tasks'[k] = tasks[k]
<1>1. tasks \in Seq(Ids) /\ Len(tasks) \in Nat /\ DOMAIN tasks = 1..Len(tasks)
  BY DEF TypeOK
<1>2. tasks' \in Seq(Ids) /\ Len(tasks') = Len(tasks) + 1 /\ DOMAIN tasks' = 1..(Len(tasks) + 1)
  BY <1>1
<1>3. current' \in DOMAIN tasks'
  BY <1>1, <1>2 DEF TypeOK
<1>. QED  BY <1>1, <1>2, <1>3

\* Ending a task keeps the types.
LEMMA BuryTypes ==
    ASSUME TypeOK, NEW i \in Ids, NEW status \in Int, Bury(i, status)
    PROVE  /\ exitStatus' \in [Ids -> Int] /\ fds' \subseteq Ids
           /\ parent' \in [Ids -> Ids \cup {NoTask}]
           /\ children' \in [Ids -> SUBSET UserIds]
BY ConstantsAssumption, SMTT(60) DEF TypeOK, Bury, Ids, Reaper

\* do_exit keeps the types.
LEMMA ExitStep ==
    ASSUME IndInv, Cur \in UserIds, NEW status \in Int, DoExit(Cur, status)
    PROVE  TypeOK'
<1>1. TypeOK /\ Cur \in Ids /\ Cur # Idle
  BY ConstantsAssumption DEF IndInv, UserIds, Ids, Idle
<1>2. Switched(StatesAfterExit(Cur))
  BY <1>1, ExitSwitches DEF DoExit
<1>3. /\ exitStatus' \in [Ids -> Int] /\ fds' \subseteq Ids
      /\ parent' \in [Ids -> Ids \cup {NoTask}]
      /\ children' \in [Ids -> SUBSET UserIds]
  BY <1>1, BuryTypes DEF DoExit
<1>4. pending' \in [Ids -> SUBSET Signals]
  BY <1>1, ExitTypes DEF DoExit
<1>. QED  BY <1>1, <1>2, <1>3, <1>4 DEF DoExit, Switched, TypeOK, reaperVars

\* One scan of do_wait keeps the types.
LEMMA WaitTypes ==
    ASSUME IndInv, Cur \in UserIds, WaitScan(Cur),
           UNCHANGED <<handlers, restorer, reaperVars, newId, windows, machine>>
    PROVE  TypeOK'
<1>. DEFINE i == Cur
<1>0. TypeOK /\ i \in Ids /\ i # Idle
  BY ConstantsAssumption DEF IndInv, UserIds, Ids, Idle
<1>1. /\ pc' = [pc EXCEPT ![i] = "user"] \/ pc' = [pc EXCEPT ![i] = "wait"]
      /\ \/ waitBlocked' = [waitBlocked EXCEPT ![i] = FALSE]
         \/ waitBlocked' = [waitBlocked EXCEPT ![i] = TRUE]
      /\ children' = children \/ \E c \in children[i] : children' = [children EXCEPT ![i] = @ \ {c}]
      /\ fds' \subseteq fds
      /\ UNCHANGED <<tasks, nextId, parent, exitStatus>>
  BY DEF WaitScan, schedVars, treeVars
<1>2. pending' \in [Ids -> SUBSET Signals] /\ saved' \in [Ids -> BOOLEAN]
  BY <1>0, ReturnTypes DEF WaitScan, Deliver, TypeOK
<1>3. state' \in [Ids -> States \cup {"None"}] /\ current' \in DOMAIN tasks
  <2>1. CASE Schedule([state EXCEPT ![i] = "Blocked"])
    <3>1. "Blocked" \in States \ {"Running"}
      BY DEF States
    <3>2. Switched([state EXCEPT ![i] = "Blocked"])
      BY <1>0, <2>1, <3>1, StopSwitches
    <3>. QED  BY <3>2 DEF Switched
  <2>2. CASE UNCHANGED <<current, state>>
    BY <1>0, <2>2 DEF TypeOK
  <2>3. CASE current' = current /\ \E c \in children[i] : state' = [state EXCEPT ![c] = "Dead"]
    BY <1>0, <2>3 DEF TypeOK, States
  <2>. QED  BY <2>1, <2>2, <2>3 DEF WaitScan, schedVars
<1>4. pc' \in [Ids -> {"idle", "user", "wait", "yield", "sleep", "exec", "read", "load",
                       "fds", "add", "snapshot", "filter", "reap", "clean", "next"}]
  BY <1>0, <1>1 DEF TypeOK
<1>5. children' \in [Ids -> SUBSET UserIds]
  <2>1. CASE children' = children
    BY <1>0, <2>1 DEF TypeOK
  <2>2. ASSUME NEW c \in children[i], children' = [children EXCEPT ![i] = @ \ {c}]
        PROVE  children' \in [Ids -> SUBSET UserIds]
    BY <1>0, <2>2 DEF TypeOK
  <2>. QED  BY <1>1, <2>1, <2>2
<1>6. waitBlocked' \in [Ids -> BOOLEAN]
  <2>1. CASE waitBlocked' = [waitBlocked EXCEPT ![i] = FALSE]
    BY <1>0, <2>1 DEF TypeOK
  <2>2. CASE waitBlocked' = [waitBlocked EXCEPT ![i] = TRUE]
    BY <1>0, <2>2 DEF TypeOK
  <2>. QED  BY <1>1, <2>1, <2>2
<1>. HIDE DEF i
<1>. QED  BY <1>0, <1>1, <1>2, <1>3, <1>4, <1>5, <1>6 DEF TypeOK, reaperVars

\* Every kind of step keeps the types.
LEMMA TypeStep ==
    ASSUME IndInv, [Next]_vars
    PROVE  TypeOK'
<1>. USE ConstantsAssumption
<1>0. /\ TypeOK
      /\ UserIds \subseteq Ids /\ {Idle, Reaper, Loader} \subseteq Ids
  BY DEF IndInv, UserIds, Ids, Idle, Reaper, Loader
<1>1. CASE TimerTick
  BY <1>0, <1>1, YieldSwitches DEF TimerTick, Switched, TypeOK, schedVars, treeVars, sigVars, reaperVars
<1>2. CASE IdleYield
  BY <1>0, <1>2, YieldSwitches DEF IdleYield, Switched, TypeOK, schedVars, treeVars, sigVars, reaperVars
<1>3. ASSUME NEW i \in UserIds, SysOther(i)
      PROVE  TypeOK'
  <2>1. pending' \in [Ids -> SUBSET Signals] /\ saved' \in [Ids -> BOOLEAN]
    BY <1>0, <1>3, ReturnTypes DEF SysOther, Deliver, TypeOK
  <2>. QED  BY <1>0, <1>3, <2>1 DEF SysOther, TypeOK, schedVars, treeVars, sigVars, reaperVars
<1>4. ASSUME NEW i \in UserIds, NEW sig \in Signals, NEW h \in Handlers, NEW r \in BOOLEAN, SysSignal(i, sig, h, r)
      PROVE  TypeOK'
  <2>1. pending' \in [Ids -> SUBSET Signals] /\ saved' \in [Ids -> BOOLEAN]
    BY <1>0, <1>4, ReturnTypes DEF SysSignal, TypeOK
  <2>. QED  BY <1>0, <1>4, <2>1 DEF SysSignal, TypeOK, schedVars, treeVars, sigVars, reaperVars, Handlers
<1>5. ASSUME NEW i \in UserIds, SysSigreturn(i)
      PROVE  TypeOK'
  BY <1>0, <1>5 DEF SysSigreturn, TypeOK, schedVars, treeVars, sigVars, reaperVars
<1>6. ASSUME NEW i \in UserIds, SysFork(i)
      PROVE  TypeOK'
  <2>a. nextId <= MaxId /\ nextId' = nextId + 1 /\ fds' = fds \cup {nextId}
    BY <1>6 DEF SysFork
  <2>b. nextId \in 3..(MaxId + 1) /\ fds \subseteq Ids
    BY <1>0, <1>6 DEF TypeOK
  <2>c. nextId \in UserIds /\ nextId \in Ids /\ nextId' \in 3..(MaxId + 1)
    BY <2>a, <2>b DEF UserIds, Ids
  <2>0. nextId \in UserIds /\ nextId \in Ids /\ nextId' \in 3..(MaxId + 1) /\ fds' \subseteq Ids
    BY <2>a, <2>b, <2>c
  <2>1. CASE ReuseSlot
    BY <1>0, <1>6, <2>0, <2>1 DEF ReuseSlot, treeVars, sigVars, reaperVars, TypeOK
  <2>2. CASE ~ReuseSlot
    <3>1. pending' \in [Ids -> SUBSET Signals] /\ saved' \in [Ids -> BOOLEAN]
      BY <1>0, <1>6, <2>2, ReturnTypes DEF SysFork, Deliver, TypeOK
    <3>2. tasks' = Append(tasks, nextId) /\ current' = current
      BY <1>0, <1>6, <2>2 DEF SysFork
    <3>3. tasks' \in Seq(Ids) /\ current' \in DOMAIN tasks'
      BY <1>0, <1>6, <2>0, <3>2, AppendTask
    <3>a. /\ state' = [state EXCEPT ![nextId] = "Runnable"]
          /\ parent' = [parent EXCEPT ![nextId] = i]
          /\ children' = [children EXCEPT ![i] = @ \cup {nextId}]
          /\ handlers' = [handlers EXCEPT ![nextId] = handlers[i]]
          /\ restorer' = [restorer EXCEPT ![nextId] = restorer[i]]
          /\ UNCHANGED <<exitStatus, waitBlocked, pc, reaperVars, newId, windows, machine>>
      BY <1>6, <2>2 DEF SysFork
    <3>4. /\ state' \in [Ids -> States \cup {"None"}]
          /\ parent' \in [Ids -> Ids \cup {NoTask}]
          /\ children' \in [Ids -> SUBSET UserIds]
          /\ handlers' \in [Ids -> [Signals -> Handlers]]
      BY <1>0, <1>6, <2>0, <3>a DEF TypeOK, States
    <3>5. restorer' \in [Ids -> BOOLEAN]
      BY <1>0, <1>6, <2>0, <3>a DEF TypeOK
    <3>. QED  BY <1>0, <1>6, <2>0, <3>a, <3>1, <3>3, <3>4, <3>5 DEF reaperVars, TypeOK
  <2>. QED  BY <2>1, <2>2
<1>7. ASSUME NEW i \in UserIds, NEW status \in ExitCodes, SysExit(i, status)
      PROVE  TypeOK'
  <2>1. Cur = i /\ Cur # Idle /\ i \in Ids
    BY <1>0, <1>7 DEF SysExit, Syscall, UserIds, Idle
  <2>2. PICK code \in Int : DoExit(i, code)
    BY <1>0, <1>7 DEF SysExit, SIGILL, SIGSEGV
  <2>. QED  BY <1>0, <1>7, <2>1, <2>2, ExitStep
<1>8. ASSUME NEW i \in UserIds, UserFault(i)
      PROVE  TypeOK'
  <2>1. Cur = i /\ Cur # Idle /\ i \in Ids
    BY <1>0, <1>8 DEF UserFault, Syscall, UserIds, Idle
  <2>2. PICK code \in Int : DoExit(i, code)
    BY <1>0, <1>8 DEF UserFault, SIGILL, SIGSEGV
  <2>. QED  BY <1>0, <1>8, <2>1, <2>2, ExitStep
<1>9. ASSUME NEW i \in UserIds, NEW sig \in Signals, KillSelf(i, sig)
      PROVE  TypeOK'
  <2>1. Cur = i /\ Cur # Idle /\ i \in Ids
    BY <1>0, <1>9 DEF KillSelf, Syscall, UserIds, Idle
  <2>2. PICK code \in Int : DoExit(i, code)
    BY <1>0, <1>9 DEF KillSelf, SIGILL, SIGSEGV
  <2>. QED  BY <1>0, <1>9, <2>1, <2>2, ExitStep
<1>10. ASSUME NEW i \in UserIds, NEW t \in UserIds, NEW sig \in Signals, KillChild(i, t, sig)
      PROVE  TypeOK'
  <2>1. Bury(t, 128 + sig) /\ 128 + sig \in Int
    BY <1>10 DEF KillChild
  <2>2. pending' \in [Ids -> SUBSET Signals] /\ saved' \in [Ids -> BOOLEAN]
    BY <1>0, <1>10, ReturnTypes, ExitTypes DEF KillChild
  <2>. QED  BY <1>0, <1>10, <2>1, <2>2, BuryTypes, ExitTypes DEF KillChild, TypeOK, schedVars, treeVars, sigVars, reaperVars
<1>11. ASSUME NEW i \in UserIds, NEW t \in UserIds, NEW sig \in Signals, KillCaught(i, t, sig)
      PROVE  TypeOK'
  <2>1. [pending EXCEPT ![t] = @ \cup {sig}] \in [Ids -> SUBSET Signals]
    BY <1>0, <1>11 DEF TypeOK
  <2>2. pending' \in [Ids -> SUBSET Signals] /\ saved' \in [Ids -> BOOLEAN]
    BY <1>0, <1>11, <2>1, ReturnTypes DEF KillCaught
  <2>. QED  BY <1>0, <1>11, <2>2 DEF KillCaught, States, TypeOK, schedVars, treeVars, sigVars, reaperVars
<1>12. ASSUME NEW i \in UserIds, SysWait(i)
      PROVE  TypeOK'
  <2>1. Cur = i /\ WaitScan(i)
    BY <1>12 DEF SysWait, Syscall
  <2>. QED  BY <1>0, <1>12, <2>1, WaitTypes DEF SysWait, TypeOK, schedVars, treeVars, sigVars, reaperVars
<1>13. ASSUME NEW i \in UserIds, WaitResume(i)
      PROVE  TypeOK'
  <2>1. Cur = i /\ WaitScan(i)
    BY <1>13 DEF WaitResume
  <2>. QED  BY <1>0, <1>13, <2>1, WaitTypes DEF WaitResume, TypeOK, schedVars, treeVars, sigVars, reaperVars
<1>14. ASSUME NEW i \in UserIds, SysExec(i)
      PROVE  TypeOK'
  BY <1>0, <1>14 DEF SysExec, TypeOK, schedVars, treeVars, sigVars, reaperVars
<1>15. ASSUME NEW i \in UserIds, ExecDone(i)
      PROVE  TypeOK'
  BY <1>0, <1>15 DEF ExecDone, Handlers, TypeOK, schedVars, treeVars, sigVars, reaperVars
<1>16. ASSUME NEW i \in UserIds, ExecFail(i)
      PROVE  TypeOK'
  <2>1. pending' \in [Ids -> SUBSET Signals] /\ saved' \in [Ids -> BOOLEAN]
    BY <1>0, <1>16, ReturnTypes DEF ExecFail, Deliver, TypeOK
  <2>. QED  BY <1>0, <1>16, <2>1 DEF ExecFail, TypeOK, schedVars, treeVars, sigVars, reaperVars
<1>17. ASSUME NEW i \in UserIds, NEW call \in {"yield", "sleep"}, SysYield(i, call)
      PROVE  TypeOK'
  BY <1>0, <1>17, YieldSwitches DEF SysYield, Switched, TypeOK, schedVars, treeVars, sigVars, reaperVars
<1>18. ASSUME NEW i \in UserIds, SleepMore(i)
      PROVE  TypeOK'
  BY <1>0, <1>18, YieldSwitches DEF SleepMore, Switched, TypeOK, schedVars, treeVars, sigVars, reaperVars
<1>19. ASSUME NEW i \in UserIds, YieldReturn(i)
      PROVE  TypeOK'
  <2>1. pending' \in [Ids -> SUBSET Signals] /\ saved' \in [Ids -> BOOLEAN]
    BY <1>0, <1>19, ReturnTypes DEF YieldReturn, Deliver, TypeOK
  <2>. QED  BY <1>0, <1>19, <2>1 DEF YieldReturn, TypeOK, schedVars, treeVars, sigVars, reaperVars
<1>20. ASSUME NEW i \in UserIds, ReadBlock(i)
      PROVE  TypeOK'
  <2>1. Cur = i /\ Cur # Idle /\ "Blocked" \in States \ {"Running"}
    BY <1>20 DEF ReadBlock, UserIds, Idle, States
  <2>2. Switched([state EXCEPT ![Cur] = "Blocked"])
    BY <1>20, <2>1, StopSwitches DEF ReadBlock
  <2>. QED  BY <1>0, <1>20, <2>2 DEF ReadBlock, Switched, TypeOK, schedVars, treeVars, sigVars, reaperVars
<1>21. ASSUME NEW i \in UserIds, Unblock(i)
      PROVE  TypeOK'
  BY <1>0, <1>21 DEF Unblock, States, TypeOK, schedVars, treeVars, sigVars, reaperVars
<1>22. ASSUME NEW i \in UserIds, ReadReturn(i)
      PROVE  TypeOK'
  <2>1. pending' \in [Ids -> SUBSET Signals] /\ saved' \in [Ids -> BOOLEAN]
    BY <1>0, <1>22, ReturnTypes DEF ReadReturn, Deliver, TypeOK
  <2>. QED  BY <1>0, <1>22, <2>1 DEF ReadReturn, TypeOK, schedVars, treeVars, sigVars, reaperVars
<1>23. ASSUME NEW i \in UserIds, SysWindow(i)
      PROVE  TypeOK'
  <2>1. pending' \in [Ids -> SUBSET Signals] /\ saved' \in [Ids -> BOOLEAN]
    BY <1>0, <1>23, ReturnTypes DEF SysWindow, Deliver, TypeOK
  <2>. QED  BY <1>0, <1>23, <2>1 DEF SysWindow, TypeOK, schedVars, treeVars, sigVars, reaperVars
<1>24. CASE ReapSnapshot
  BY <1>0, <1>24 DEF ReapSnapshot, TypeOK, schedVars, treeVars, sigVars, reaperVars
<1>25. CASE ReapFilter
  BY <1>0, <1>25 DEF ReapFilter, TypeOK, schedVars, treeVars, sigVars, reaperVars
<1>26. ASSUME NEW c \in UserIds, ReapOne(c)
      PROVE  TypeOK'
  BY <1>0, <1>26 DEF ReapOne, States, TypeOK, schedVars, treeVars, sigVars, reaperVars
<1>27. CASE ReapClean
  BY <1>0, <1>27 DEF ReapClean, TypeOK, schedVars, treeVars, sigVars, reaperVars
<1>28. CASE ReapYield
  BY <1>0, <1>28, YieldSwitches DEF ReapYield, Switched, TypeOK, schedVars, treeVars, sigVars, reaperVars
<1>29. CASE SpawnId
  BY <1>0, <1>29 DEF SpawnId, UserIds, TypeOK, schedVars, treeVars, sigVars, reaperVars
<1>30. CASE SpawnFds
  BY <1>0, <1>30 DEF SpawnFds, IndInv, TableInv, TypeOK, schedVars, treeVars, sigVars, reaperVars
<1>31. CASE SpawnAdd
  <2>1. CASE ReuseSlot
    BY <1>0, <1>31, <2>1 DEF SpawnAdd, ReuseSlot, TypeOK, schedVars, treeVars, sigVars, reaperVars
  <2>2. CASE ~ReuseSlot
    <3>1. newId \in Ids
      BY <1>0, <1>31 DEF SpawnAdd, IndInv, TableInv
    <3>2. tasks' \in Seq(Ids) /\ current' \in DOMAIN tasks'
      BY <1>0, <1>31, <2>2, <3>1, AppendTask DEF SpawnAdd
    <3>. QED  BY <1>0, <1>31, <2>2, <3>1, <3>2 DEF SpawnAdd, States, TypeOK, schedVars, treeVars, sigVars, reaperVars
  <2>. QED  BY <2>1, <2>2
<1>32. CASE LoaderYield
  BY <1>0, <1>32, YieldSwitches DEF LoaderYield, Switched, TypeOK, schedVars, treeVars, sigVars, reaperVars
<1>33. CASE LoaderExit
  <2>1. Cur # Idle /\ "Dead" \in States \ {"Running"}
    BY <1>33 DEF LoaderExit, Loader, Idle, States
  <2>2. Switched([state EXCEPT ![Cur] = "Dead"])
    BY <1>33, <2>1, StopSwitches DEF LoaderExit
  <2>. QED  BY <1>0, <1>33, <2>2 DEF LoaderExit, Switched, TypeOK, schedVars, treeVars, sigVars, reaperVars
<1>34. CASE HltLoop \/ UNCHANGED vars
  BY <1>0, <1>34 DEF HltLoop, vars, TypeOK
<1>. QED
  BY <1>1, <1>2, <1>3, <1>4, <1>5, <1>6, <1>7, <1>8, <1>9, <1>10, <1>11, <1>12,
     <1>13, <1>14, <1>15, <1>16, <1>17, <1>18, <1>19, <1>20, <1>21, <1>22, <1>23,
     <1>24, <1>25, <1>26, <1>27, <1>28, <1>29, <1>30, <1>31, <1>32, <1>33, <1>34
     DEF Next, ProgramStep, ResumeStep, ReaperStep, LoaderStep

-----------------------------------------------------------------------------
(* The inductive invariant *)

Live == {"Runnable", "Running", "Blocked"}

\* No task is born, ends or is reaped in the step.
Calm == \A i \in Ids : state'[i] = state[i] \/ (state[i] \in Live /\ state'[i] \in Live)

\* Where the reaper is not involved, a calm step keeps what it has read.
LEMMA ReaperUnmoved ==
    ASSUME IndInv, Calm, UNCHANGED <<children, kids, zombies>>, pc'[Reaper] = pc[Reaper]
    PROVE  ReaperInv'
<1>1. /\ ReaperInv
      /\ \A c \in zombies : c \in Ids
  BY ConstantsAssumption DEF IndInv, TypeOK, UserIds, Ids
<1>2. ASSUME pc'[Reaper] \in {"reap", "clean"}, NEW c \in zombies'
      PROVE  c \in children'[Reaper] /\ state'[c] = "Zombie"
  BY <1>1, <1>2 DEF ReaperInv, Calm, Live
<1>. QED  BY <1>1, <1>2 DEF ReaperInv

\* A calm step that leaves the tree alone keeps the whole invariant.
LEMMA CalmKeeps ==
    ASSUME IndInv, TypeOK', OneRunning', Calm, ReaperInv',
           UNCHANGED <<tasks, parent, children>>,
           nextId' >= nextId,
           \A i \in UserIds : state'[i] = "Blocked" /\ pc'[i] = "wait"
                                => /\ state[i] = "Blocked" /\ pc[i] = "wait"
                                   /\ waitBlocked'[i] = waitBlocked[i],
           pc'[Loader] \in {"fds", "add"} =>
               newId' \in UserIds /\ newId' < nextId' /\ state'[newId'] = "None",
           \A i \in fds' : i \in fds \/ state[i] = "None"
    PROVE  IndInv'
<1>0. /\ TypeOK /\ TableInv /\ TreeInv /\ WaitInv /\ NoLostChild /\ EndedHoldsNoFds
      /\ UserIds \subseteq Ids /\ Reaper \in Ids
  BY ConstantsAssumption DEF IndInv, UserIds, Ids, Reaper
<1>1. \A i \in Ids : /\ state'[i] = "None" <=> state[i] = "None"
                     /\ state'[i] = "Dead" <=> state[i] = "Dead"
                     /\ state'[i] = "Zombie" <=> state[i] = "Zombie"
                     /\ state'[i] \in Live <=> state[i] \in Live
  BY DEF Calm, Live
<1>2. TableInv'
  <2>1. \A i \in Ids : i >= nextId' => i >= nextId
    BY <1>0 DEF TypeOK, Ids
  <2>. QED  BY <1>0, <1>1, <2>1 DEF TableInv
<1>3. TreeInv'
  <2>1. \A i \in Ids : Alive(i)' <=> Alive(i)
    BY <1>1 DEF Alive, Live
  <2>2. ProcessTree'
    <3>1. ASSUME NEW i \in UserIds, NEW p \in Ids
          PROVE  (i \in children'[p]) <=>
                    parent'[i] = p /\ Alive(p)' /\ state'[i] \notin {"None", "Dead"}
      BY <1>0, <1>1, <2>1 DEF TreeInv, ProcessTree
    <3>2. ASSUME NEW i \in UserIds, parent'[i] # NoTask, state'[i] \notin {"None", "Dead"}
          PROVE  Alive(parent[i])'
      <4>1. parent[i] \in Ids /\ Alive(parent[i])
        BY <1>0, <1>1, <3>2 DEF TreeInv, ProcessTree, TypeOK
      <4>. QED  BY <4>1, <2>1
    <3>. QED  BY <3>1, <3>2 DEF ProcessTree
  <2>. QED  BY <1>0, <1>1, <2>1, <2>2 DEF TreeInv
<1>4. WaitInv'
  BY <1>0 DEF WaitInv
<1>5. NoLostChild'
  <2>1. \A i \in UserIds : \A c \in children[i] : c \in Ids
    BY <1>0 DEF TypeOK
  <2>. QED  BY <1>0, <1>1, <2>1 DEF NoLostChild, NoZombieChild
<1>6. EndedHoldsNoFds'
  BY <1>0, <1>1 DEF EndedHoldsNoFds, TypeOK
<1>. QED  BY <1>2, <1>3, <1>4, <1>5, <1>6 DEF IndInv

\* A switch to another task, the current one only yielding.
LEMMA YieldKeeps ==
    ASSUME IndInv, TypeOK', Schedule(state), ReaperInv',
           UNCHANGED <<tasks, nextId, parent, children, waitBlocked, newId, fds>>,
           pc'[Loader] = pc[Loader],
           \A i \in UserIds : pc'[i] = "wait" => pc[i] = "wait"
    PROVE  IndInv'
<1>0. /\ TypeOK /\ OneRunning /\ TableInv /\ UserIds \subseteq Ids /\ Idle \in Ids
  BY ConstantsAssumption DEF IndInv, UserIds, Ids, Idle
<1>1. Switched(state)
  BY YieldSwitches
<1>2. Calm
  BY <1>1 DEF Switched, Calm, Live
<1>3. OneRunning'
  BY <1>0, <1>1 DEF OneRunning, Switched, Cur
<1>4. \A i \in UserIds : state'[i] = "Blocked" => state[i] = "Blocked"
  BY <1>0, <1>1 DEF Switched
<1>5. pc'[Loader] \in {"fds", "add"} =>
        newId' \in UserIds /\ newId' < nextId' /\ state'[newId'] = "None"
  BY <1>0, <1>2 DEF TableInv, Calm, Live
<1>6. nextId' >= nextId
  BY <1>0 DEF TypeOK
<1>. QED  BY <1>2, <1>3, <1>4, <1>5, <1>6, CalmKeeps

\* A step in which no task changes state.
LEMMA QuietKeeps ==
    ASSUME IndInv, TypeOK', ReaperInv',
           UNCHANGED <<tasks, current, state, parent, children>>,
           nextId' >= nextId,
           \A i \in UserIds : pc'[i] = "wait" => pc[i] = "wait",
           \A i \in UserIds : i # Cur => waitBlocked'[i] = waitBlocked[i],
           pc'[Loader] \in {"fds", "add"} =>
               newId' \in UserIds /\ newId' < nextId' /\ state'[newId'] = "None",
           \A i \in fds' : i \in fds \/ state[i] = "None"
    PROVE  IndInv'
<1>1. Calm
  BY DEF Calm
<1>2. OneRunning'
  BY DEF IndInv, OneRunning, Cur
<1>3. \A i \in UserIds : state'[i] = "Blocked" => i # Cur
  <2>1. UserIds \subseteq Ids
    BY ConstantsAssumption DEF UserIds, Ids
  <2>. QED  BY <2>1 DEF IndInv, OneRunning
<1>. QED  BY <1>1, <1>2, <1>3, CalmKeeps

\* The current task blocks, but not in wait().
LEMMA BlockKeeps ==
    ASSUME IndInv, TypeOK', Cur \in UserIds, Schedule([state EXCEPT ![Cur] = "Blocked"]),
           UNCHANGED <<tasks, nextId, parent, children, waitBlocked, kids, zombies, newId, fds>>,
           pc' = [pc EXCEPT ![Cur] = "read"]
    PROVE  IndInv'
<1>0. /\ TypeOK /\ OneRunning /\ TableInv /\ UserIds \subseteq Ids
      /\ Idle \in Ids /\ Idle # Cur /\ Reaper # Cur /\ Loader # Cur
      /\ state[Cur] = "Running" /\ Reaper \in Ids /\ Loader \in Ids
  BY ConstantsAssumption DEF IndInv, OneRunning, UserIds, Ids, Idle, Reaper, Loader
<1>1. Switched([state EXCEPT ![Cur] = "Blocked"])
  BY <1>0, StopSwitches DEF States
<1>2. Calm
  BY <1>0, <1>1 DEF Switched, Calm, Live, TypeOK
<1>3. OneRunning'
  BY <1>0, <1>1 DEF OneRunning, Switched, Cur, TypeOK
<1>4. /\ pc'[Reaper] = pc[Reaper] /\ pc'[Loader] = pc[Loader] /\ pc'[Cur] = "read"
      /\ \A i \in UserIds : i # Cur => pc'[i] = pc[i]
  BY <1>0 DEF TypeOK
<1>5. \A i \in UserIds : state'[i] = "Blocked" /\ pc'[i] = "wait"
                            => state[i] = "Blocked" /\ pc[i] = "wait"
  BY <1>0, <1>1, <1>4 DEF Switched, TypeOK
<1>6. ReaperInv'
  BY <1>2, <1>4, ReaperUnmoved
<1>7. pc'[Loader] \in {"fds", "add"} =>
        newId' \in UserIds /\ newId' < nextId' /\ state'[newId'] = "None"
  BY <1>0, <1>2, <1>4 DEF TableInv, Calm, Live
<1>8. nextId' >= nextId
  BY <1>0 DEF TypeOK
<1>. QED  BY <1>2, <1>3, <1>5, <1>6, <1>7, <1>8, CalmKeeps

\* The current task finds no child to collect and goes to sleep in wait().
LEMMA SleepKeeps ==
    ASSUME IndInv, TypeOK', Cur \in UserIds, Schedule([state EXCEPT ![Cur] = "Blocked"]),
           children[Cur] # {}, NoZombieChild(Cur),
           UNCHANGED <<tasks, nextId, parent, children, kids, zombies, newId, fds>>,
           pc' = [pc EXCEPT ![Cur] = "wait"],
           waitBlocked' = [waitBlocked EXCEPT ![Cur] = TRUE]
    PROVE  IndInv'
<1>. DEFINE me == Cur
<1>0. /\ TypeOK /\ OneRunning /\ TableInv /\ TreeInv /\ WaitInv /\ NoLostChild /\ EndedHoldsNoFds
      /\ UserIds \subseteq Ids /\ me \in UserIds
      /\ Idle \in Ids /\ Idle # me /\ Reaper # me /\ Loader # me
      /\ state[me] = "Running" /\ Reaper \in Ids /\ Loader \in Ids
  BY ConstantsAssumption DEF IndInv, OneRunning, UserIds, Ids, Idle, Reaper, Loader
<1>1. Switched([state EXCEPT ![me] = "Blocked"])
  BY <1>0, StopSwitches DEF States
<1>2. Calm
  BY <1>0, <1>1 DEF Switched, Calm, Live, TypeOK
<1>3. OneRunning'
  BY <1>0, <1>1 DEF OneRunning, Switched, Cur, TypeOK
<1>4. /\ pc'[Reaper] = pc[Reaper] /\ pc'[Loader] = pc[Loader]
      /\ \A i \in UserIds : i # me => pc'[i] = pc[i] /\ waitBlocked'[i] = waitBlocked[i]
      /\ waitBlocked'[me]
  BY <1>0 DEF TypeOK
<1>5. children'[me] # {} /\ NoZombieChild(me)
  OBVIOUS
<1>. HIDE DEF me
<1>6. \A i \in UserIds : i # me /\ state'[i] = "Blocked" => state[i] = "Blocked"
  BY <1>0, <1>1, ZenonT(60) DEF Switched, TypeOK
<1>7. \A i \in Ids : /\ state'[i] = "None" <=> state[i] = "None"
                     /\ state'[i] = "Dead" <=> state[i] = "Dead"
                     /\ state'[i] = "Zombie" <=> state[i] = "Zombie"
                     /\ state'[i] \in Live <=> state[i] \in Live
  BY <1>2 DEF Calm, Live
<1>8. TableInv'
  BY <1>0, <1>4, <1>7 DEF TableInv
<1>9. TreeInv'
  <2>1. \A i \in Ids : Alive(i)' <=> Alive(i)
    BY <1>7 DEF Alive, Live
  <2>2. ASSUME NEW i \in UserIds, NEW p \in Ids
        PROVE  (i \in children'[p]) <=>
                  parent'[i] = p /\ Alive(p)' /\ state'[i] \notin {"None", "Dead"}
    BY <1>0, <1>7, <2>1 DEF TreeInv, ProcessTree
  <2>3. ASSUME NEW i \in UserIds, parent'[i] # NoTask, state'[i] \notin {"None", "Dead"}
        PROVE  Alive(parent[i])'
    <3>1. parent[i] \in Ids /\ Alive(parent[i])
      BY <1>0, <1>7, <2>3 DEF TreeInv, ProcessTree, TypeOK
    <3>. QED  BY <3>1, <2>1
  <2>4. ProcessTree'
    BY <2>2, <2>3 DEF ProcessTree
  <2>. QED  BY <1>0, <1>7, <2>1, <2>4 DEF TreeInv
<1>10. WaitInv'
  BY <1>0, <1>4, <1>6 DEF WaitInv
<1>11. NoLostChild'
  <2>1. \A i \in UserIds : \A c \in children[i] : c \in Ids
    BY <1>0 DEF TypeOK
  <2>2. ASSUME NEW i \in UserIds, state'[i] = "Blocked", pc'[i] = "wait"
        PROVE  children'[i] # {} /\ \A c \in children[i] : state[c] # "Zombie"
    <3>1. CASE i = me
      BY <1>5, <3>1 DEF NoZombieChild
    <3>2. CASE i # me
      BY <1>0, <1>4, <1>6, <2>2, <3>2 DEF NoLostChild, NoZombieChild
    <3>. QED  BY <3>1, <3>2
  <2>. QED  BY <1>7, <2>1, <2>2 DEF NoLostChild, NoZombieChild
<1>12. EndedHoldsNoFds'
  BY <1>0, <1>7 DEF EndedHoldsNoFds
<1>13. ReaperInv'
  BY <1>2, <1>4, ReaperUnmoved
<1>. QED  BY <1>3, <1>8, <1>9, <1>10, <1>11, <1>12, <1>13 DEF IndInv

\* A new task enters the table: what holds of the scheduler's side.
LEMMA BirthTable ==
    ASSUME IndInv, TypeOK', NEW x \in UserIds, state[x] = "None",
           x < nextId', nextId' >= nextId,
           tasks' = Append(tasks, x), current' = current,
           state' = [state EXCEPT ![x] = "Runnable"],
           pc'[Loader] \in {"fds", "add"} =>
               newId' \in UserIds /\ newId' < nextId' /\ state[newId'] = "None" /\ newId' # x
    PROVE  OneRunning' /\ TableInv'
<1>0. /\ TypeOK /\ OneRunning /\ TableInv /\ x \in Ids /\ Idle \in Ids /\ Cur \in Ids
      /\ UserIds \subseteq Ids /\ x # Idle
  <2>1. TypeOK /\ OneRunning /\ TableInv
    BY DEF IndInv
  <2>2. UserIds \subseteq Ids /\ x \in Ids /\ Idle \in Ids /\ x # Idle
    BY ConstantsAssumption DEF UserIds, Ids, Idle
  <2>3. Cur \in Ids
    BY <2>1 DEF TypeOK, Cur
  <2>. QED  BY <2>1, <2>2, <2>3
<1>1. /\ current' \in DOMAIN tasks'
      /\ DOMAIN tasks' = DOMAIN tasks \cup {Len(tasks) + 1}
      /\ Len(tasks) + 1 \notin DOMAIN tasks
      /\ tasks'[Len(tasks) + 1] = x
      /\ \A k \in DOMAIN tasks : tasks'[k] = tasks[k]
  BY <1>0, AppendTask
<1>2. Cur' = Cur
  BY <1>0, <1>1 DEF Cur, TypeOK
<1>3. \A k \in DOMAIN tasks : tasks[k] # x
  BY <1>0 DEF TableInv
<1>4. state'[x] = "Runnable" /\ \A i \in Ids : i # x => state'[i] = state[i]
  BY <1>0 DEF TypeOK
<1>5. OneRunning'
  BY <1>0, <1>1, <1>2, <1>3, <1>4 DEF OneRunning
<1>6. TableInv'
  <2>1. \A i \in Ids : state'[i] # "None" <=> \E k \in DOMAIN tasks' : tasks'[k] = i
    BY <1>0, <1>1, <1>4 DEF TableInv
  <2>2. \A i \in Ids : i >= nextId' => i >= nextId /\ i # x
    BY <1>0 DEF TypeOK, Ids
  <2>3. \A i \in Ids : i >= nextId' => state'[i] = "None"
    BY <1>0, <1>4, <2>2 DEF TableInv
  <2>4. pc'[Loader] \in {"fds", "add"} =>
          newId' \in UserIds /\ newId' < nextId' /\ state'[newId'] = "None"
    BY <1>0, <1>4
  <2>. QED  BY <2>1, <2>3, <2>4 DEF TableInv
<1>. QED  BY <1>5, <1>6

\* A new task of parent q (or none) keeps the rest of the invariant.
LEMMA BirthKeeps ==
    ASSUME IndInv, TypeOK', OneRunning', TableInv',
           NEW x \in UserIds, state[x] = "None",
           NEW q \in UserIds \cup {NoTask},
           q # NoTask => q = Cur /\ q < x,
           state' = [state EXCEPT ![x] = "Runnable"],
           parent' = [parent EXCEPT ![x] = q],
           \A p \in Ids : children'[p] = IF p = q THEN children[p] \cup {x} ELSE children[p],
           UNCHANGED <<waitBlocked, kids, zombies>>, pc'[Reaper] = pc[Reaper],
           \A i \in UserIds : pc'[i] = pc[i],
           \A i \in fds' : i \in fds \/ i = x
    PROVE  IndInv'
<1>0. /\ TypeOK /\ OneRunning /\ TreeInv /\ WaitInv /\ NoLostChild /\ EndedHoldsNoFds /\ ReaperInv
      /\ x \in Ids /\ Reaper \in Ids /\ x # Reaper /\ UserIds \subseteq Ids /\ Reaper \notin UserIds
      /\ NoTask \notin Ids
  BY ConstantsAssumption DEF IndInv, UserIds, Ids, Reaper, NoTask
<1>1. state'[x] = "Runnable" /\ \A i \in Ids : i # x => state'[i] = state[i]
  BY <1>0 DEF TypeOK
<1>2. parent'[x] = q /\ \A i \in Ids : i # x => parent'[i] = parent[i]
  BY <1>0 DEF TypeOK
<1>3. q # NoTask => state[q] = "Running" /\ q # x
  BY <1>0 DEF OneRunning
<1>4. \A p \in Ids : x \notin children[p]
  BY <1>0 DEF TreeInv, ProcessTree
<1>5. \A p \in Ids : Alive(p)' <=> (Alive(p) \/ p = x)
  BY <1>1 DEF Alive
<1>6. ASSUME NEW i \in UserIds, state[i] \notin {"None", "Dead"}
      PROVE  parent[i] # x
  <2>1. ~ Alive(x) /\ x # NoTask
    BY <1>0 DEF Alive
  <2>. QED  BY <1>0, <1>6, <2>1 DEF TreeInv, ProcessTree
<1>7. ASSUME NEW i \in UserIds, NEW p \in Ids
      PROVE  (i \in children'[p]) <=>
                parent'[i] = p /\ Alive(p)' /\ state'[i] \notin {"None", "Dead"}
  <2>1. CASE i = x
    <3>1. (i \in children'[p]) <=> p = q
      BY <1>4, <2>1
    <3>2. parent'[i] = q /\ state'[i] \notin {"None", "Dead"}
      BY <1>1, <1>2, <2>1
    <3>3. p = q => Alive(p)
      BY <1>0, <1>3 DEF Alive
    <3>. QED  BY <1>5, <3>1, <3>2, <3>3
  <2>2. CASE i # x
    <3>1. (i \in children'[p]) <=> (i \in children[p])
      BY <2>2
    <3>2. parent'[i] = parent[i] /\ state'[i] = state[i]
      BY <1>0, <1>1, <1>2, <2>2
    <3>3. (i \in children[p]) <=>
            parent[i] = p /\ Alive(p) /\ state[i] \notin {"None", "Dead"}
      BY <1>0 DEF TreeInv, ProcessTree
    <3>. QED  BY <1>5, <1>6, <3>1, <3>2, <3>3
  <2>. QED  BY <2>1, <2>2
<1>8. ASSUME NEW i \in UserIds, parent'[i] # NoTask, state'[i] \notin {"None", "Dead"}
      PROVE  Alive(parent[i])'
  <2>1. CASE i = x
    BY <1>0, <1>2, <1>3, <1>5, <1>8, <2>1 DEF Alive
  <2>2. CASE i # x
    <3>1. parent'[i] = parent[i] /\ parent[i] \in Ids /\ Alive(parent[i])
      BY <1>0, <1>1, <1>2, <1>8, <2>2 DEF TreeInv, ProcessTree, TypeOK
    <3>. QED  BY <3>1, <1>5 DEF Alive
  <2>. QED  BY <2>1, <2>2
<1>9. TreeInv'
  <2>1. ProcessTree'
    BY <1>7, <1>8 DEF ProcessTree
  <2>2. \A i \in Ids : /\ parent'[i] \in UserIds \cup {Reaper, NoTask} /\ parent'[i] < i
                       /\ state'[i] = "None" => parent'[i] = NoTask
    BY <1>0, <1>1, <1>2 DEF TreeInv, NoTask, UserIds
  <2>3. Alive(Reaper)'
    BY <1>0, <1>5 DEF TreeInv
  <2>. QED  BY <2>1, <2>2, <2>3 DEF TreeInv
<1>10. WaitInv'
  BY <1>0, <1>1 DEF WaitInv
<1>11. NoLostChild'
  <2>1. ASSUME NEW i \in UserIds, state'[i] = "Blocked", pc'[i] = "wait"
        PROVE  children'[i] = children[i] /\ children[i] # {}
               /\ \A c \in children[i] : state[c] # "Zombie" /\ c # x /\ c \in Ids
    <3>1. i # x /\ i # q /\ state[i] = "Blocked"
      BY <1>0, <1>1, <1>3, <2>1
    <3>2. \A c \in children[i] : c # x /\ c \in Ids
      BY <1>0, <1>4 DEF TypeOK
    <3>. QED  BY <1>0, <2>1, <3>1, <3>2 DEF NoLostChild, NoZombieChild
  <2>. QED  BY <1>1, <2>1 DEF NoLostChild, NoZombieChild
<1>12. EndedHoldsNoFds'
  BY <1>0, <1>1 DEF EndedHoldsNoFds
<1>13. ReaperInv'
  <2>1. children'[Reaper] = children[Reaper]
    BY <1>0
  <2>2. \A c \in zombies : c \in Ids
    BY <1>0 DEF TypeOK
  <2>3. ASSUME pc'[Reaper] \in {"reap", "clean"}, NEW c \in zombies'
        PROVE  c \in children'[Reaper] /\ state'[c] = "Zombie"
    BY <1>0, <1>1, <2>1, <2>2, <2>3 DEF ReaperInv
  <2>. QED  BY <1>0, <2>1, <2>3 DEF ReaperInv
<1>. QED  BY <1>9, <1>10, <1>11, <1>12, <1>13 DEF IndInv

\* A task ends, by do_exit or by terminate_task: its children go to init and the
\* parent that waits for it is woken.
LEMMA DeathKeeps ==
    ASSUME IndInv, TypeOK', OneRunning', NEW t \in UserIds, Alive(t),
           NEW status, Bury(t, status),
           \A i \in Ids : \/ state'[i] = StatesAfterExit(t)[i]
                          \/ /\ state'[i] \in {"Running", "Runnable"}
                             /\ StatesAfterExit(t)[i] \in {"Running", "Runnable"},
           UNCHANGED <<tasks, nextId, waitBlocked, pc, kids, zombies, newId>>
    PROVE  IndInv'
<1>0. /\ TypeOK /\ TableInv /\ TreeInv /\ WaitInv /\ NoLostChild /\ EndedHoldsNoFds /\ ReaperInv
      /\ UserIds \subseteq Ids /\ Reaper \in Ids /\ t \in Ids /\ t # Reaper
      /\ Reaper \notin UserIds /\ \A i \in UserIds : Reaper < i
  BY ConstantsAssumption DEF IndInv, UserIds, Ids, Reaper
<1>1. state'[t] = "Zombie"
  BY <1>0 DEF StatesAfterExit
<1>2. \A i \in Ids : i # t =>
        /\ state'[i] = "None" <=> state[i] = "None"
        /\ state'[i] = "Dead" <=> state[i] = "Dead"
        /\ state'[i] = "Zombie" <=> state[i] = "Zombie"
        /\ state'[i] \in Live <=> state[i] \in Live
        /\ state'[i] = "Blocked" =>
             state[i] = "Blocked" /\ ~ (i = parent[t] /\ waitBlocked[i])
  BY <1>0 DEF StatesAfterExit, Live
<1>3. \A i \in Ids : Alive(i)' <=> Alive(i) /\ i # t
  BY <1>0, <1>1, <1>2 DEF Alive, Live
<1>4. \A i \in UserIds : (i \in children[t]) <=> parent[i] = t /\ state[i] \notin {"None", "Dead"}
  BY <1>0 DEF TreeInv, ProcessTree
<1>5. /\ children'[t] = {} /\ children'[Reaper] = children[Reaper] \cup children[t]
      /\ \A p \in Ids : p # t /\ p # Reaper => children'[p] = children[p]
      /\ \A i \in Ids : parent'[i] = IF i \in children[t] THEN Reaper ELSE parent[i]
  BY <1>0 DEF Bury, TypeOK
<1>6. \A i \in Ids : state'[i] \in {"None", "Dead"} <=> state[i] \in {"None", "Dead"}
  BY <1>1, <1>2 DEF Alive
<1>7. ASSUME NEW i \in UserIds, NEW p \in Ids
      PROVE  (i \in children'[p]) <=>
                parent'[i] = p /\ Alive(p)' /\ state'[i] \notin {"None", "Dead"}
  <2>1. (i \in children[p]) <=> parent[i] = p /\ Alive(p) /\ state[i] \notin {"None", "Dead"}
    BY <1>0 DEF TreeInv, ProcessTree
  <2>2. CASE p = t
    BY <1>3, <1>5, <2>2
  <2>3. CASE p = Reaper
    <3>1. Alive(p)' /\ Alive(p)
      BY <1>0, <1>3, <2>3 DEF TreeInv
    <3>. QED  BY <1>0, <1>4, <1>5, <1>6, <2>1, <2>3, <3>1
  <2>4. CASE p # t /\ p # Reaper
    BY <1>0, <1>3, <1>4, <1>5, <1>6, <2>1, <2>4
  <2>. QED  BY <2>2, <2>3, <2>4
<1>8. ASSUME NEW i \in UserIds, parent'[i] # NoTask, state'[i] \notin {"None", "Dead"}
      PROVE  Alive(parent[i])'
  <2>1. CASE i \in children[t]
    BY <1>0, <1>3, <1>5, <2>1 DEF TreeInv
  <2>2. CASE i \notin children[t]
    <3>1. parent'[i] = parent[i] /\ parent[i] # t
      BY <1>0, <1>4, <1>5, <1>6, <1>8, <2>2
    <3>2. parent[i] \in Ids /\ Alive(parent[i])
      BY <1>0, <1>6, <1>8, <3>1 DEF TreeInv, ProcessTree, TypeOK
    <3>. QED  BY <1>3, <3>1, <3>2
  <2>. QED  BY <2>1, <2>2
<1>9. TreeInv'
  <2>1. ProcessTree'
    BY <1>7, <1>8 DEF ProcessTree
  <2>2. \A i \in Ids : /\ parent'[i] \in UserIds \cup {Reaper, NoTask} /\ parent'[i] < i
                       /\ state'[i] = "None" => parent'[i] = NoTask
    <3>1. \A i \in children[t] : i \in UserIds /\ state[i] # "None"
      BY <1>0, <1>4 DEF TypeOK
    <3>2. \A i \in Ids : state'[i] = "None" => state[i] = "None"
      BY <1>1, <1>2
    <3>. QED  BY <1>0, <1>5, <3>1, <3>2 DEF TreeInv
  <2>3. Alive(Reaper)'
    BY <1>0, <1>3 DEF TreeInv
  <2>. QED  BY <2>1, <2>2, <2>3 DEF TreeInv
<1>10. TableInv'
  <2>1. \A i \in Ids : state'[i] = "None" <=> state[i] = "None"
    BY <1>1, <1>2 DEF Alive
  <2>. QED  BY <1>0, <2>1 DEF TableInv
<1>11. WaitInv'
  BY <1>0, <1>1, <1>2 DEF WaitInv
<1>12. NoLostChild'
  <2>1. ASSUME NEW i \in UserIds, state'[i] = "Blocked", pc'[i] = "wait"
        PROVE  /\ children'[i] = children[i] /\ children[i] # {}
               /\ \A c \in children[i] : state'[c] # "Zombie"
    <3>1. i # t /\ i # Reaper /\ i \in Ids /\ state[i] = "Blocked" /\ waitBlocked[i] /\ i # parent[t]
      BY <1>0, <1>1, <1>2, <2>1 DEF WaitInv
    <3>2. children'[i] = children[i] /\ t \notin children[i]
      BY <1>0, <1>5, <3>1 DEF TreeInv, ProcessTree
    <3>3. children[i] # {} /\ \A c \in children[i] : state[c] # "Zombie" /\ c \in Ids /\ c # t
      BY <1>0, <2>1, <3>1, <3>2 DEF NoLostChild, NoZombieChild, TypeOK
    <3>. QED  BY <1>2, <3>2, <3>3
  <2>. QED  BY <2>1 DEF NoLostChild, NoZombieChild
<1>13. EndedHoldsNoFds'
  BY <1>0, <1>2 DEF EndedHoldsNoFds, Bury
<1>14. ReaperInv'
  <2>1. ASSUME pc'[Reaper] \in {"reap", "clean"}, NEW c \in zombies'
        PROVE  c \in children'[Reaper] /\ state'[c] = "Zombie"
    <3>1. c \in children[Reaper] /\ state[c] = "Zombie" /\ c \in Ids
      BY <1>0, <2>1 DEF ReaperInv, TypeOK
    <3>. QED  BY <1>1, <1>2, <1>5, <3>1
  <2>. QED  BY <1>0, <1>5, <2>1 DEF ReaperInv
<1>. QED  BY <1>9, <1>10, <1>11, <1>12, <1>13, <1>14 DEF IndInv

\* The current task collects its zombie child c.
LEMMA ReapKeeps ==
    ASSUME IndInv, TypeOK', ReaperInv', NEW c \in UserIds, state[c] = "Zombie",
           c \in children[Cur],
           children' = [children EXCEPT ![Cur] = @ \ {c}],
           state' = [state EXCEPT ![c] = "Dead"],
           UNCHANGED <<tasks, current, nextId, parent, newId>>, fds' \subseteq fds,
           pc'[Loader] = pc[Loader],
           \A i \in UserIds : pc'[i] = "wait" => pc[i] = "wait",
           \A i \in UserIds : i # Cur => waitBlocked'[i] = waitBlocked[i]
    PROVE  IndInv'
<1>0. /\ TypeOK /\ OneRunning /\ TableInv /\ TreeInv /\ WaitInv /\ NoLostChild /\ EndedHoldsNoFds
      /\ UserIds \subseteq Ids /\ Reaper \in Ids /\ c \in Ids /\ Cur' = Cur /\ Idle \in Ids
  BY ConstantsAssumption DEF IndInv, UserIds, Ids, Reaper, Cur, Idle
<1>a. Cur \in Ids /\ state[Cur] = "Running" /\ c # Cur
  <2>1. Cur \in Ids
    BY <1>0 DEF TypeOK, Cur
  <2>. QED  BY <1>0, <2>1 DEF OneRunning
<1>1. state'[c] = "Dead" /\ \A i \in Ids : i # c => state'[i] = state[i]
  BY <1>0 DEF TypeOK
<1>2. OneRunning'
  BY <1>0, <1>1 DEF OneRunning
<1>3. \A i \in Ids : Alive(i)' <=> Alive(i)
  BY <1>1 DEF Alive
<1>4. parent[c] = Cur
  BY <1>0, <1>a DEF TreeInv, ProcessTree
<1>5. \A p \in Ids : children'[p] = IF p = Cur THEN children[p] \ {c} ELSE children[p]
  BY <1>0 DEF TypeOK
<1>6. ASSUME NEW i \in UserIds, NEW p \in Ids
      PROVE  (i \in children'[p]) <=>
                parent'[i] = p /\ Alive(p)' /\ state'[i] \notin {"None", "Dead"}
  <2>1. (i \in children[p]) <=> parent[i] = p /\ Alive(p) /\ state[i] \notin {"None", "Dead"}
    BY <1>0 DEF TreeInv, ProcessTree
  <2>2. CASE i = c
    BY <1>1, <1>4, <1>5, <2>1, <2>2
  <2>3. CASE i # c
    BY <1>0, <1>1, <1>3, <1>5, <2>1, <2>3
  <2>. QED  BY <2>2, <2>3
<1>7. ASSUME NEW i \in UserIds, parent'[i] # NoTask, state'[i] \notin {"None", "Dead"}
      PROVE  Alive(parent[i])'
  <2>1. parent'[i] = parent[i] /\ parent[i] \in Ids /\ Alive(parent[i])
    BY <1>0, <1>1, <1>7 DEF TreeInv, ProcessTree, TypeOK
  <2>. QED  BY <1>3, <2>1
<1>8. TreeInv'
  <2>1. ProcessTree'
    BY <1>6, <1>7 DEF ProcessTree
  <2>2. \A i \in Ids : state'[i] = "None" => state[i] = "None"
    BY <1>1
  <2>3. Alive(Reaper)'
    BY <1>0, <1>3 DEF TreeInv
  <2>. QED  BY <1>0, <2>1, <2>2, <2>3 DEF TreeInv
<1>9. TableInv'
  <2>1. \A i \in Ids : state'[i] = "None" <=> state[i] = "None"
    BY <1>1
  <2>. QED  BY <1>0, <2>1 DEF TableInv
<1>10. \A i \in UserIds : state'[i] = "Blocked" /\ pc'[i] = "wait" =>
         i # Cur /\ state[i] = "Blocked" /\ pc[i] = "wait"
  BY <1>0, <1>a, <1>1
<1>11. WaitInv'
  BY <1>0, <1>10 DEF WaitInv
<1>12. NoLostChild'
  <2>1. ASSUME NEW i \in UserIds, state'[i] = "Blocked", pc'[i] = "wait"
        PROVE  /\ children'[i] = children[i] /\ children[i] # {}
               /\ \A k \in children[i] : state'[k] # "Zombie"
    <3>1. i # Cur /\ children'[i] = children[i]
      BY <1>0, <1>5, <1>10, <2>1
    <3>2. children[i] # {} /\ \A k \in children[i] : state[k] # "Zombie"
      BY <1>0, <1>10, <2>1 DEF NoLostChild, NoZombieChild
    <3>3. \A k \in children[i] : k \in Ids
      BY <1>0 DEF TypeOK
    <3>. QED  BY <1>1, <3>1, <3>2, <3>3
  <2>. QED  BY <2>1 DEF NoLostChild, NoZombieChild
<1>13. EndedHoldsNoFds'
  BY <1>0, <1>1 DEF EndedHoldsNoFds
<1>. QED  BY <1>2, <1>8, <1>9, <1>11, <1>12, <1>13 DEF IndInv

\* The loader retires itself; nothing else depends on it.
LEMMA LoaderKeeps ==
    ASSUME IndInv, TypeOK', Cur = Loader, pc[Loader] = "load",
           Schedule([state EXCEPT ![Loader] = "Dead"]),
           UNCHANGED <<tasks, nextId, parent, children, waitBlocked, pc, kids, zombies, newId, fds>>
    PROVE  IndInv'
<1>0. /\ TypeOK /\ OneRunning /\ TableInv /\ TreeInv /\ WaitInv /\ NoLostChild /\ EndedHoldsNoFds
      /\ ReaperInv /\ UserIds \subseteq Ids /\ Reaper \in Ids /\ Loader \in Ids /\ Idle \in Ids
      /\ Loader \notin UserIds \cup {Reaper, Idle, NoTask} /\ "Dead" \in States \ {"Running"}
  BY ConstantsAssumption DEF IndInv, UserIds, Ids, Reaper, Loader, Idle, NoTask, States
<1>1. Switched([state EXCEPT ![Loader] = "Dead"])
  BY <1>0, StopSwitches
<1>2. state[Loader] = "Running" /\ state'[Loader] = "Dead"
  BY <1>0, <1>1 DEF OneRunning, Switched, TypeOK
<1>3. \A i \in Ids : i # Loader =>
        \/ state'[i] = state[i]
        \/ state'[i] \in {"Running", "Runnable"} /\ state[i] \in {"Running", "Runnable"}
  BY <1>0, <1>1 DEF Switched, TypeOK
<1>4. OneRunning'
  BY <1>0, <1>1 DEF OneRunning, Switched, Cur, TypeOK
<1>5. \A i \in Ids : state'[i] = "None" <=> state[i] = "None"
  BY <1>2, <1>3
<1>6. \A i \in Ids : i # Loader => (Alive(i)' <=> Alive(i))
  BY <1>3 DEF Alive
<1>7. \A i \in UserIds : /\ state'[i] = "Dead" <=> state[i] = "Dead"
                         /\ state'[i] = "Zombie" <=> state[i] = "Zombie"
                         /\ state'[i] = "Blocked" <=> state[i] = "Blocked"
                         /\ i \in Ids /\ i # Loader
  BY <1>0, <1>3
<1>8. TableInv'
  BY <1>0, <1>5 DEF TableInv
<1>9. \A i \in UserIds : parent[i] # Loader
  BY <1>0 DEF TreeInv
<1>10. ASSUME NEW i \in UserIds, NEW p \in Ids
       PROVE  (i \in children'[p]) <=>
                 parent'[i] = p /\ Alive(p)' /\ state'[i] \notin {"None", "Dead"}
  <2>1. (i \in children[p]) <=> parent[i] = p /\ Alive(p) /\ state[i] \notin {"None", "Dead"}
    BY <1>0 DEF TreeInv, ProcessTree
  <2>. QED  BY <1>5, <1>6, <1>7, <1>9, <2>1
<1>11. ASSUME NEW i \in UserIds, parent'[i] # NoTask, state'[i] \notin {"None", "Dead"}
       PROVE  Alive(parent[i])'
  <2>1. parent[i] \in Ids /\ Alive(parent[i]) /\ parent[i] # Loader
    BY <1>0, <1>5, <1>7, <1>9, <1>11 DEF TreeInv, ProcessTree, TypeOK
  <2>. QED  BY <1>6, <2>1
<1>12. TreeInv'
  <2>1. ProcessTree'
    BY <1>10, <1>11 DEF ProcessTree
  <2>2. Alive(Reaper)'
    BY <1>0, <1>6 DEF TreeInv
  <2>. QED  BY <1>0, <1>5, <2>1, <2>2 DEF TreeInv
<1>13. WaitInv' /\ EndedHoldsNoFds'
  BY <1>0, <1>7 DEF WaitInv, EndedHoldsNoFds
<1>14. NoLostChild'
  <2>1. \A i \in UserIds : \A c \in children[i] : c \in UserIds
    BY <1>0, <1>7 DEF TypeOK
  <2>. QED  BY <1>0, <1>7, <2>1 DEF NoLostChild, NoZombieChild
<1>15. ReaperInv'
  <2>1. \A c \in zombies : c \in UserIds
    BY <1>0 DEF TypeOK
  <2>2. ASSUME pc'[Reaper] \in {"reap", "clean"}, NEW c \in zombies'
        PROVE  c \in children'[Reaper] /\ state'[c] = "Zombie"
    BY <1>0, <1>7, <2>1, <2>2 DEF ReaperInv
  <2>. QED  BY <1>0, <2>2 DEF ReaperInv
<1>. QED  BY <1>4, <1>8, <1>12, <1>13, <1>14, <1>15 DEF IndInv

\* A sleeping task is made runnable.
LEMMA WakeKeeps ==
    ASSUME IndInv, TypeOK', NEW t \in UserIds, Alive(t),
           state' = [state EXCEPT ![t] = IF @ = "Blocked" THEN "Runnable" ELSE @],
           UNCHANGED <<tasks, current, nextId, parent, children, waitBlocked, pc, kids,
                       zombies, newId, fds>>
    PROVE  IndInv'
<1>0. TypeOK /\ OneRunning /\ TableInv /\ t \in Ids /\ UserIds \subseteq Ids /\ Cur' = Cur /\ Idle \in Ids
  BY ConstantsAssumption DEF IndInv, UserIds, Ids, Cur, Idle
<1>1. /\ \A i \in Ids : i # t => state'[i] = state[i]
      /\ state'[t] = IF state[t] = "Blocked" THEN "Runnable" ELSE state[t]
  BY <1>0 DEF TypeOK
<1>2. Calm
  BY <1>0, <1>1 DEF Calm, Live, Alive
<1>3. OneRunning'
  BY <1>0, <1>1 DEF OneRunning
<1>4. ReaperInv'
  BY <1>2, ReaperUnmoved
<1>5. \A i \in UserIds : state'[i] = "Blocked" => state[i] = "Blocked"
  BY <1>0, <1>1
<1>6. pc'[Loader] \in {"fds", "add"} =>
        newId' \in UserIds /\ newId' < nextId' /\ state'[newId'] = "None"
  BY <1>0, <1>2 DEF TableInv, Calm, Live
<1>7. nextId' >= nextId
  BY <1>0 DEF TypeOK
<1>. QED  BY <1>2, <1>3, <1>4, <1>5, <1>6, <1>7, CalmKeeps

\* A system call of program i that touches neither the table nor the tree.
LEMMA CallKeeps ==
    ASSUME IndInv, TypeOK', NEW i \in UserIds,
           pc' = pc \/ \E l \in {"user", "exec"} : pc' = [pc EXCEPT ![i] = l],
           UNCHANGED <<tasks, current, nextId, state, parent, children, waitBlocked, kids,
                       zombies, newId, fds>>
    PROVE  IndInv'
<1>0. /\ TypeOK /\ TableInv /\ i # Loader /\ i # Reaper /\ i \in Ids /\ UserIds \subseteq Ids
      /\ Loader \in Ids /\ Reaper \in Ids
  BY ConstantsAssumption DEF IndInv, UserIds, Ids, Loader, Reaper
<1>1. /\ pc'[Loader] = pc[Loader] /\ pc'[Reaper] = pc[Reaper]
      /\ \A j \in UserIds : pc'[j] = "wait" => pc[j] = "wait"
  BY <1>0 DEF TypeOK
<1>2. ReaperInv'
  BY <1>1, ReaperUnmoved DEF Calm
<1>3. nextId' >= nextId
  BY <1>0 DEF TypeOK
<1>. QED  BY <1>0, <1>1, <1>2, <1>3, QuietKeeps DEF TableInv

\* A task yields; neither init nor the loader moves on.
LEMMA PassKeeps ==
    ASSUME IndInv, TypeOK', Schedule(state),
           pc' = pc \/ \E i \in UserIds, l \in {"yield", "sleep"} : pc' = [pc EXCEPT ![i] = l],
           UNCHANGED <<tasks, nextId, parent, children, waitBlocked, kids, zombies, newId, fds>>
    PROVE  IndInv'
<1>0. /\ TypeOK /\ UserIds \subseteq Ids /\ Loader \in Ids /\ Reaper \in Ids
      /\ Loader \notin UserIds /\ Reaper \notin UserIds
  BY ConstantsAssumption DEF IndInv, UserIds, Ids, Loader, Reaper
<1>1. /\ pc'[Loader] = pc[Loader] /\ pc'[Reaper] = pc[Reaper]
      /\ \A j \in UserIds : pc'[j] = "wait" => pc[j] = "wait"
  BY <1>0 DEF TypeOK
<1>2. Calm
  BY YieldSwitches DEF Switched, Calm, Live
<1>3. ReaperInv'
  BY <1>1, <1>2, ReaperUnmoved
<1>. QED  BY <1>1, <1>3, YieldKeeps

\* A new program enters the table (do_fork, add_task).
LEMMA AddKeeps ==
    ASSUME IndInv, TypeOK', NEW x \in UserIds, state[x] = "None",
           x < nextId', nextId' >= nextId,
           tasks' = Append(tasks, x), current' = current,
           state' = [state EXCEPT ![x] = "Runnable"],
           NEW q \in UserIds \cup {NoTask}, q # NoTask => q = Cur /\ q < x,
           parent' = [parent EXCEPT ![x] = q],
           \A p \in Ids : children'[p] = IF p = q THEN children[p] \cup {x} ELSE children[p],
           UNCHANGED <<waitBlocked, kids, zombies, newId>>,
           \A i \in UserIds \cup {Reaper} : pc'[i] = pc[i],
           pc'[Loader] \in {"fds", "add"} => pc[Loader] \in {"fds", "add"} /\ newId # x,
           \A i \in fds' : i \in fds \/ i = x
    PROVE  IndInv'
<1>1. pc'[Loader] \in {"fds", "add"} =>
        newId' \in UserIds /\ newId' < nextId' /\ state[newId'] = "None" /\ newId' # x
  <2>1. TableInv /\ nextId \in Int /\ nextId' \in Int
    BY DEF IndInv, TypeOK
  <2>2. newId \in UserIds /\ newId < nextId => newId < nextId'
    BY <2>1 DEF UserIds
  <2>. QED  BY <2>1, <2>2 DEF TableInv
<1>2. OneRunning' /\ TableInv'
  BY <1>1, BirthTable
<1>. QED  BY <1>2, BirthKeeps

\* One scan of do_wait.
LEMMA WaitKeeps ==
    ASSUME IndInv, TypeOK', Cur \in UserIds, WaitScan(Cur),
           UNCHANGED <<handlers, restorer, reaperVars, newId, windows, machine>>
    PROVE  IndInv'
<1>. DEFINE i == Cur
<1>0. /\ TypeOK /\ TableInv /\ TreeInv /\ ReaperInv /\ i \in Ids /\ i # Loader /\ i # Reaper /\ Loader \in Ids /\ Reaper \in Ids
      /\ UserIds \subseteq Ids /\ UNCHANGED <<kids, zombies, newId>>
  BY ConstantsAssumption DEF IndInv, UserIds, Ids, Loader, Reaper, reaperVars
<1>1. CASE /\ pc' = [pc EXCEPT ![i] = "user"]
           /\ waitBlocked' = [waitBlocked EXCEPT ![i] = FALSE]
           /\ UNCHANGED <<schedVars, state, treeVars, fds>>
  <2>1. UNCHANGED <<tasks, current, nextId, state, parent, children, fds>>
    BY <1>1 DEF schedVars, treeVars
  <2>2. /\ pc'[Loader] = pc[Loader] /\ pc'[Reaper] = pc[Reaper]
        /\ \A j \in UserIds : pc'[j] = "wait" => pc[j] = "wait"
    BY <1>0, <1>1 DEF TypeOK
  <2>3. \A j \in UserIds : j # Cur => waitBlocked'[j] = waitBlocked[j]
    BY <1>0, <1>1 DEF TypeOK
  <2>4. ReaperInv'
    BY <1>0, <2>1, <2>2, ReaperUnmoved DEF Calm
  <2>5. nextId' >= nextId
    BY <1>0, <2>1 DEF TypeOK
  <2>. QED  BY <1>0, <2>1, <2>2, <2>3, <2>4, <2>5, QuietKeeps DEF TableInv
<1>2. ASSUME NEW c \in children[i], state[c] = "Zombie",
             children' = [children EXCEPT ![i] = @ \ {c}],
             state' = [state EXCEPT ![c] = "Dead"],
             fds' = fds \ {c},
             pc' = [pc EXCEPT ![i] = "user"],
             waitBlocked' = [waitBlocked EXCEPT ![i] = FALSE],
             UNCHANGED <<schedVars, parent, exitStatus>>
      PROVE  IndInv'
  <2>1. UNCHANGED <<tasks, current, nextId, parent>> /\ c \in UserIds /\ c \in Ids
    BY <1>0, <1>2 DEF schedVars, TypeOK
  <2>2. /\ pc'[Loader] = pc[Loader] /\ pc'[Reaper] = pc[Reaper]
        /\ \A j \in UserIds : pc'[j] = "wait" => pc[j] = "wait"
    BY <1>0, <1>2 DEF TypeOK
  <2>3. \A j \in UserIds : j # Cur => waitBlocked'[j] = waitBlocked[j]
    BY <1>0, <1>2 DEF TypeOK
  <2>4. children'[Reaper] = children[Reaper] /\ c \notin children[Reaper]
    BY <1>0, <1>2, <2>1 DEF TypeOK, TreeInv, ProcessTree
  <2>5. \A z \in Ids : z # c => state'[z] = state[z]
    BY <1>0, <1>2 DEF TypeOK
  <2>6. ASSUME pc'[Reaper] \in {"reap", "clean"}, NEW z \in zombies'
        PROVE  z \in children'[Reaper] /\ state'[z] = "Zombie"
    <3>1. z \in children[Reaper] /\ state[z] = "Zombie" /\ z \in Ids
      BY <1>0, <2>2, <2>6 DEF ReaperInv, TypeOK
    <3>. QED  BY <2>4, <2>5, <3>1
  <2>7. ReaperInv'
    BY <1>0, <2>2, <2>4, <2>6 DEF ReaperInv
  <2>8. fds' \subseteq fds
    BY <1>2
  <2>. QED  BY <1>0, <1>2, <2>1, <2>2, <2>3, <2>7, <2>8, ReapKeeps
<1>3. CASE /\ children[i] # {} /\ NoZombieChild(i)
           /\ waitBlocked' = [waitBlocked EXCEPT ![i] = TRUE]
           /\ pc' = [pc EXCEPT ![i] = "wait"]
           /\ Schedule([state EXCEPT ![i] = "Blocked"])
           /\ UNCHANGED <<tasks, nextId, treeVars, pending, saved, fds>>
  <2>1. UNCHANGED <<tasks, nextId, parent, children, fds>>
    BY <1>3 DEF treeVars
  <2>. QED  BY <1>0, <1>3, <2>1, SleepKeeps
<1>. QED  BY <1>1, <1>2, <1>3 DEF WaitScan

\* do_exit.
LEMMA ExitKeeps ==
    ASSUME IndInv, TypeOK', Cur \in UserIds, NEW status, DoExit(Cur, status)
    PROVE  IndInv'
<1>0. TypeOK /\ OneRunning /\ Cur # Idle /\ Cur \in Ids /\ Idle \in Ids
  BY ConstantsAssumption DEF IndInv, UserIds, Ids, Idle
<1>1. Switched(StatesAfterExit(Cur))
  BY <1>0, ExitSwitches DEF DoExit
<1>2. UNCHANGED <<tasks, nextId, waitBlocked, pc, kids, zombies, newId>> /\ Bury(Cur, status)
  BY DEF DoExit, reaperVars
<1>3. Alive(Cur)
  BY <1>0 DEF OneRunning, Alive
<1>4. StatesAfterExit(Cur)[Idle] \in {"Running", "Runnable"}
  BY <1>0 DEF OneRunning, StatesAfterExit
<1>5. OneRunning'
  BY <1>0, <1>1, <1>2, <1>4 DEF OneRunning, Switched, Cur
<1>. QED  BY <1>1, <1>2, <1>3, <1>5, DeathKeeps DEF Switched

-----------------------------------------------------------------------------
(* The theorems *)

\* Every step keeps the inductive invariant.
LEMMA IndInvStep ==
    ASSUME IndInv, [Next]_vars
    PROVE  IndInv'
<1>. USE ConstantsAssumption
<1>0. /\ TypeOK' /\ TypeOK /\ TableInv /\ ReaperInv /\ TreeInv
      /\ UserIds \subseteq Ids /\ Loader \in Ids /\ Reaper \in Ids /\ Loader # Reaper
      /\ Loader \notin UserIds /\ Reaper \notin UserIds
  BY TypeStep DEF IndInv, UserIds, Ids, Loader, Reaper
<1>1. CASE TimerTick
  BY <1>0, <1>1, PassKeeps DEF TimerTick, schedVars, treeVars, sigVars, reaperVars
<1>2. CASE IdleYield
  BY <1>0, <1>2, PassKeeps DEF IdleYield, schedVars, treeVars, sigVars, reaperVars
<1>3. CASE LoaderYield
  BY <1>0, <1>3, PassKeeps DEF LoaderYield, schedVars, treeVars, sigVars, reaperVars
<1>4. ASSUME NEW i \in UserIds, SysOther(i)
      PROVE  IndInv'
  BY <1>0, <1>4, CallKeeps DEF SysOther, schedVars, treeVars, sigVars, reaperVars
<1>5. ASSUME NEW i \in UserIds, NEW sig \in Signals, NEW h \in Handlers, NEW r \in BOOLEAN, SysSignal(i, sig, h, r)
      PROVE  IndInv'
  BY <1>0, <1>5, CallKeeps DEF SysSignal, schedVars, treeVars, sigVars, reaperVars
<1>6. ASSUME NEW i \in UserIds, SysSigreturn(i)
      PROVE  IndInv'
  BY <1>0, <1>6, CallKeeps DEF SysSigreturn, schedVars, treeVars, sigVars, reaperVars
<1>7. ASSUME NEW i \in UserIds, SysWindow(i)
      PROVE  IndInv'
  BY <1>0, <1>7, CallKeeps DEF SysWindow, schedVars, treeVars, sigVars, reaperVars
<1>8. ASSUME NEW i \in UserIds, SysExec(i)
      PROVE  IndInv'
  BY <1>0, <1>8, CallKeeps DEF SysExec, schedVars, treeVars, sigVars, reaperVars
<1>9. ASSUME NEW i \in UserIds, ExecDone(i)
      PROVE  IndInv'
  BY <1>0, <1>9, CallKeeps DEF ExecDone, schedVars, treeVars, sigVars, reaperVars
<1>10. ASSUME NEW i \in UserIds, ExecFail(i)
      PROVE  IndInv'
  BY <1>0, <1>10, CallKeeps DEF ExecFail, schedVars, treeVars, sigVars, reaperVars
<1>11. ASSUME NEW i \in UserIds, YieldReturn(i)
      PROVE  IndInv'
  BY <1>0, <1>11, CallKeeps DEF YieldReturn, schedVars, treeVars, sigVars, reaperVars
<1>12. ASSUME NEW i \in UserIds, ReadReturn(i)
      PROVE  IndInv'
  BY <1>0, <1>12, CallKeeps DEF ReadReturn, schedVars, treeVars, sigVars, reaperVars
<1>13. ASSUME NEW i \in UserIds, NEW call \in {"yield", "sleep"}, SysYield(i, call)
      PROVE  IndInv'
  BY <1>0, <1>13, PassKeeps DEF SysYield, schedVars, treeVars, sigVars, reaperVars
<1>14. ASSUME NEW i \in UserIds, SleepMore(i)
      PROVE  IndInv'
  BY <1>0, <1>14, PassKeeps DEF SleepMore, schedVars, treeVars, sigVars, reaperVars
<1>15. ASSUME NEW i \in UserIds, SysFork(i)
      PROVE  IndInv'
  <2>0. /\ nextId \in UserIds /\ state[nextId] = "None" /\ nextId' = nextId + 1 /\ Cur = i
        /\ nextId \in Int
    BY <1>0, <1>15 DEF SysFork, Syscall, TypeOK, TableInv, UserIds, Ids
  <2>1. CASE ReuseSlot
    <3>1. /\ UNCHANGED <<tasks, current, state, parent, children, waitBlocked, pc, kids, zombies, newId>>
          /\ fds' = fds \cup {nextId}
      BY <1>15, <2>1 DEF SysFork, ReuseSlot, treeVars, reaperVars
    <3>2. ReaperInv'
      BY <3>1, ReaperUnmoved DEF Calm
    <3>3. nextId' >= nextId /\ (newId \in UserIds /\ newId < nextId => newId < nextId')
      BY <2>0 DEF UserIds
    <3>. QED  BY <1>0, <2>0, <3>1, <3>2, <3>3, QuietKeeps DEF TableInv
  <2>2. CASE ~ReuseSlot
    <3>1. /\ tasks' = Append(tasks, nextId) /\ current' = current
          /\ state' = [state EXCEPT ![nextId] = "Runnable"]
          /\ parent' = [parent EXCEPT ![nextId] = i]
          /\ children' = [children EXCEPT ![i] = @ \cup {nextId}]
          /\ UNCHANGED <<waitBlocked, pc, kids, zombies, newId>>
          /\ fds' = fds \cup {nextId}
      BY <1>15, <2>2 DEF SysFork, reaperVars
    <3>2. \A p \in Ids : children'[p] = IF p = i THEN children[p] \cup {nextId} ELSE children[p]
      BY <1>0, <3>1 DEF TypeOK
    <3>3. i < nextId
      <4>1. state[i] = "Running"
        BY <1>0, <2>0 DEF IndInv, OneRunning
      <4>2. i \in Int /\ nextId \in Int /\ ~ (i >= nextId)
        BY <1>0, <2>0, <4>1 DEF TableInv, UserIds
      <4>. QED  BY <4>2
    <3>4. nextId < nextId' /\ nextId' >= nextId
      BY <2>0
    <3>5. pc[Loader] \in {"fds", "add"} => newId # nextId
      BY <1>0, <2>0 DEF TableInv, UserIds
    <3>6. i # NoTask
      BY DEF UserIds, NoTask
    <3>. QED  BY <1>0, <2>0, <3>1, <3>2, <3>3, <3>4, <3>5, <3>6, AddKeeps
  <2>. QED  BY <2>1, <2>2
<1>16. ASSUME NEW i \in UserIds, NEW status \in ExitCodes, SysExit(i, status)
      PROVE  IndInv'
  <2>1. Cur = i
    BY <1>16 DEF SysExit, Syscall
  <2>2. PICK code : DoExit(i, code)
    BY <1>16 DEF SysExit
  <2>. QED  BY <1>0, <2>1, <2>2, ExitKeeps
<1>17. ASSUME NEW i \in UserIds, UserFault(i)
      PROVE  IndInv'
  <2>1. Cur = i
    BY <1>17 DEF UserFault
  <2>2. PICK code : DoExit(i, code)
    BY <1>17 DEF UserFault
  <2>. QED  BY <1>0, <2>1, <2>2, ExitKeeps
<1>18. ASSUME NEW i \in UserIds, NEW sig \in Signals, KillSelf(i, sig)
      PROVE  IndInv'
  <2>1. Cur = i
    BY <1>18 DEF KillSelf, Syscall
  <2>2. PICK code : DoExit(i, code)
    BY <1>18 DEF KillSelf
  <2>. QED  BY <1>0, <2>1, <2>2, ExitKeeps
<1>19. ASSUME NEW i \in UserIds, NEW t \in UserIds, NEW sig \in Signals, KillChild(i, t, sig)
      PROVE  IndInv'
  <2>1. /\ Bury(t, 128 + sig) /\ Alive(t) /\ Cur = i /\ t # i
        /\ state' = StatesAfterExit(t)
        /\ UNCHANGED <<tasks, current, nextId, waitBlocked, pc, kids, zombies, newId>>
    BY <1>19 DEF KillChild, Syscall, schedVars, reaperVars
  <2>2. OneRunning'
    <3>1. Cur' = Cur /\ Idle \in Ids /\ Idle \notin UserIds /\ OneRunning
      BY <2>1 DEF Cur, Idle, Ids, UserIds, IndInv
    <3>2. state[i] = "Running"
      BY <1>0, <2>1, <3>1 DEF OneRunning
    <3>3. \A j \in Ids : state'[j] = "Running" <=> state[j] = "Running"
      BY <2>1, <3>1, <1>0 DEF StatesAfterExit, OneRunning
    <3>4. state'[Idle] = state[Idle]
      BY <2>1, <3>1 DEF StatesAfterExit, OneRunning
    <3>. QED  BY <2>1, <3>1, <3>3, <3>4 DEF OneRunning
  <2>. QED  BY <1>0, <2>1, <2>2, DeathKeeps
<1>20. ASSUME NEW i \in UserIds, NEW t \in UserIds, NEW sig \in Signals, KillCaught(i, t, sig)
      PROVE  IndInv'
  <2>1. /\ Alive(t) /\ state' = [state EXCEPT ![t] = IF @ = "Blocked" THEN "Runnable" ELSE @]
        /\ UNCHANGED <<tasks, current, nextId, parent, children, waitBlocked, pc, kids,
                       zombies, newId, fds>>
    BY <1>20 DEF KillCaught, schedVars, treeVars, reaperVars
  <2>. QED  BY <1>0, <2>1, WakeKeeps
<1>21. ASSUME NEW i \in UserIds, Unblock(i)
      PROVE  IndInv'
  <2>1. /\ Alive(i) /\ state' = [state EXCEPT ![i] = IF @ = "Blocked" THEN "Runnable" ELSE @]
        /\ UNCHANGED <<tasks, current, nextId, parent, children, waitBlocked, pc, kids,
                       zombies, newId, fds>>
    BY <1>0, <1>21 DEF Unblock, Alive, TypeOK, schedVars, treeVars, reaperVars
  <2>. QED  BY <1>0, <2>1, WakeKeeps
<1>22. ASSUME NEW i \in UserIds, SysWait(i)
      PROVE  IndInv'
  BY <1>0, <1>22, WaitKeeps DEF SysWait, Syscall
<1>23. ASSUME NEW i \in UserIds, WaitResume(i)
      PROVE  IndInv'
  BY <1>0, <1>23, WaitKeeps DEF WaitResume
<1>24. ASSUME NEW i \in UserIds, ReadBlock(i)
      PROVE  IndInv'
  BY <1>0, <1>24, BlockKeeps DEF ReadBlock, treeVars, reaperVars
<1>25. CASE ReapSnapshot
  <2>1. /\ UNCHANGED <<tasks, current, nextId, state, parent, children, waitBlocked, newId>>
        /\ fds' \subseteq fds
    BY <1>25 DEF ReapSnapshot, schedVars, treeVars, reaperVars
  <2>2. pc'[Loader] = pc[Loader] /\ \A j \in UserIds : pc'[j] = pc[j]
    BY <1>0, <1>25 DEF ReapSnapshot, TypeOK
  <2>3. ReaperInv'
    BY <1>0, <1>25, <2>1 DEF ReapSnapshot, ReaperAt, ReaperInv, TypeOK, treeVars, reaperVars
  <2>4. nextId' >= nextId
    BY <1>0, <2>1 DEF TypeOK
  <2>. QED  BY <1>0, <2>1, <2>2, <2>3, <2>4, QuietKeeps DEF TableInv
<1>26. CASE ReapFilter
  <2>1. /\ UNCHANGED <<tasks, current, nextId, state, parent, children, waitBlocked, newId>>
        /\ fds' \subseteq fds
    BY <1>26 DEF ReapFilter, schedVars, treeVars, reaperVars
  <2>2. pc'[Loader] = pc[Loader] /\ \A j \in UserIds : pc'[j] = pc[j]
    BY <1>0, <1>26 DEF ReapFilter, TypeOK
  <2>3. ReaperInv'
    BY <1>0, <1>26, <2>1 DEF ReapFilter, ReaperAt, ReaperInv, TypeOK, treeVars, reaperVars
  <2>4. nextId' >= nextId
    BY <1>0, <2>1 DEF TypeOK
  <2>. QED  BY <1>0, <2>1, <2>2, <2>3, <2>4, QuietKeeps DEF TableInv
<1>27. CASE ReapClean
  <2>1. /\ UNCHANGED <<tasks, current, nextId, state, parent, children, waitBlocked, newId>>
        /\ fds' \subseteq fds
    BY <1>27 DEF ReapClean, schedVars, treeVars, reaperVars
  <2>2. pc'[Loader] = pc[Loader] /\ \A j \in UserIds : pc'[j] = pc[j]
    BY <1>0, <1>27 DEF ReapClean, TypeOK
  <2>3. ReaperInv'
    BY <1>0, <1>27, <2>1 DEF ReapClean, ReaperAt, ReaperInv, TypeOK, treeVars, reaperVars
  <2>4. nextId' >= nextId
    BY <1>0, <2>1 DEF TypeOK
  <2>. QED  BY <1>0, <2>1, <2>2, <2>3, <2>4, QuietKeeps DEF TableInv
<1>28. ASSUME NEW c \in UserIds, ReapOne(c)
      PROVE  IndInv'
  <2>1. /\ UNCHANGED <<tasks, current, nextId, parent, waitBlocked, newId, fds>>
        /\ Cur = Reaper /\ c \in children[Reaper] /\ state[c] = "Zombie"
        /\ children' = [children EXCEPT ![Cur] = @ \ {c}]
        /\ state' = [state EXCEPT ![c] = "Dead"]
        /\ pc' = [pc EXCEPT ![Reaper] = "clean"] /\ zombies' = zombies \ {c} /\ pc[Reaper] = "reap"
    BY <1>0, <1>28 DEF ReapOne, ReaperAt, ReaperInv, schedVars, treeVars
  <2>2. /\ pc'[Loader] = pc[Loader] /\ pc'[Reaper] = "clean"
        /\ \A j \in UserIds : pc'[j] = pc[j]
    BY <1>0, <2>1 DEF TypeOK
  <2>3. ASSUME NEW z \in zombies'
        PROVE  z \in children'[Reaper] /\ state'[z] = "Zombie"
    <3>1. z \in children[Reaper] /\ state[z] = "Zombie" /\ z # c /\ z \in Ids
      BY <1>0, <2>1, <2>3 DEF ReaperInv, TypeOK
    <3>. QED  BY <1>0, <2>1, <3>1 DEF TypeOK
  <2>4. ReaperInv'
    BY <2>2, <2>3 DEF ReaperInv
  <2>. QED  BY <1>0, <2>1, <2>2, <2>4, ReapKeeps
<1>29. CASE ReapYield
  <2>1. pc'[Reaper] = "snapshot" /\ pc'[Loader] = pc[Loader] /\ \A j \in UserIds : pc'[j] = pc[j]
    BY <1>0, <1>29 DEF ReapYield, TypeOK
  <2>2. ReaperInv'
    BY <2>1 DEF ReaperInv
  <2>. QED  BY <1>0, <1>29, <2>1, <2>2, YieldKeeps DEF ReapYield, treeVars
<1>30. CASE SpawnId
  <2>1. /\ UNCHANGED <<tasks, current, state, parent, children, waitBlocked, kids, zombies, fds>>
        /\ nextId <= MaxId /\ newId' = nextId /\ nextId' = nextId + 1
    BY <1>30 DEF SpawnId, treeVars, reaperVars
  <2>2. pc'[Reaper] = pc[Reaper] /\ \A j \in UserIds : pc'[j] = pc[j]
    BY <1>0, <1>30 DEF SpawnId, TypeOK
  <2>3. newId' \in UserIds /\ newId' < nextId' /\ state'[newId'] = "None" /\ nextId' >= nextId
    BY <1>0, <2>1 DEF TypeOK, UserIds, Ids, TableInv
  <2>4. ReaperInv'
    BY <2>1, <2>2, ReaperUnmoved DEF Calm
  <2>. QED  BY <1>0, <2>1, <2>2, <2>3, <2>4, QuietKeeps
<1>31. CASE SpawnFds
  <2>1. /\ UNCHANGED <<tasks, current, nextId, state, parent, children, waitBlocked, kids, zombies, newId>>
        /\ fds' = fds \cup {newId} /\ pc[Loader] = "fds"
    BY <1>31 DEF SpawnFds, schedVars, treeVars, reaperVars
  <2>2. pc'[Reaper] = pc[Reaper] /\ \A j \in UserIds : pc'[j] = pc[j]
    BY <1>0, <1>31 DEF SpawnFds, TypeOK
  <2>3. newId' \in UserIds /\ newId' < nextId' /\ state'[newId'] = "None" /\ nextId' >= nextId
    BY <1>0, <2>1 DEF TypeOK, TableInv
  <2>4. ReaperInv'
    BY <2>1, <2>2, ReaperUnmoved DEF Calm
  <2>. QED  BY <1>0, <2>1, <2>2, <2>3, <2>4, QuietKeeps
<1>32. CASE SpawnAdd
  <2>0. /\ newId \in UserIds /\ newId < nextId /\ state[newId] = "None" /\ UNCHANGED <<nextId, fds>>
        /\ nextId' >= nextId
    BY <1>0, <1>32 DEF SpawnAdd, TableInv, TypeOK
  <2>1. CASE ReuseSlot
    <3>1. UNCHANGED <<tasks, current, state, parent, children, waitBlocked, pc, kids, zombies, newId>>
      BY <1>32, <2>1 DEF ReuseSlot, treeVars, reaperVars
    <3>2. ReaperInv'
      BY <3>1, ReaperUnmoved DEF Calm
    <3>. QED  BY <1>0, <2>0, <3>1, <3>2, QuietKeeps DEF TableInv
  <2>2. CASE ~ReuseSlot
    <3>1. /\ tasks' = Append(tasks, newId) /\ current' = current
          /\ state' = [state EXCEPT ![newId] = "Runnable"]
          /\ UNCHANGED <<parent, children, waitBlocked, kids, zombies, newId>>
          /\ pc' = [pc EXCEPT ![Loader] = "load"]
      BY <1>32, <2>2 DEF SpawnAdd, treeVars, reaperVars
    <3>2. parent[newId] = NoTask /\ newId \in Ids
      BY <1>0, <2>0 DEF TreeInv
    <3>3. parent' = [parent EXCEPT ![newId] = NoTask]
      BY <1>0, <3>1, <3>2 DEF TypeOK
    <3>4. pc'[Loader] = "load" /\ \A i \in UserIds \cup {Reaper} : pc'[i] = pc[i]
      BY <1>0, <3>1 DEF TypeOK
    <3>5. NoTask \notin Ids /\ NoTask \in UserIds \cup {NoTask}
      BY DEF NoTask, Ids
    <3>. QED  BY <1>0, <2>0, <3>1, <3>3, <3>4, <3>5, AddKeeps
  <2>. QED  BY <2>1, <2>2
<1>33. CASE LoaderExit
  BY <1>0, <1>33, LoaderKeeps DEF LoaderExit, treeVars, reaperVars
<1>34. CASE HltLoop \/ UNCHANGED vars
  <2>1. UNCHANGED vars
    BY <1>34 DEF HltLoop
  <2>. QED  BY <2>1 DEF vars, IndInv, TypeOK, OneRunning, Cur, TableInv, TreeInv, ProcessTree, Alive,
              WaitInv, NoLostChild, NoZombieChild, ReaperInv, EndedHoldsNoFds
<1>. QED
  BY <1>1, <1>2, <1>3, <1>4, <1>5, <1>6, <1>7, <1>8, <1>9, <1>10, <1>11, <1>12,
     <1>13, <1>14, <1>15, <1>16, <1>17, <1>18, <1>19, <1>20, <1>21, <1>22, <1>23,
     <1>24, <1>25, <1>26, <1>27, <1>28, <1>29, <1>30, <1>31, <1>32, <1>33, <1>34
     DEF Next, ProgramStep, ResumeStep, ReaperStep, LoaderStep

\* The boot state satisfies the inductive invariant.
LEMMA IndInvInit ==
    ASSUME Init
    PROVE  IndInv
<1>. USE ConstantsAssumption
<1>0. UserIds \subseteq Ids /\ Ids \subseteq Int /\ {Idle, Reaper, Loader} \subseteq Ids
  BY DEF UserIds, Ids, Idle, Reaper, Loader
<1>1. tasks \in Seq(Ids) /\ DOMAIN tasks = 1..3 /\ tasks[1] = 0 /\ tasks[2] = 1 /\ tasks[3] = 2
  BY <1>0 DEF Init, Idle, Reaper, Loader
<1>2. TypeOK
  <2>1. tasks \in Seq(Ids) /\ current \in DOMAIN tasks /\ nextId \in 3..(MaxId + 1)
    BY <1>1 DEF Init
  <2>2. /\ state \in [Ids -> States \cup {"None"}]
        /\ handlers \in [Ids -> [Signals -> Handlers]]
        /\ waitBlocked \in [Ids -> BOOLEAN] /\ restorer \in [Ids -> BOOLEAN]
        /\ saved \in [Ids -> BOOLEAN]
    BY DEF Init, States, Handlers
  <2>3. pc \in [Ids -> {"idle", "user", "wait", "yield", "sleep", "exec", "read", "load",
                        "fds", "add", "snapshot", "filter", "reap", "clean", "next"}]
    BY DEF Init
  <2>. QED  BY <1>0, <2>1, <2>2, <2>3 DEF Init, TypeOK
<1>3. OneRunning
  BY <1>0, <1>1 DEF Init, OneRunning, Cur, Idle, Reaper, Loader
<1>4. TableInv
  <2>1. \A i \in Ids : state[i] # "None" <=> i \in {0, 1, 2}
    BY DEF Init, Idle, Reaper, Loader
  <2>2. \A i \in Ids : (\E k \in DOMAIN tasks : tasks[k] = i) <=> i \in {0, 1, 2}
    <3>1. \A k \in DOMAIN tasks : k = 1 \/ k = 2 \/ k = 3
      BY <1>1
    <3>2. 1 \in DOMAIN tasks /\ 2 \in DOMAIN tasks /\ 3 \in DOMAIN tasks
      BY <1>1
    <3>. QED  BY <1>1, <3>1, <3>2
  <2>3. \A i \in Ids : i >= nextId => state[i] = "None"
    BY <1>0, <2>1 DEF Init
  <2>4. pc[Loader] = "load"
    BY <1>0 DEF Init, Idle, Reaper, Loader
  <2>. QED  BY <2>1, <2>2, <2>3, <2>4 DEF TableInv
<1>5. TreeInv
  BY <1>0 DEF Init, TreeInv, ProcessTree, Alive, Ids, UserIds, NoTask, Idle, Reaper, Loader
<1>6. WaitInv /\ NoLostChild /\ ReaperInv /\ EndedHoldsNoFds
  BY <1>0 DEF Init, WaitInv, NoLostChild, ReaperInv, EndedHoldsNoFds, UserIds, Idle, Reaper, Loader
<1>. QED  BY <1>2, <1>3, <1>4, <1>5, <1>6 DEF IndInv

\* The inductive invariant holds in every reachable state of the process core.
THEOREM Inductive == Spec => []IndInv
<1>1. Init => IndInv
  BY IndInvInit
<1>2. IndInv /\ [Next]_vars => IndInv'
  BY IndInvStep
<1>. QED  BY <1>1, <1>2, PTL DEF Spec

\* Every variable of the process core keeps its type.
THEOREM TypeCorrect == Spec => []TypeOK
<1>1. IndInv => TypeOK
  BY DEF IndInv
<1>. QED  BY <1>1, Inductive, PTL

\* schedule() always leaves exactly one task running, the one in the current
\* slot, and the idle task can always be switched to: the unreachable!() that
\* follows the schedule() of do_exit is never reached.
THEOREM SchedulerSound == Spec => []OneRunning
<1>1. IndInv => OneRunning
  BY DEF IndInv
<1>. QED  BY <1>1, Inductive, PTL

\* do_wait loses no wake-up: whatever exits, kills, faults and forks interleave
\* with it, a task asleep in wait() has children and none of them has ended.
THEOREM WaitSound == Spec => []NoLostChild
<1>1. IndInv => NoLostChild
  BY DEF IndInv
<1>. QED  BY <1>1, Inductive, PTL

\* do_fork, do_exit, terminate_task, do_wait and reap_orphans keep the parent and
\* children fields consistent with each other and with the task states.
THEOREM TreeSound == Spec => []ProcessTree
<1>1. IndInv => ProcessTree
  BY DEF IndInv, TreeInv
<1>. QED  BY <1>1, Inductive, PTL

\* A program that has ended, by exit, fault or kill, holds no file descriptors.
THEOREM FdsReleased == Spec => []EndedHoldsNoFds
<1>1. IndInv => EndedHoldsNoFds
  BY DEF IndInv
<1>. QED  BY <1>1, Inductive, PTL

\* A step that moves tasks only between the live states.
EndedUntouched ==
    \A i \in UserIds : state[i] \in {"Dead", "Zombie"} =>
        state'[i] = state[i] /\ exitStatus'[i] = exitStatus[i]

\* Such a step keeps EndsOnce.
LEMMA UntouchedEndsOnce ==
    ASSUME EndedUntouched
    PROVE  EndsOnceStep
BY DEF EndedUntouched, EndsOnceStep

\* The task collected is a child of the collecting one, and a zombie.
LEMMA CollectEndsOnce ==
    ASSUME IndInv, NEW c \in UserIds, c \in children[Cur],
           state' = [state EXCEPT ![c] = "Dead"], exitStatus' = exitStatus,
           children' = [children EXCEPT ![Cur] = @ \ {c}]
    PROVE  EndsOnceStep
<1>0. TypeOK /\ ProcessTree /\ UserIds \subseteq Ids
  BY ConstantsAssumption DEF IndInv, TreeInv, UserIds, Ids
<1>1. Cur \in Ids
  BY <1>0 DEF TypeOK, Cur
<1>2. parent[c] = Cur
  BY <1>0, <1>1 DEF ProcessTree
<1>3. c \notin children'[Cur]
  BY <1>0, <1>1 DEF TypeOK
<1>4. state'[c] = "Dead" /\ \A i \in UserIds : i # c => state'[i] = state[i]
  BY <1>0 DEF TypeOK
<1>. QED  BY <1>2, <1>3, <1>4 DEF EndsOnceStep

\* A switch that the current task enters alive touches no task that has ended.
LEMMA SwitchEndsOnce ==
    ASSUME NEW s, Switched(s), UserIds \subseteq Ids,
           \A i \in UserIds : state[i] \in {"Dead", "Zombie"} =>
               s[i] = state[i] /\ exitStatus'[i] = exitStatus[i]
    PROVE  EndsOnceStep
<1>1. EndedUntouched
  BY DEF EndedUntouched, Switched
<1>. QED  BY <1>1, UntouchedEndsOnce

\* A live program ends: the others that have ended are left alone.
LEMMA BurialUntouched ==
    ASSUME IndInv, NEW t \in UserIds, Alive(t), NEW status, Bury(t, status),
           NEW i \in UserIds, state[i] \in {"Dead", "Zombie"}
    PROVE  StatesAfterExit(t)[i] = state[i] /\ exitStatus'[i] = exitStatus[i]
<1>1. TypeOK /\ i \in Ids /\ t \in Ids /\ i # t
  BY ConstantsAssumption DEF IndInv, UserIds, Ids, Alive
<1>. QED  BY <1>1 DEF StatesAfterExit, Bury, TypeOK

\* No step brings an ended task back or takes its exit status away.
LEMMA EndsOnceNext ==
    ASSUME IndInv, Next
    PROVE  EndsOnceStep
<1>0. /\ TypeOK /\ OneRunning /\ TableInv /\ ReaperInv /\ UserIds \subseteq Ids
      /\ Idle \notin UserIds /\ Loader \notin UserIds
  BY ConstantsAssumption DEF IndInv, UserIds, Ids, Idle, Loader
<1>1. CASE UNCHANGED <<state, exitStatus>>
  BY <1>1, UntouchedEndsOnce DEF EndedUntouched
<1>2. CASE Schedule(state) /\ UNCHANGED exitStatus
  BY <1>0, <1>2, YieldSwitches, SwitchEndsOnce
<1>3. ASSUME Cur # Idle, NEW st \in {"Blocked", "Dead"},
             Schedule([state EXCEPT ![Cur] = st]), UNCHANGED exitStatus
      PROVE  EndsOnceStep
  <2>1. Switched([state EXCEPT ![Cur] = st])
    BY <1>3, StopSwitches DEF States
  <2>2. \A i \in UserIds : state[i] \in {"Dead", "Zombie"} => [state EXCEPT ![Cur] = st][i] = state[i]
    BY <1>0 DEF OneRunning, TypeOK
  <2>. QED  BY <1>0, <1>3, <2>1, <2>2, SwitchEndsOnce
<1>4. ASSUME NEW i \in UserIds, NEW status, Cur = i, DoExit(i, status)
      PROVE  EndsOnceStep
  <2>1. Switched(StatesAfterExit(i)) /\ Bury(i, status) /\ Alive(i)
    BY <1>0, <1>4, ExitSwitches DEF DoExit, Alive, OneRunning
  <2>. QED  BY <1>0, <2>1, BurialUntouched, SwitchEndsOnce
<1>5. ASSUME NEW i \in UserIds, NEW t \in UserIds, NEW sig \in Signals, KillChild(i, t, sig)
      PROVE  EndsOnceStep
  <2>1. Alive(t) /\ Bury(t, 128 + sig) /\ state' = StatesAfterExit(t)
    BY <1>5 DEF KillChild
  <2>. QED  BY <2>1, BurialUntouched, UntouchedEndsOnce DEF EndedUntouched
<1>6. ASSUME NEW t \in UserIds, state' = [state EXCEPT ![t] = IF @ = "Blocked" THEN "Runnable" ELSE @],
             UNCHANGED exitStatus
      PROVE  EndsOnceStep
  BY <1>0, <1>6, UntouchedEndsOnce DEF EndedUntouched, TypeOK
<1>7. ASSUME NEW x \in UserIds, state[x] = "None", state' = [state EXCEPT ![x] = "Runnable"],
             UNCHANGED exitStatus
      PROVE  EndsOnceStep
  BY <1>0, <1>7, UntouchedEndsOnce DEF EndedUntouched, TypeOK
<1>8. ASSUME NEW i \in UserIds, Cur = i, WaitScan(i)
      PROVE  EndsOnceStep
  <2>1. CASE UNCHANGED <<state, treeVars>>
    BY <1>1, <2>1 DEF treeVars
  <2>2. ASSUME NEW c \in children[i], children' = [children EXCEPT ![i] = @ \ {c}],
               state' = [state EXCEPT ![c] = "Dead"], exitStatus' = exitStatus
        PROVE  EndsOnceStep
    <3>1. c \in UserIds
      BY <1>0, <1>8, <2>2 DEF TypeOK
    <3>. QED  BY <1>8, <2>2, <3>1, CollectEndsOnce
  <2>3. CASE Schedule([state EXCEPT ![i] = "Blocked"]) /\ UNCHANGED treeVars
    BY <1>0, <1>3, <1>8, <2>3 DEF treeVars
  <2>. QED  BY <1>8, <2>1, <2>2, <2>3 DEF WaitScan
<1>9. ASSUME NEW i \in UserIds, ProgramStep(i)
      PROVE  EndsOnceStep
  <2>1. CASE SysOther(i) \/ SysSigreturn(i) \/ SysExec(i) \/ SysWindow(i)
    BY <1>1, <2>1 DEF SysOther, SysSigreturn, SysExec, SysWindow, treeVars
  <2>2. CASE \E sig \in Signals, h \in Handlers, r \in BOOLEAN : SysSignal(i, sig, h, r)
    BY <1>1, <2>2 DEF SysSignal, treeVars
  <2>3. CASE SysFork(i)
    <3>1. CASE ReuseSlot
      BY <1>1, <3>1 DEF ReuseSlot, treeVars
    <3>2. CASE ~ReuseSlot
      <4>1. nextId \in UserIds /\ state[nextId] = "None"
        BY <1>0, <2>3 DEF SysFork, TypeOK, UserIds, Ids, TableInv
      <4>2. state' = [state EXCEPT ![nextId] = "Runnable"] /\ UNCHANGED exitStatus
        BY <2>3, <3>2 DEF SysFork
      <4>. QED  BY <1>7, <4>1, <4>2
    <3>. QED  BY <3>1, <3>2
  <2>4. CASE \/ \E status \in ExitCodes : SysExit(i, status)
             \/ UserFault(i)
             \/ \E sig \in Signals : KillSelf(i, sig)
    BY <1>4, <2>4 DEF SysExit, UserFault, KillSelf, Syscall
  <2>5. CASE \E t \in UserIds, sig \in Signals : KillChild(i, t, sig)
    BY <1>5, <2>5
  <2>6. CASE \E t \in UserIds, sig \in Signals : KillCaught(i, t, sig)
    BY <1>6, <2>6 DEF KillCaught, treeVars
  <2>7. CASE SysWait(i)
    BY <1>8, <2>7 DEF SysWait, Syscall
  <2>8. CASE \E call \in {"yield", "sleep"} : SysYield(i, call)
    BY <1>2, <2>8 DEF SysYield, treeVars
  <2>9. CASE ReadBlock(i)
    BY <1>0, <1>3, <2>9 DEF ReadBlock, treeVars
  <2>. QED  BY <1>9, <2>1, <2>2, <2>3, <2>4, <2>5, <2>6, <2>7, <2>8, <2>9 DEF ProgramStep
<1>10. ASSUME NEW i \in UserIds, ResumeStep(i) \/ Unblock(i)
       PROVE  EndsOnceStep
  <2>1. CASE WaitResume(i)
    BY <1>8, <2>1 DEF WaitResume
  <2>2. CASE ExecDone(i) \/ ExecFail(i) \/ YieldReturn(i) \/ ReadReturn(i)
    BY <1>1, <2>2 DEF ExecDone, ExecFail, YieldReturn, ReadReturn, treeVars
  <2>3. CASE SleepMore(i)
    BY <1>2, <2>3 DEF SleepMore, treeVars
  <2>4. CASE Unblock(i)
    <3>1. state' = [state EXCEPT ![i] = IF @ = "Blocked" THEN "Runnable" ELSE @] /\ UNCHANGED exitStatus
      BY <1>0, <2>4 DEF Unblock, treeVars, TypeOK
    <3>. QED  BY <1>6, <3>1
  <2>. QED  BY <1>10, <2>1, <2>2, <2>3, <2>4 DEF ResumeStep
<1>11. CASE ReaperStep
  <2>1. CASE ReapSnapshot \/ ReapFilter \/ ReapClean
    BY <1>1, <2>1 DEF ReapSnapshot, ReapFilter, ReapClean, treeVars
  <2>2. ASSUME NEW c \in UserIds, ReapOne(c)
        PROVE  EndsOnceStep
    BY <1>0, <2>2, CollectEndsOnce DEF ReapOne, ReaperAt, ReaperInv
  <2>3. CASE ReapYield
    BY <1>2, <2>3 DEF ReapYield, treeVars
  <2>. QED  BY <1>11, <2>1, <2>2, <2>3 DEF ReaperStep
<1>12. CASE LoaderStep
  <2>1. CASE SpawnId \/ SpawnFds
    BY <1>1, <2>1 DEF SpawnId, SpawnFds, treeVars
  <2>2. CASE SpawnAdd
    <3>1. CASE ReuseSlot
      BY <1>1, <3>1 DEF ReuseSlot, treeVars
    <3>2. CASE ~ReuseSlot
      BY <1>0, <1>7, <2>2, <3>2 DEF SpawnAdd, TableInv, treeVars
    <3>. QED  BY <3>1, <3>2
  <2>3. CASE LoaderYield
    BY <1>2, <2>3 DEF LoaderYield, treeVars
  <2>4. CASE LoaderExit
    BY <1>0, <1>3, <2>4 DEF LoaderExit, treeVars, Loader, Idle
  <2>. QED  BY <1>12, <2>1, <2>2, <2>3, <2>4 DEF LoaderStep
<1>13. CASE TimerTick \/ IdleYield
  BY <1>2, <1>13 DEF TimerTick, IdleYield, treeVars
<1>14. CASE HltLoop
  BY <1>1, <1>14 DEF HltLoop, vars
<1>. QED  BY <1>9, <1>10, <1>11, <1>12, <1>13, <1>14 DEF Next

\* A task ends once: no step revives it or changes the status its parent will
\* collect, and only its parent retires it.
THEOREM EndingIsFinal == Spec => EndsOnce
<1>1. IndInv /\ [Next]_vars => [EndsOnceStep]_vars
  BY EndsOnceNext
<1>. QED  BY <1>1, Inductive, PTL DEF Spec, EndsOnce

=============================================================================
