---------------------------- MODULE StorageProofs ----------------------------
(***************************************************************************)
(* Proofs about Storage, for any number of tasks, blocks and pages of the   *)
(* DMA pool and any number of transfers: the pool is returned, and a        *)
(* transfer that reports success has moved its data.                        *)
(***************************************************************************)
EXTENDS Storage, FiniteSetTheorems, TLAPS

LEMMA InitInv == Init => StorageInv
<1> SUFFICES ASSUME Init PROVE StorageInv
  OBVIOUS
<1> USE StorageAssumption
<1>1. TypeOK
  <2>1. IsFiniteSet({}) /\ Cardinality({}) = 0
    BY FS_EmptySet
  <2>2. Data(0) \in Cells
    BY DEF Data, Cells
  <2>3. pc \in [Tasks -> Places] /\ NoReq \in Reqs /\ NoRun \in Runs
    BY DEF Init, Places, NoReq, NoRun, Reqs, Runs
  <2>4. next \in 0..POOL /\ mem \in [Pages -> Cells] /\ cache \in [Lbas -> Nat] /\ platter \in [Lbas -> Nat]
    BY <2>2 DEF Init
  <2>5. /\ port \in [up : BOOLEAN, base : 0..2, header : 0..POOL]
        /\ disk \in [ci : BOOLEAN, busy : BOOLEAN, err : BOOLEAN, halted : BOOLEAN, cmd : Cells]
    BY <2>2 DEF Init
  <2>6. req \in [Tasks -> Reqs] /\ run \in [Tasks -> Runs]
    BY <2>3 DEF Init
  <2> QED
    BY <2>1, <2>3, <2>4, <2>5, <2>6 DEF Init, TypeOK
<1>2. TransfersInv
  BY DEF Init, TransfersInv, TransferSound, InTransfer, Open, NoRun
<1>3. PoolInv
  BY DEF Init, PoolInv, Open
<1>4. DiskInv
  BY DEF Init, DiskInv, SessionSound
<1> QED
  BY <1>1, <1>2, <1>3, <1>4 DEF StorageInv

-----------------------------------------------------------------------------
(* Types *)

\* What a step leaves behind that Goto or Finish ends.
LEMMA GotoTypes ==
    ASSUME TypeOK, NEW t \in Tasks, NEW l \in Places, Goto(t, l)
    PROVE  pc' \in [Tasks -> Places] /\ cpu' \in Programs \cup {NoTask}
BY DEF TypeOK, Goto, KeepCpu

LEMMA FinishTypes ==
    ASSUME TypeOK, NEW t \in Tasks, Finish(t)
    PROVE  /\ pc' \in [Tasks -> Places] /\ cpu' \in Programs \cup {NoTask}
           /\ req' \in [Tasks -> Reqs] /\ run' \in [Tasks -> Runs]
<1>1. NoReq \in Reqs /\ NoRun \in Runs /\ "idle" \in Places
  BY StorageAssumption DEF NoReq, NoRun, Reqs, Runs, Places
<1> QED
  BY <1>1 DEF TypeOK, Finish

LEMMA AllocTypes ==
    ASSUME TypeOK, NEW c \in Cells, ~Exhausted, AllocDma(c)
    PROVE  next' \in 0..POOL /\ mem' \in [Pages -> Cells] /\ next \in Pages
BY StorageAssumption DEF TypeOK, AllocDma, Exhausted, Pages

LEMMA StepTypes ==
    ASSUME TypeOK, TransfersInv, NEW t \in Tasks, Step(t)
    PROVE  TypeOK'
<1> USE StorageAssumption
<1>p. \A l \in {"probe", "idle", "fs", "dev", "open", "submit", "ring", "poll", "close", "unlock", "fsheld"} :
        l \in Places
  BY DEF Places
<1>1. CASE Probe(t)
  <2>1. Goto(t, "open") /\ UNCHANGED <<lockVars, guardVars, known, diskVars, run, ops, overlapped, late, mem>>
    BY <1>1 DEF Probe
  <2>2. next' \in 0..POOL /\ port' \in [up : BOOLEAN, base : 0..2, header : 0..POOL]
    <3>1. next' = 2 /\ 2 \in 0..POOL /\ port' = [up |-> TRUE, base |-> 2, header |-> port.header]
      BY <1>1 DEF Probe
    <3>2. port \in [up : BOOLEAN, base : 0..2, header : 0..POOL]
      BY DEF TypeOK
    <3> QED BY <3>1, <3>2
  <2>3. req' \in [Tasks -> Reqs]
    <3>1. IdentifyReq("boot") \in Reqs
      BY DEF IdentifyReq, Reqs
    <3> QED BY <1>1, <3>1 DEF Probe, TypeOK
  <2> QED
    BY <2>1, <2>2, <2>3, GotoTypes, <1>p DEF TypeOK, lockVars, guardVars, diskVars
<1>2. CASE ProbeFails(t)
  <2>1. Goto(t, "idle") /\ UNCHANGED <<lockVars, guardVars, mem, known, diskVars, req, run, ops, overlapped, late>>
    BY <1>2 DEF ProbeFails
  <2>2. next' \in 0..POOL /\ port' \in [up : BOOLEAN, base : 0..2, header : 0..POOL]
    BY <1>2 DEF ProbeFails, TypeOK
  <2> QED
    BY <2>1, <2>2, GotoTypes, <1>p DEF TypeOK, lockVars, guardVars, diskVars
<1>3. CASE LockFs(t)
  BY <1>3, GotoTypes, <1>p DEF LockFs, Hang, TypeOK, lockVars, guardVars, diskVars, poolVars, taskVars
<1>4. CASE LockDevices(t)
  BY <1>4, GotoTypes, <1>p DEF LockDevices, TypeOK, guardVars, diskVars, poolVars
<1>5. CASE SpinOnDevices(t)
  BY <1>5 DEF SpinOnDevices, Hang, TypeOK, guardVars, diskVars, poolVars, taskVars
<1>6. CASE OpenSession(t)
  <2>1. UNCHANGED <<lockVars, guardVars, port, known, diskVars, req, ops, late>> /\ overlapped' \in BOOLEAN
    BY <1>6 DEF OpenSession, TypeOK
  <2>2. CASE Exhausted
    <3>1. Goto(t, "close") /\ UNCHANGED poolVars /\ run' = [run EXCEPT ![t].mark = next]
      BY <1>6, <2>2 DEF OpenSession
    <3>2. run' \in [Tasks -> Runs]
      BY <3>1 DEF TypeOK, Runs
    <3> QED
      BY <2>1, <3>1, <3>2, GotoTypes, <1>p DEF TypeOK, lockVars, guardVars, diskVars, poolVars
  <2>3. CASE ~Exhausted
    <3>1. /\ Goto(t, "submit") /\ AllocDma(Data(req[t].val))
          /\ run' = [run EXCEPT ![t].mark = next, ![t].page = next, ![t].cmd = req[t].kind]
          /\ pc[t] = "open"
      BY <1>6, <2>3 DEF OpenSession, At
    <3>2. run' \in [Tasks -> Runs]
      <4>1. req[t].kind \in Commands
        BY <3>1 DEF TransfersInv, TransferSound, InTransfer, UsesDevices, Identifies, Commands
      <4>2. [run[t] EXCEPT !.mark = next, !.page = next, !.cmd = req[t].kind] \in Runs
        BY <4>1, ZenonT(60) DEF TypeOK, Runs
      <4>3. run' = [run EXCEPT ![t] = [run[t] EXCEPT !.mark = next, !.page = next, !.cmd = req[t].kind]]
        BY <3>1 DEF TypeOK
      <4> QED BY <4>2, <4>3 DEF TypeOK
    <3>3. Data(req[t].val) \in Cells
      BY DEF TypeOK, Reqs, Data, Cells
    <3> QED
      BY <2>1, <2>3, <3>1, <3>2, <3>3, AllocTypes, GotoTypes, <1>p
      DEF TypeOK, lockVars, guardVars, diskVars
  <2> QED BY <2>2, <2>3
<1>7. CASE Submit(t)
  <2>1. /\ UNCHANGED <<lockVars, guardVars, known, diskVars, req, run, ops, overlapped, late>>
        /\ Goto(t, "ring") /\ AllocDma(Command(t)) /\ ~Exhausted /\ pc[t] = "submit"
        /\ port' = [port EXCEPT !.header = next]
    BY <1>7 DEF Submit, At, Command
  <2>2. Command(t) \in Cells
    BY <2>1 DEF TransfersInv, TransferSound, InTransfer, Open, TypeOK, Runs, Command, Table, Cells
  <2>3. port' \in [up : BOOLEAN, base : 0..2, header : 0..POOL]
    BY <2>1 DEF TypeOK
  <2> QED
    BY <2>1, <2>2, <2>3, AllocTypes, GotoTypes, <1>p DEF TypeOK, lockVars, guardVars, diskVars
<1>8. CASE SubmitFails(t) \/ RingFails(t) \/ PollFails(t)
  <2>1. Fail(t)
    BY <1>8 DEF SubmitFails, RingFails, PollFails
  <2> QED
    BY <2>1, GotoTypes, <1>p DEF Fail, Stay, TypeOK, lockVars, guardVars, diskVars, poolVars
<1>9. CASE Ring(t)
  <2>1. disk' \in [ci : BOOLEAN, busy : BOOLEAN, err : BOOLEAN, halted : BOOLEAN, cmd : Cells]
    BY <1>9 DEF Ring, TypeOK
  <2> QED
    BY <1>9, <2>1, GotoTypes, <1>p DEF Ring, TypeOK, lockVars, guardVars, poolVars
<1>10. CASE Poll(t)
  <2>1. UNCHANGED poolVars /\ Stay /\ AfterCommand(t) /\ pc[t] = "poll"
    BY <1>10 DEF Poll, At
  <2>2. run' \in [Tasks -> Runs] /\ pc' \in [Tasks -> Places] /\ cpu' \in Programs \cup {NoTask}
    <3>1. CASE run[t].cmd = "write"
      <4>1. run' = [run EXCEPT ![t].cmd = "flush"] /\ Goto(t, "submit")
        BY <2>1, <3>1 DEF AfterCommand
      <4>2. run' \in [Tasks -> Runs]
        BY <4>1 DEF TypeOK, Runs, Commands
      <4> QED BY <4>1, <4>2, GotoTypes, <1>p
    <3>2. CASE run[t].cmd # "write"
      <4>1. Succeed(t)
        BY <2>1, <3>2 DEF AfterCommand
      <4>2. Goto(t, "close")
        BY <4>1 DEF Succeed
      <4>3. mem[run[t].page].arg \in Nat
        BY <2>1 DEF TransfersInv, TransferSound, TypeOK, Cells, Lbas
      <4>4. run' \in [Tasks -> Runs]
        <5> DEFINE g == IF run[t].cmd = "read" THEN mem[run[t].page].arg ELSE 0
        <5>1. [run[t] EXCEPT !.ok = TRUE, !.got = g] \in Runs
          BY <4>3, ZenonT(60) DEF TypeOK, Runs
        <5>2. run' = [run EXCEPT ![t] = [run[t] EXCEPT !.ok = TRUE, !.got = g]]
          BY <4>1 DEF Succeed, TypeOK
        <5> QED BY <5>1, <5>2 DEF TypeOK
      <4> QED BY <4>2, <4>4, GotoTypes, <1>p
    <3> QED BY <3>1, <3>2
  <2> QED
    BY <2>1, <2>2 DEF Stay, TypeOK, lockVars, guardVars, diskVars, poolVars
<1>11. CASE Yield(t)
  BY <1>11 DEF Yield, Stay, TypeOK, lockVars, guardVars, diskVars, poolVars
<1>12. CASE CloseSession(t)
  <2>1. /\ UNCHANGED <<lockVars, guardVars, mem, port, diskVars, ops, overlapped>>
        /\ late' \in BOOLEAN /\ known' \in BOOLEAN
    BY <1>12 DEF CloseSession, TypeOK
  <2>2. next' \in 0..POOL
    BY <1>12 DEF CloseSession, ResetTo, TypeOK, Runs
  <2>3. /\ req' \in [Tasks -> Reqs] /\ run' \in [Tasks -> Runs]
        /\ pc' \in [Tasks -> Places] /\ cpu' \in Programs \cup {NoTask}
    BY <1>12, FinishTypes, GotoTypes, <1>p DEF CloseSession, TypeOK
  <2> QED
    BY <2>1, <2>2, <2>3 DEF TypeOK, lockVars, guardVars, diskVars
<1>13. CASE UnlockDevices(t)
  <2>1. /\ UNCHANGED <<machine, fsLock, guardVars, poolVars, port, known, diskVars, ops, overlapped, late>>
        /\ devLock' = NoTask
    BY <1>13 DEF UnlockDevices
  <2>3. /\ req' \in [Tasks -> Reqs] /\ run' \in [Tasks -> Runs]
        /\ pc' \in [Tasks -> Places] /\ cpu' \in Programs \cup {NoTask}
    BY <1>13, FinishTypes, GotoTypes, <1>p DEF UnlockDevices, TypeOK
  <2> QED
    BY <2>1, <2>3 DEF TypeOK, guardVars, diskVars, poolVars
<1>14. CASE UnlockFs(t)
  BY <1>14, FinishTypes DEF UnlockFs, TypeOK, guardVars, diskVars, poolVars
<1> QED
  BY <1>1, <1>2, <1>3, <1>4, <1>5, <1>6, <1>7, <1>8, <1>9, <1>10, <1>11, <1>12, <1>13, <1>14 DEF Step
LEMMA EnvTypes ==
    ASSUME TypeOK, TransfersInv, Fetch \/ Complete \/ Error
    PROVE  TypeOK'
<1> USE StorageAssumption
<1> DEFINE Disks == [ci : BOOLEAN, busy : BOOLEAN, err : BOOLEAN, halted : BOOLEAN, cmd : Cells]
<1>0. Data(0) \in Cells
  BY DEF Data, Cells
<1>i. \A e, c \in BOOLEAN : Idle(e, c) \in Disks
  BY <1>0 DEF Idle, TypeOK
<1>1. CASE Fetch
  <2>1. mem[port.header] \in Cells
    BY <1>1 DEF Fetch, TypeOK, TransfersInv
  <2>2. disk' \in Disks
    BY <1>1, <2>1 DEF Fetch, TypeOK
  <2> QED
    BY <1>1, <2>2 DEF Fetch, TypeOK, lockVars, guardVars, poolVars, taskVars
<1>2. CASE Complete
  <2>1. /\ UNCHANGED <<lockVars, cpu, guardVars, next, port, known, taskVars, overlapped, late>>
        /\ disk' = Idle(FALSE, FALSE)
    BY <1>2 DEF Complete
  <2>2. disk.cmd.tag \in Commands /\ disk.cmd.arg \in Lbas /\ disk.cmd.page \in Pages
    BY <1>2 DEF Complete, TypeOK, Cells
  <2>3. Data(cache[disk.cmd.arg]) \in Cells
    BY <2>2 DEF TypeOK, Data, Cells
  <2>4. mem[disk.cmd.page].arg \in Nat
    BY <2>2 DEF TypeOK, Cells, Lbas
  <2>5. mem' \in [Pages -> Cells]
    BY <1>2, <1>0, <2>3 DEF Complete, TypeOK
  <2>6. cache' \in [Lbas -> Nat]
    BY <1>2, <2>4 DEF Complete, TypeOK
  <2>7. platter' \in [Lbas -> Nat]
    BY <1>2 DEF Complete, TypeOK
  <2>8. disk' \in Disks
    BY <1>i, <2>1
  <2> QED
    BY <2>1, <2>5, <2>6, <2>7, <2>8 DEF TypeOK, lockVars, guardVars, taskVars
<1>3. CASE Error
  <2>1. disk' \in Disks
    BY <1>3, <1>i DEF Error
  <2> QED
    BY <1>3, <2>1 DEF Error, TypeOK, lockVars, guardVars, poolVars, taskVars
<1> QED BY <1>1, <1>2, <1>3

LEMMA GuardTypes ==
    ASSUME TypeOK, NEW t \in Kernel \cup Net, EnterGuard(t) \/ LeaveGuard(t)
    PROVE  TypeOK'
<1>1. IsFiniteSet(guards') /\ guards' \subseteq Kernel \cup Net /\ ioDepth' = Cardinality(guards')
  <2>1. CASE EnterGuard(t)
    BY <2>1, FS_AddElement DEF EnterGuard, TypeOK
  <2>2. CASE LeaveGuard(t)
    BY <2>2, FS_RemoveElement DEF LeaveGuard, TypeOK
  <2> QED BY <2>1, <2>2
<1>2. UNCHANGED <<lockVars, cpu, poolVars, port, known, diskVars, taskVars, overlapped, late>>
  BY DEF EnterGuard, LeaveGuard
<1> QED
  BY <1>1, <1>2 DEF TypeOK, lockVars, poolVars, diskVars, taskVars

LEMMA RequestTypes ==
    ASSUME TypeOK, NEW t \in Tasks, Request(t)
    PROVE  TypeOK'
<1> USE StorageAssumption
<1>p. \A l \in {"fs", "dev", "open"} : l \in Places
  BY DEF Places
<1>r. \A r : r \in Requests("fs") \cup Requests("raw") => r \in Reqs
  <2>1. ASSUME NEW h \in {"fs", "raw"}, NEW r \in Requests(h) PROVE r \in Reqs
    <3>1. CASE r \in [how : {h}, kind : {"read"}, lba : 0..BLOCKS, val : {0}]
      BY <3>1 DEF Reqs
    <3>2. CASE r \in [how : {h}, kind : {"write"}, lba : 0..BLOCKS, val : Values]
      BY <3>2 DEF Reqs
    <3> QED BY <2>1, <3>1, <3>2 DEF Requests
  <2> QED BY <2>1
<1>1. ASSUME NEW r \in Requests("fs") \cup Requests("raw"), Begin(t, r) PROVE TypeOK'
  <2>1. req' \in [Tasks -> Reqs] /\ ops' \in Nat
    BY <1>1, <1>r DEF Begin, TypeOK
  <2> QED
    BY <1>1, <2>1, <1>p, GotoTypes DEF Begin, TypeOK, lockVars, guardVars, poolVars, diskVars
<1>2. ASSUME NEW r \in Requests("fs"), NextTransfer(t, r) PROVE TypeOK'
  <2>1. req' \in [Tasks -> Reqs] /\ ops' \in Nat
    BY <1>2, <1>r DEF NextTransfer, TypeOK
  <2>2. NoRun \in Runs
    BY DEF NoRun, Runs
  <2>3. run' \in [Tasks -> Runs]
    BY <1>2, <2>2 DEF NextTransfer, TypeOK
  <2> QED
    BY <1>2, <2>1, <2>3, <1>p, GotoTypes DEF NextTransfer, TypeOK, lockVars, guardVars, poolVars, diskVars
<1>3. CASE BeginIdentify(t)
  <2>1. IdentifyReq("identify") \in Reqs
    BY DEF IdentifyReq, Reqs
  <2>2. req' \in [Tasks -> Reqs] /\ ops' \in Nat
    BY <1>3, <2>1 DEF BeginIdentify, TypeOK
  <2> QED
    BY <1>3, <2>2, <1>p, GotoTypes DEF BeginIdentify, TypeOK, lockVars, guardVars, poolVars, diskVars
<1> QED
  BY <1>1, <1>2, <1>3 DEF Request


-----------------------------------------------------------------------------
(* What every step of a task has in common: the other tasks stay where they are. *)

OnlyTask(t) ==
    \A u \in Tasks \ {t} : pc'[u] = pc[u] /\ req'[u] = req[u] /\ run'[u] = run[u]

\* The driver is a task, and no task is NoTask.
LEMMA TasksNamed == Driver \in Tasks /\ NoTask \notin Tasks
BY StorageAssumption DEF Tasks

\* The transfers of the other tasks stay sound.
LEMMA TransfersStep ==
    ASSUME TransfersInv, NEW t \in Tasks, OnlyTask(t),
           \A u \in Tasks \ {t} : devLock = u => devLock' = u,
           port.header \in Pages => port'.header \in Pages,
           TransferSound(t)',
           disk'.busy => disk'.ci,
           disk'.ci => port'.header \in Pages,
           pc'[Driver] = "probe" =>
               pc[Driver] = "probe" /\ ~known' /\ ~port'.up /\ ~InTransfer(t)'
    PROVE  TransfersInv'
<1>1. \A u \in Tasks : TransferSound(u)'
  <2> SUFFICES ASSUME NEW u \in Tasks, u # t PROVE TransferSound(u)'
    OBVIOUS
  <2>1. TransferSound(u)
    BY DEF TransfersInv
  <2>2. pc'[u] = pc[u] /\ req'[u] = req[u] /\ run'[u] = run[u]
    BY DEF OnlyTask
  <2> QED
    BY <2>1, <2>2 DEF TransferSound, UsesDevices, Identifies, InTransfer, Open
<1>2. ASSUME pc'[Driver] = "probe" PROVE ~(\E u \in Tasks : InTransfer(u)')
  BY <1>2 DEF TransfersInv, OnlyTask, InTransfer, Open
<1> QED
  BY <1>1, <1>2 DEF TransfersInv

\* A step inside a session, or outside one, keeps the account of the pool.
LEMMA PoolStep ==
    ASSUME TypeOK, TypeOK', PoolInv, NEW t \in Tasks, OnlyTask(t),
           overlapped' = overlapped, port'.base = port.base,
           next' >= next, next' # next => Open(t),
           Open(t)' <=> Open(t),
           Open(t) => run'[t].mark = run[t].mark,
           pc'[t] \in {"submit", "ring", "poll"} => run'[t].page < next',
           pc[Driver] = "probe" => pc'[Driver] = "probe" \/ next' = port'.base
    PROVE  PoolInv'
<1> SUFFICES ASSUME ~overlapped' PROVE PoolInv'
  BY DEF PoolInv
<1>0. /\ \A v, u \in Tasks : Open(v) /\ Open(u) => v = u
      /\ \A u \in Tasks : Open(u) => run[u].mark = port.base /\ run[u].mark <= next
      /\ \A u \in Tasks : pc[u] \in {"submit", "ring", "poll"} => run[u].page < next
      /\ pc[Driver] = "probe" \/ (\E u \in Tasks : Open(u)) \/ next = port.base
  BY DEF PoolInv
<1>n. next \in Nat /\ next' \in Nat /\ \A u \in Tasks : run[u].mark \in Nat /\ run[u].page \in Nat
  BY StorageAssumption DEF TypeOK, Runs
<1>1. \A u \in Tasks : Open(u)' <=> Open(u)
  BY DEF OnlyTask, Open
<1>2. \A v, u \in Tasks : Open(v)' /\ Open(u)' => v = u
  BY <1>0, <1>1
<1>3. \A u \in Tasks : Open(u)' => run'[u].mark = port'.base /\ run'[u].mark <= next'
  BY <1>0, <1>1, <1>n DEF OnlyTask
<1>4. \A u \in Tasks : pc'[u] \in {"submit", "ring", "poll"} => run'[u].page < next'
  BY <1>0, <1>n DEF OnlyTask
<1>5. pc'[Driver] = "probe" \/ (\E u \in Tasks : Open(u)') \/ next' = port'.base
  BY <1>0, <1>1
<1> QED
  BY <1>2, <1>3, <1>4, <1>5 DEF PoolInv

\* What the others know of the disk, when the step leaves their session alone.
LEMMA DiskStep ==
    ASSUME DiskInv, NEW t \in Tasks, OnlyTask(t),
           UNCHANGED <<cache, platter>>,
           overlapped => overlapped', late => late',
           ~overlapped' /\ ~late' =>
               /\ \A u \in Tasks \ {t} : Open(u) => UNCHANGED <<disk, mem, port>>
               /\ disk'.ci => \E u \in Tasks : Open(u)'
               /\ SessionSound(t)'
    PROVE  DiskInv'
<1> SUFFICES ASSUME ~overlapped', ~late', NEW u \in Tasks, u # t PROVE SessionSound(u)'
  BY DEF DiskInv
<1>1. SessionSound(u)
  BY DEF DiskInv
<1>2. pc'[u] = pc[u] /\ req'[u] = req[u] /\ run'[u] = run[u]
  BY DEF OnlyTask
<1>3. CASE Open(u)
  <2>1. disk' = disk /\ mem' = mem /\ port' = port
    BY <1>3
  <2> QED
    BY <1>1, <1>2, <2>1 DEF SessionSound, Command, Table, Data, Result
<1>4. CASE ~Open(u)
  BY <1>1, <1>2, <1>4 DEF SessionSound, Open, Result
<1> QED BY <1>3, <1>4


-----------------------------------------------------------------------------
(* The steps of a task *)

SessionsInv == TransfersInv /\ PoolInv /\ DiskInv

\* A step that touches neither a transfer, nor the pool, nor the disk.
LEMMA Untouched ==
    ASSUME SessionsInv,
           UNCHANGED <<devLock, next, mem, port, known, disk, cache, platter, pc, req, run, overlapped, late>>
    PROVE  SessionsInv'
<1>1. \A u \in Tasks : /\ Open(u)' <=> Open(u)
                       /\ InTransfer(u)' <=> InTransfer(u)
                       /\ UsesDevices(u)' <=> UsesDevices(u)
                       /\ Identifies(u)' <=> Identifies(u)
  BY DEF Open, InTransfer, UsesDevices, Identifies
<1>2. TransfersInv'
  BY <1>1 DEF SessionsInv, TransfersInv, TransferSound
<1>3. PoolInv'
  BY <1>1 DEF SessionsInv, PoolInv
<1>4. \A u \in Tasks : SessionSound(u) => SessionSound(u)'
  BY DEF SessionSound, Command, Result
<1>5. DiskInv'
  BY <1>1, <1>4 DEF SessionsInv, DiskInv
<1> QED BY <1>2, <1>3, <1>5 DEF SessionsInv

LEMMA ProbeKeeps ==
    ASSUME TypeOK, TypeOK', SessionsInv, NEW t \in Tasks, Probe(t) \/ ProbeFails(t)
    PROVE  SessionsInv'
<1> USE StorageAssumption
<1>1. /\ pc[t] = "probe" /\ OnlyTask(t)
      /\ UNCHANGED <<devLock, known, disk, cache, platter, mem, run, overlapped, late>>
      /\ pc'[t] \in {"open", "idle"}
      /\ pc'[t] = "open" => req'[t] = IdentifyReq("boot")
      /\ next' = port'.base /\ port'.header = port.header
  BY DEF Probe, ProbeFails, At, Goto, TypeOK, OnlyTask, lockVars, diskVars
<1>2. t = Driver /\ TransferSound(t) /\ pc'[Driver] # "probe"
  BY <1>1 DEF SessionsInv, TransfersInv, TransferSound
<1>3. \A u \in Tasks : ~Open(u) /\ ~Open(u)'
  BY <1>1, <1>2 DEF SessionsInv, TransfersInv, InTransfer, Open, OnlyTask
<1>4. TransferSound(t)'
  <2>1. run'[t] = run[t] /\ ~run[t].ok /\ run[t].cmd = "none"
    BY <1>1, <1>2 DEF TransferSound
  <2>2. pc'[t] = "open" => req'[t].lba \in Lbas /\ Identifies(t)' /\ ~UsesDevices(t)'
    BY <1>1 DEF IdentifyReq, Lbas, Identifies, UsesDevices
  <2> QED
    BY <1>1, <2>1, <2>2 DEF TransferSound, InTransfer, Open
<1>5. TransfersInv'
  BY <1>1, <1>2, <1>4, TransfersStep DEF SessionsInv, TransfersInv
<1>6. PoolInv'
  BY <1>1, <1>3 DEF PoolInv, Open
<1>7. SessionSound(t)'
  BY <1>1 DEF SessionSound
<1>8. DiskInv'
  BY <1>1, <1>3, <1>7, DiskStep DEF SessionsInv, DiskInv
<1> QED BY <1>5, <1>6, <1>8 DEF SessionsInv

LEMMA LockKeeps ==
    ASSUME TypeOK, TypeOK', SessionsInv, NEW t \in Tasks,
           LockFs(t) \/ LockDevices(t) \/ SpinOnDevices(t)
    PROVE  SessionsInv'
<1> USE StorageAssumption, TasksNamed
<1>1. CASE machine' = "hung"
  <2>1. UNCHANGED <<devLock, next, mem, port, known, disk, cache, platter, pc, req, run, overlapped, late>>
    BY <1>1 DEF LockFs, LockDevices, SpinOnDevices, At, Hang, poolVars, diskVars, taskVars
  <2> QED BY <2>1, Untouched
<1>2. CASE machine' # "hung"
  <2>1. /\ OnlyTask(t)
        /\ UNCHANGED <<next, mem, port, known, disk, cache, platter, req, run, overlapped, late>>
        /\ \/ pc[t] = "fs" /\ pc'[t] = "dev" /\ devLock' = devLock
           \/ /\ pc[t] = "dev" /\ pc'[t] \in {"open", "unlock"} /\ devLock = NoTask /\ devLock' = t
              /\ pc'[t] = "open" => known /\ req[t].lba + 1 <= BLOCKS
    BY <1>2 DEF LockFs, LockDevices, SpinOnDevices, Hang, At, Goto, TypeOK, OnlyTask, poolVars, diskVars
  <2>2. TransferSound(t)
    BY DEF SessionsInv, TransfersInv
  <2>3. pc'[t] = "open" => req[t].lba \in Lbas
    BY <2>1 DEF TypeOK, Reqs, Lbas
  <2>4. TransferSound(t)'
    BY <2>1, <2>2, <2>3 DEF TransferSound, InTransfer, Open, UsesDevices, Identifies
  <2>5. pc'[Driver] = "probe" => pc[Driver] = "probe" /\ ~known /\ ~port.up /\ ~InTransfer(t)'
    BY <2>1 DEF OnlyTask, SessionsInv, TransfersInv, InTransfer, Open
  <2>6. TransfersInv'
    <3>1. \A u \in Tasks \ {t} : devLock = u => devLock' = u
      BY <2>1
    <3> QED BY <3>1, <2>1, <2>4, <2>5, TransfersStep DEF SessionsInv, TransfersInv
  <2>7. PoolInv'
    <3>1. ~Open(t) /\ ~Open(t)' /\ next \in Nat /\ (pc[Driver] = "probe" => pc'[Driver] = "probe")
      BY <2>1 DEF Open, TypeOK, OnlyTask
    <3> QED BY <2>1, <3>1, PoolStep DEF SessionsInv, Open
  <2>8. DiskInv'
    <3>1. SessionSound(t)'
      BY <2>1, <2>2 DEF SessionSound, TransferSound
    <3>2. \A u \in Tasks : Open(u) => Open(u)'
      BY <2>1 DEF Open, OnlyTask
    <3> QED BY <2>1, <3>1, <3>2, DiskStep DEF SessionsInv, DiskInv
  <2> QED BY <2>6, <2>7, <2>8 DEF SessionsInv
<1> QED BY <1>1, <1>2


\* The pool has nothing above the mark of a session that opens alone.
LEMMA OpenKeeps ==
    ASSUME TypeOK, TypeOK', SessionsInv, NEW t \in Tasks, OpenSession(t)
    PROVE  SessionsInv'
<1> USE StorageAssumption, TasksNamed
<1>1. /\ OnlyTask(t) /\ pc[t] = "open" /\ pc'[t] \in {"submit", "close"}
      /\ UNCHANGED <<devLock, port, known, disk, cache, platter, req, late>>
      /\ overlapped' = (overlapped \/ \E u \in Tasks \ {t} : Open(u))
  BY DEF OpenSession, At, Goto, TypeOK, OnlyTask, lockVars, diskVars
<1>2. /\ run'[t].mark = next /\ run'[t].ok = run[t].ok
      /\ pc'[t] = "submit" => /\ run'[t].page = next /\ run'[t].cmd = req[t].kind
                              /\ next \in Pages /\ next' = next + 1
                              /\ mem' = [mem EXCEPT ![next] = Data(req[t].val)]
      /\ pc'[t] = "close" => run'[t].cmd = run[t].cmd /\ next' = next /\ mem' = mem
  <2>1. CASE Exhausted
    <3>1. run' = [run EXCEPT ![t].mark = next] /\ Goto(t, "close") /\ UNCHANGED poolVars
      BY <2>1 DEF OpenSession
    <3> QED BY <3>1 DEF TypeOK, Runs, Goto, poolVars
  <2>2. CASE ~Exhausted
    <3>1. /\ run' = [run EXCEPT ![t].mark = next, ![t].page = next, ![t].cmd = req[t].kind]
          /\ Goto(t, "submit") /\ next' = next + 1 /\ mem' = [mem EXCEPT ![next] = Data(req[t].val)]
      BY <2>2 DEF OpenSession, AllocDma
    <3>2. next \in Pages
      BY <2>2 DEF TypeOK, Exhausted, Pages
    <3>3. pc'[t] = "submit"
      BY <3>1 DEF Goto, TypeOK
    <3>4. run'[t] = [run[t] EXCEPT !.mark = next, !.page = next, !.cmd = req[t].kind]
      BY <3>1 DEF TypeOK
    <3>5. run[t] \in Runs
      BY DEF TypeOK
    <3>6. run'[t].mark = next /\ run'[t].page = next /\ run'[t].cmd = req[t].kind /\ run'[t].ok = run[t].ok
      BY <3>4, <3>5 DEF Runs
    <3> QED BY <3>1, <3>2, <3>3, <3>6
  <2> QED BY <2>1, <2>2
<1>3. TransferSound(t) /\ pc[Driver] # "probe"
  BY <1>1 DEF SessionsInv, TransfersInv, InTransfer
<1>4. TransferSound(t)'
  <2>1. req[t].kind # "none" /\ req[t].lba \in Lbas
    BY <1>1, <1>3 DEF TransferSound, InTransfer, UsesDevices, Identifies
  <2> QED
    BY <1>1, <1>2, <1>3, <2>1 DEF TransferSound, InTransfer, Open, UsesDevices, Identifies
<1>5. pc'[Driver] # "probe"
  BY <1>1, <1>3 DEF OnlyTask
<1>6. TransfersInv'
  BY <1>1, <1>4, <1>5, TransfersStep DEF SessionsInv, TransfersInv
<1>o. ASSUME ~overlapped' PROVE /\ \A u \in Tasks : ~Open(u) /\ (Open(u)' => u = t)
                                /\ next = port.base
  <2>1. \A u \in Tasks : ~Open(u)
    BY <1>o, <1>1 DEF Open
  <2>2. next = port.base
    BY <1>o, <1>1, <1>3, <2>1 DEF SessionsInv, PoolInv
  <2>3. \A u \in Tasks : Open(u)' => u = t
    BY <1>1, <2>1 DEF Open, OnlyTask
  <2> QED BY <2>1, <2>2, <2>3
<1>7. PoolInv'
  <2> SUFFICES ASSUME ~overlapped' PROVE PoolInv'
    BY DEF PoolInv
  <2>1. next \in Nat /\ Open(t)'
    BY <1>1 DEF TypeOK, Open
  <2>2. \A u \in Tasks : pc'[u] \in {"submit", "ring", "poll"} => u = t
    BY <1>o DEF Open
  <2> QED
    BY <1>o, <1>1, <1>2, <2>1, <2>2 DEF PoolInv
<1>8. DiskInv'
  <2>1. ASSUME ~overlapped', ~late' PROVE SessionSound(t)' /\ ~disk.ci
    <3>1. ~disk.ci
      BY <1>1, <1>o, <2>1 DEF SessionsInv, DiskInv
    <3>2. ~disk.busy /\ ~run[t].ok
      BY <1>1, <1>3, <3>1 DEF SessionsInv, TransfersInv, TransferSound
    <3>3. CASE pc'[t] = "submit"
      <4>1. mem'[next] = Data(req[t].val)
        BY <3>3, <1>2 DEF TypeOK
      <4>2. run'[t].cmd # "flush"
        BY <1>1, <1>2, <1>3, <3>3 DEF TransferSound, InTransfer, UsesDevices, Identifies
      <4> QED
        BY <1>1, <1>2, <3>1, <3>3, <4>1, <4>2 DEF SessionSound, Data
    <3>4. CASE pc'[t] = "close"
      BY <1>1, <1>2, <3>1, <3>2, <3>4 DEF SessionSound
    <3> QED BY <1>1, <3>1, <3>3, <3>4
  <2> QED
    BY <1>1, <1>o, <2>1, DiskStep DEF SessionsInv
<1> QED BY <1>6, <1>7, <1>8 DEF SessionsInv

\* A step of the session that is open: no other task has one, unless they overlap.
LEMMA Alone ==
    ASSUME PoolInv, ~overlapped, NEW t \in Tasks, Open(t)
    PROVE  \A u \in Tasks : Open(u) => u = t
BY DEF PoolInv

LEMMA SubmitKeeps ==
    ASSUME TypeOK, TypeOK', SessionsInv, NEW t \in Tasks, Submit(t)
    PROVE  SessionsInv'
<1> USE StorageAssumption, TasksNamed
<1>1. /\ OnlyTask(t) /\ pc[t] = "submit" /\ pc'[t] = "ring"
      /\ UNCHANGED <<devLock, known, disk, cache, platter, req, run, overlapped, late>>
      /\ mem' = [mem EXCEPT ![next] = Command(t)] /\ next' = next + 1
      /\ port' = [port EXCEPT !.header = next]
  BY DEF Submit, At, Goto, AllocDma, Command, TypeOK, OnlyTask, lockVars, diskVars
<1>2. /\ next \in Pages /\ next \in Nat
      /\ port'.up = port.up /\ port'.base = port.base /\ port'.header = next
  BY <1>1 DEF Submit, Exhausted, TypeOK, Pages
<1>3. TransferSound(t) /\ pc[Driver] # "probe" /\ Open(t) /\ Open(t)'
  BY <1>1 DEF SessionsInv, TransfersInv, InTransfer, Open
<1>4. TransferSound(t)'
  BY <1>1, <1>2, <1>3 DEF TransferSound, InTransfer, Open, UsesDevices, Identifies
<1>5. pc'[Driver] # "probe"
  BY <1>1, <1>3 DEF OnlyTask
<1>6. TransfersInv'
  BY <1>1, <1>2, <1>4, <1>5, TransfersStep DEF SessionsInv, TransfersInv
<1>7. PoolInv'
  <2>1. CASE overlapped
    BY <1>1, <2>1 DEF PoolInv
  <2>2. CASE ~overlapped
    <3>1. run[t].page < next /\ run[t].page \in Nat
      BY <1>1, <2>2 DEF SessionsInv, PoolInv, TypeOK, Runs
    <3>2. run'[t].page < next' /\ run'[t].mark = run[t].mark /\ next' >= next
      BY <1>1, <1>2, <3>1
    <3> QED
      BY <1>1, <1>2, <1>3, <3>2, PoolStep DEF SessionsInv
  <2> QED BY <2>1, <2>2
<1>8. DiskInv'
  <2>1. ASSUME ~overlapped, ~late PROVE SessionSound(t)' /\ \A u \in Tasks : Open(u) => u = t
    <3>1. SessionSound(t) /\ run[t].page < next /\ run[t].page \in Pages
      BY <1>1, <1>3, <2>1 DEF SessionsInv, DiskInv, PoolInv, TransferSound
    <3>2. mem'[next] = Command(t) /\ mem'[run[t].page] = mem[run[t].page] /\ next # run[t].page
      BY <1>1, <1>2, <3>1 DEF TypeOK, Runs
    <3>3. Command(t)' = Command(t)
      BY <1>1 DEF Command
    <3> QED
      BY <1>1, <1>2, <1>3, <2>1, <3>1, <3>2, <3>3, Alone DEF SessionSound, SessionsInv
  <2> QED
    BY <1>1, <1>3, <2>1, DiskStep DEF SessionsInv
<1> QED BY <1>6, <1>7, <1>8 DEF SessionsInv

LEMMA RingKeeps ==
    ASSUME TypeOK, TypeOK', SessionsInv, NEW t \in Tasks, Ring(t)
    PROVE  SessionsInv'
<1> USE StorageAssumption, TasksNamed
<1>1. /\ OnlyTask(t) /\ pc[t] = "ring" /\ pc'[t] = "poll"
      /\ UNCHANGED <<devLock, next, mem, port, known, cache, platter, req, run, overlapped, late>>
      /\ disk'.ci /\ disk'.busy = disk.busy
  BY DEF Ring, At, Goto, TypeOK, OnlyTask, lockVars, poolVars
<1>3. TransferSound(t) /\ pc[Driver] # "probe" /\ Open(t) /\ Open(t)'
  BY <1>1 DEF SessionsInv, TransfersInv, InTransfer, Open
<1>4. TransferSound(t)'
  BY <1>1, <1>3 DEF TransferSound, InTransfer, Open, UsesDevices, Identifies
<1>5. pc'[Driver] # "probe" /\ port.header \in Pages
  BY <1>1, <1>3 DEF OnlyTask, TransferSound
<1>6. TransfersInv'
  BY <1>1, <1>4, <1>5, TransfersStep DEF SessionsInv, TransfersInv
<1>7. PoolInv'
  <2>1. overlapped \/ run'[t].page < next'
    BY <1>1 DEF SessionsInv, PoolInv
  <2>2. CASE overlapped
    BY <1>1, <2>2 DEF PoolInv
  <2>3. CASE ~overlapped
    <3>1. next' >= next
      BY <1>1 DEF TypeOK
    <3> QED BY <1>1, <1>3, <1>5, <2>1, <2>3, <3>1, PoolStep DEF SessionsInv
  <2> QED BY <2>2, <2>3
<1>8. DiskInv'
  <2>1. ASSUME ~overlapped, ~late PROVE SessionSound(t)' /\ \A u \in Tasks : Open(u) => u = t
    <3>1. SessionSound(t) /\ ~disk.busy
      BY <1>1, <1>3, <2>1 DEF SessionsInv, DiskInv, TransfersInv, SessionSound
    <3>3. Command(t)' = Command(t)
      BY <1>1 DEF Command
    <3> QED
      BY <1>1, <1>3, <2>1, <3>1, <3>3, Alone DEF SessionSound, SessionsInv
  <2> QED
    BY <1>1, <1>3, <2>1, DiskStep DEF SessionsInv
<1> QED BY <1>6, <1>7, <1>8 DEF SessionsInv

\* Every error path ends at "close", with the transfer not ok.
LEMMA FailKeeps ==
    ASSUME TypeOK, TypeOK', SessionsInv, NEW t \in Tasks, SubmitFails(t) \/ RingFails(t) \/ PollFails(t)
    PROVE  SessionsInv'
<1> USE StorageAssumption, TasksNamed
<1>1. /\ OnlyTask(t) /\ pc[t] \in {"submit", "ring", "poll"} /\ pc'[t] = "close"
      /\ UNCHANGED <<devLock, next, mem, port, known, disk, cache, platter, req, run, overlapped, late>>
  BY DEF SubmitFails, RingFails, PollFails, Fail, Stay, At, Goto, TypeOK, OnlyTask, lockVars, poolVars, diskVars
<1>3. TransferSound(t) /\ pc[Driver] # "probe" /\ Open(t) /\ Open(t)'
  BY <1>1 DEF SessionsInv, TransfersInv, InTransfer, Open
<1>4. TransferSound(t)'
  BY <1>1, <1>3 DEF TransferSound, InTransfer, Open, UsesDevices, Identifies
<1>5. pc'[Driver] # "probe" /\ ~run[t].ok
  BY <1>1, <1>3 DEF OnlyTask, TransferSound
<1>6. TransfersInv'
  BY <1>1, <1>4, <1>5, TransfersStep DEF SessionsInv, TransfersInv
<1>7. PoolInv'
  <2>1. next' >= next
    BY <1>1 DEF TypeOK
  <2> QED BY <1>1, <1>3, <1>5, <2>1, PoolStep DEF SessionsInv
<1>8. DiskInv'
  <2>1. ASSUME ~overlapped, ~late PROVE SessionSound(t)' /\ \A u \in Tasks : Open(u) => u = t
    <3>1. SessionSound(t) /\ (disk.busy => disk.ci)
      BY <1>1, <1>3, <2>1 DEF SessionsInv, DiskInv, TransfersInv
    <3>3. Command(t)' = Command(t)
      BY <1>1 DEF Command
    <3> QED
      BY <1>1, <1>3, <1>5, <2>1, <3>1, <3>3, Alone DEF SessionSound, SessionsInv
  <2> QED
    BY <1>1, <1>3, <2>1, DiskStep DEF SessionsInv
<1> QED BY <1>6, <1>7, <1>8 DEF SessionsInv


\* A command that has retired without an error: a write goes on with the flush,
\* anything else has its result.
LEMMA PollKeeps ==
    ASSUME TypeOK, TypeOK', SessionsInv, NEW t \in Tasks, Poll(t)
    PROVE  SessionsInv'
<1> USE StorageAssumption, TasksNamed
<1>1. /\ pc[t] = "poll" /\ ~disk.ci /\ ~disk.err /\ AfterCommand(t)
      /\ UNCHANGED <<devLock, next, mem, port, known, disk, cache, platter, req, overlapped, late>>
  BY DEF Poll, Stay, At, lockVars, poolVars, diskVars
<1>2. /\ OnlyTask(t)
      /\ run'[t].mark = run[t].mark /\ run'[t].page = run[t].page
      /\ \/ /\ run[t].cmd = "write" /\ run'[t].cmd = "flush" /\ run'[t].ok = run[t].ok
            /\ pc'[t] = "submit"
         \/ /\ run[t].cmd # "write" /\ run'[t].cmd = run[t].cmd
            /\ run'[t].got = IF run[t].cmd = "read" THEN mem[run[t].page].arg ELSE 0
            /\ pc'[t] = "close"
  <2>r. run[t] \in Runs
    BY DEF TypeOK
  <2>1. CASE run[t].cmd = "write"
    <3>1. run' = [run EXCEPT ![t].cmd = "flush"] /\ pc' = [pc EXCEPT ![t] = "submit"]
      BY <1>1, <2>1 DEF AfterCommand, Goto
    <3>2. run'[t] = [run[t] EXCEPT !.cmd = "flush"]
      BY <3>1 DEF TypeOK
    <3> QED
      BY <1>1, <2>1, <2>r, <3>1, <3>2 DEF TypeOK, Runs, OnlyTask
  <2>2. CASE run[t].cmd # "write"
    <3> DEFINE g == IF run[t].cmd = "read" THEN mem[run[t].page].arg ELSE 0
    <3>1. run' = [run EXCEPT ![t].ok = TRUE, ![t].got = g] /\ pc' = [pc EXCEPT ![t] = "close"]
      BY <1>1, <2>2 DEF AfterCommand, Succeed, Goto
    <3>2. run'[t] = [run[t] EXCEPT !.ok = TRUE, !.got = g]
      BY <3>1 DEF TypeOK
    <3>3. /\ run'[t].mark = run[t].mark /\ run'[t].page = run[t].page
          /\ run'[t].cmd = run[t].cmd /\ run'[t].got = g
      BY <2>r, <3>2 DEF Runs
    <3> QED
      BY <1>1, <2>2, <3>1, <3>3 DEF TypeOK, OnlyTask
  <2> QED BY <2>1, <2>2
<1>3. TransferSound(t) /\ pc[Driver] # "probe" /\ Open(t) /\ Open(t)'
  BY <1>1, <1>2 DEF SessionsInv, TransfersInv, InTransfer, Open
<1>4. TransferSound(t)'
  BY <1>1, <1>2, <1>3 DEF TransferSound, InTransfer, Open, UsesDevices, Identifies
<1>5. pc'[Driver] # "probe"
  BY <1>2, <1>3 DEF OnlyTask
<1>6. TransfersInv'
  BY <1>1, <1>2, <1>4, <1>5, TransfersStep DEF SessionsInv, TransfersInv
<1>7. PoolInv'
  <2>1. CASE overlapped
    BY <1>1, <2>1 DEF PoolInv
  <2>2. CASE ~overlapped
    <3>1. run'[t].page < next' /\ next' >= next
      BY <1>1, <1>2, <2>2 DEF SessionsInv, PoolInv, TypeOK
    <3> QED BY <1>1, <1>2, <1>3, <1>5, <3>1, PoolStep DEF SessionsInv
  <2> QED BY <2>1, <2>2
<1>8. DiskInv'
  <2>1. ASSUME ~overlapped, ~late PROVE SessionSound(t)' /\ \A u \in Tasks : Open(u) => u = t
    <3>1. SessionSound(t) /\ ~disk.busy
      BY <1>1, <2>1 DEF SessionsInv, DiskInv, TransfersInv
    <3>2. ASSUME run[t].cmd = "write" PROVE SessionSound(t)'
      BY <1>1, <1>2, <3>1, <3>2 DEF SessionSound
    <3>3. ASSUME run[t].cmd # "write" PROVE SessionSound(t)'
      <4>1. Result(t)'
        <5>1. run[t].cmd # "none" /\ (run[t].cmd = req[t].kind \/ (run[t].cmd = "flush" /\ req[t].kind = "write"))
          BY <1>1, <1>3 DEF TransferSound
        <5> QED
          BY <1>1, <1>2, <3>1, <3>3, <5>1 DEF Result, SessionSound
      <4> QED
        BY <1>1, <1>2, <3>1, <3>3, <4>1 DEF SessionSound
    <3> QED
      BY <1>3, <2>1, <3>2, <3>3, Alone DEF SessionsInv
  <2> QED
    BY <1>1, <1>2, <1>3, <2>1, DiskStep DEF SessionsInv
<1> QED BY <1>6, <1>7, <1>8 DEF SessionsInv

\* The pool is back at the mark, and the disk has no command: or the session was
\* closed too early.
LEMMA CloseKeeps ==
    ASSUME TypeOK, TypeOK', SessionsInv, NEW t \in Tasks, CloseSession(t)
    PROVE  SessionsInv'
<1> USE StorageAssumption, TasksNamed
<1>1. /\ pc[t] = "close" /\ OnlyTask(t)
      /\ UNCHANGED <<devLock, mem, port, disk, cache, platter, overlapped>>
      /\ next' = ResetTo(t) /\ late' = (late \/ disk.ci \/ disk.busy)
      /\ \/ /\ req[t].how \in {"boot", "identify"} /\ pc'[t] = "idle"
            /\ run'[t] = NoRun /\ req'[t] = NoReq
         \/ /\ req[t].how \notin {"boot", "identify"} /\ pc'[t] = "unlock"
            /\ run'[t] = run[t] /\ req'[t] = req[t]
  BY DEF CloseSession, At, Goto, Finish, TypeOK, OnlyTask, lockVars, diskVars
<1>3. TransferSound(t) /\ pc[Driver] # "probe" /\ Open(t) /\ ~Open(t)' /\ ~InTransfer(t)'
  BY <1>1 DEF SessionsInv, TransfersInv, InTransfer, Open
<1>4. TransferSound(t)'
  BY <1>1, <1>3 DEF TransferSound, InTransfer, Open, UsesDevices, Identifies, NoRun
<1>5. pc'[Driver] # "probe"
  BY <1>1, <1>3 DEF OnlyTask
<1>6. TransfersInv'
  BY <1>1, <1>4, <1>5, TransfersStep DEF SessionsInv, TransfersInv
<1>7. PoolInv'
  <2> SUFFICES ASSUME ~overlapped PROVE PoolInv'
    BY <1>1 DEF PoolInv
  <2>1. \A u \in Tasks : ~Open(u)'
    BY <1>1, <1>3, Alone DEF SessionsInv, OnlyTask, Open
  <2>2. next' = port'.base
    BY <1>1, <1>3 DEF SessionsInv, PoolInv, ResetTo
  <2> QED BY <2>1, <2>2 DEF PoolInv, Open
<1>8. DiskInv'
  <2>1. ASSUME ~overlapped', ~late'
        PROVE  SessionSound(t)' /\ ~disk'.ci /\ \A u \in Tasks \ {t} : ~Open(u)
    <3>1. SessionSound(t) /\ ~disk'.ci
      BY <1>1, <2>1 DEF SessionsInv, DiskInv
    <3>2. Result(t) /\ pc'[t] = "unlock" => Result(t)'
      BY <1>1 DEF Result
    <3>3. SessionSound(t)'
      BY <1>1, <3>1, <3>2 DEF SessionSound
    <3>4. \A u \in Tasks \ {t} : ~Open(u)
      BY <1>1, <1>3, <2>1, Alone DEF SessionsInv
    <3> QED BY <3>1, <3>3, <3>4
  <2> QED
    BY <1>1, <2>1, DiskStep DEF SessionsInv
<1> QED BY <1>6, <1>7, <1>8 DEF SessionsInv

LEMMA UnlockKeeps ==
    ASSUME TypeOK, TypeOK', SessionsInv, NEW t \in Tasks, UnlockDevices(t) \/ UnlockFs(t)
    PROVE  SessionsInv'
<1> USE StorageAssumption, TasksNamed
<1>1. /\ OnlyTask(t)
      /\ UNCHANGED <<next, mem, port, known, disk, cache, platter, overlapped, late>>
      /\ \/ pc[t] = "unlock" /\ devLock' = NoTask
         \/ pc[t] = "fsheld" /\ devLock' = devLock
      /\ \/ pc'[t] = "idle" /\ run'[t] = NoRun
         \/ pc'[t] = "fsheld"
  BY DEF UnlockDevices, UnlockFs, At, Goto, Finish, TypeOK, OnlyTask, poolVars, diskVars
<1>2. TransferSound(t) /\ ~Open(t) /\ ~Open(t)' /\ ~InTransfer(t)'
  BY <1>1 DEF SessionsInv, TransfersInv, InTransfer, Open
<1>3. TransferSound(t)'
  BY <1>1 DEF TransferSound, InTransfer, Open, NoRun
<1>4. \A u \in Tasks \ {t} : devLock = u => devLock' = u
  BY <1>1, <1>2 DEF TransferSound
<1>5. pc'[Driver] = "probe" <=> pc[Driver] = "probe"
  BY <1>1 DEF OnlyTask
<1>6. TransfersInv'
  BY <1>1, <1>2, <1>3, <1>4, <1>5, TransfersStep DEF SessionsInv, TransfersInv
<1>7. PoolInv'
  <2>1. next' >= next
    BY <1>1 DEF TypeOK
  <2> QED BY <1>1, <1>2, <1>5, <2>1, PoolStep DEF SessionsInv, Open
<1>8. DiskInv'
  <2>1. SessionSound(t)'
    BY <1>1 DEF SessionSound
  <2>2. \A u \in Tasks : Open(u) => Open(u)'
    BY <1>1 DEF Open, OnlyTask
  <2> QED
    BY <1>1, <2>1, <2>2, DiskStep DEF SessionsInv, DiskInv
<1> QED BY <1>6, <1>7, <1>8 DEF SessionsInv

LEMMA RequestKeeps ==
    ASSUME TypeOK, TypeOK', SessionsInv, NEW t \in Tasks, Request(t)
    PROVE  SessionsInv'
<1> USE StorageAssumption, TasksNamed
<1>1. /\ OnlyTask(t)
      /\ UNCHANGED <<devLock, next, mem, port, known, disk, cache, platter, overlapped, late>>
      /\ \/ pc[t] = "idle" /\ run'[t] = run[t]
         \/ pc[t] = "fsheld" /\ run'[t] = NoRun
      /\ \/ pc'[t] \in {"fs", "dev"} /\ UsesDevices(t)'
         \/ pc'[t] = "open" /\ port.up /\ req'[t] = IdentifyReq("identify")
  <2>1. ASSUME NEW r \in Requests("fs") \cup Requests("raw"), Begin(t, r) PROVE <1>1!:
    <3>1. r.how \in {"fs", "raw"} /\ r.kind \in {"read", "write"}
      BY DEF Requests
    <3>2. req'[t] = r
      BY <2>1 DEF Begin, TypeOK
    <3> QED
      BY <2>1, <3>1, <3>2 DEF Begin, At, Goto, TypeOK, OnlyTask, UsesDevices, lockVars, poolVars, diskVars
  <2>2. ASSUME NEW r \in Requests("fs"), NextTransfer(t, r) PROVE <1>1!:
    <3>1. r.how \in {"fs", "raw"} /\ r.kind \in {"read", "write"}
      BY DEF Requests
    <3>2. req'[t] = r
      BY <2>2 DEF NextTransfer, TypeOK
    <3> QED
      BY <2>2, <3>1, <3>2 DEF NextTransfer, At, Goto, TypeOK, OnlyTask, UsesDevices, lockVars, poolVars, diskVars
  <2>3. ASSUME BeginIdentify(t) PROVE <1>1!:
    BY <2>3 DEF BeginIdentify, At, Goto, TypeOK, OnlyTask, lockVars, poolVars, diskVars
  <2> QED BY <2>1, <2>2, <2>3 DEF Request
<1>2. TransferSound(t) /\ ~Open(t) /\ ~Open(t)'
  BY <1>1 DEF SessionsInv, TransfersInv, InTransfer, Open
<1>3. TransferSound(t)'
  <2>1. ~run'[t].ok /\ run'[t].cmd = "none"
    BY <1>1, <1>2 DEF TransferSound, NoRun
  <2>2. pc'[t] = "open" => req'[t].lba \in Lbas /\ Identifies(t)' /\ ~UsesDevices(t)'
    BY <1>1 DEF IdentifyReq, Lbas, Identifies, UsesDevices
  <2> QED
    BY <1>1, <2>1, <2>2 DEF TransferSound, InTransfer, Open
<1>5. pc'[Driver] = "probe" <=> pc[Driver] = "probe"
  BY <1>1 DEF OnlyTask
<1>i. InTransfer(t)' => port.up
  BY <1>1 DEF InTransfer, Open
<1>6. TransfersInv'
  BY <1>1, <1>2, <1>3, <1>5, <1>i, TransfersStep DEF SessionsInv, TransfersInv
<1>7. PoolInv'
  <2>1. next' >= next
    BY <1>1 DEF TypeOK
  <2> QED BY <1>1, <1>2, <1>5, <2>1, PoolStep DEF SessionsInv, Open
<1>8. DiskInv'
  <2>1. SessionSound(t)'
    BY <1>1 DEF SessionSound
  <2>2. \A u \in Tasks : Open(u) => Open(u)'
    BY <1>1 DEF Open, OnlyTask
  <2> QED
    BY <1>1, <2>1, <2>2, DiskStep DEF SessionsInv, DiskInv
<1> QED BY <1>6, <1>7, <1>8 DEF SessionsInv


-----------------------------------------------------------------------------
(* The steps of the disk *)

\* The command the disk carries out is that of the only open session.
LEMMA BusyWith ==
    ASSUME SessionsInv, ~overlapped, ~late, disk.ci
    PROVE  \E t \in Tasks : /\ pc[t] \in {"poll", "close"} /\ ~(pc[t] = "close" /\ run[t].ok)
                            /\ \A u \in Tasks : Open(u) => u = t
                            /\ port.header # run[t].page /\ mem[port.header] = Command(t)
                            /\ disk.busy => disk.cmd = Command(t)
<1>1. PICK t \in Tasks : Open(t)
  BY DEF SessionsInv, DiskInv
<1>2. SessionSound(t) /\ \A u \in Tasks : Open(u) => u = t
  BY <1>1, Alone DEF SessionsInv, DiskInv
<1> QED
  BY <1>1, <1>2 DEF SessionSound, Open

\* The disk changes no task, so only what is known of the disk is at stake.
LEMMA DiskTransfers ==
    ASSUME SessionsInv, UNCHANGED <<devLock, next, port, known, pc, req, run, overlapped, late>>,
           disk'.busy => disk'.ci, disk'.ci => disk.ci
    PROVE  TransfersInv' /\ PoolInv'
<1>1. \A u \in Tasks : /\ Open(u)' <=> Open(u)
                       /\ InTransfer(u)' <=> InTransfer(u)
                       /\ UsesDevices(u)' <=> UsesDevices(u)
                       /\ Identifies(u)' <=> Identifies(u)
  BY DEF Open, InTransfer, UsesDevices, Identifies
<1>2. TransfersInv'
  BY <1>1 DEF SessionsInv, TransfersInv, TransferSound
<1>3. PoolInv'
  BY <1>1 DEF SessionsInv, PoolInv
<1> QED BY <1>2, <1>3

LEMMA FetchKeeps ==
    ASSUME TypeOK, SessionsInv, Fetch
    PROVE  SessionsInv'
<1>1. /\ UNCHANGED <<devLock, next, mem, port, known, cache, platter, pc, req, run, overlapped, late>>
      /\ disk.ci /\ disk'.ci /\ disk'.busy /\ disk'.cmd = mem[port.header]
  BY DEF Fetch, TypeOK, lockVars, poolVars, taskVars
<1>2. TransfersInv' /\ PoolInv'
  BY <1>1, DiskTransfers
<1>3. ASSUME ~overlapped, ~late, NEW u \in Tasks PROVE SessionSound(u)'
  <2>1. PICK t \in Tasks : /\ pc[t] \in {"poll", "close"} /\ ~(pc[t] = "close" /\ run[t].ok)
                           /\ \A v \in Tasks : Open(v) => v = t
                           /\ port.header # run[t].page /\ mem[port.header] = Command(t)
    BY <1>1, <1>3, BusyWith
  <2>2. SessionSound(u)
    BY <1>3 DEF SessionsInv, DiskInv
  <2>3. Command(u)' = Command(u) /\ (Result(u) => Result(u)')
    BY <1>1 DEF Command, Result
  <2>4. CASE u = t
    BY <1>1, <2>1, <2>2, <2>3, <2>4 DEF SessionSound
  <2>5. CASE u # t
    <3>1. ~Open(u)
      BY <2>1, <2>5
    <3> QED BY <1>1, <2>2, <2>3, <3>1 DEF SessionSound, Open
  <2> QED BY <2>4, <2>5
<1>4. ~overlapped /\ ~late => \E u \in Tasks : Open(u)'
  BY <1>1, BusyWith DEF Open
<1>5. DiskInv'
  BY <1>1, <1>3, <1>4 DEF DiskInv
<1> QED BY <1>2, <1>5 DEF SessionsInv

LEMMA ErrorKeeps ==
    ASSUME TypeOK, SessionsInv, Error
    PROVE  SessionsInv'
<1>1. /\ UNCHANGED <<devLock, next, mem, port, known, cache, platter, pc, req, run, overlapped, late>>
      /\ disk.busy /\ ~disk'.busy /\ disk'.err
  BY DEF Error, Idle, TypeOK, lockVars, poolVars, taskVars
<1>0. disk.ci
  BY <1>1 DEF SessionsInv, TransfersInv
<1>2. TransfersInv' /\ PoolInv'
  BY <1>0, <1>1, DiskTransfers
<1>3. ASSUME ~overlapped, ~late, NEW u \in Tasks PROVE SessionSound(u)'
  <2>1. PICK t \in Tasks : /\ pc[t] \in {"poll", "close"} /\ ~(pc[t] = "close" /\ run[t].ok)
                           /\ \A v \in Tasks : Open(v) => v = t
                           /\ port.header # run[t].page /\ mem[port.header] = Command(t)
    BY <1>0, <1>3, BusyWith
  <2>2. SessionSound(u)
    BY <1>3 DEF SessionsInv, DiskInv
  <2>3. Command(u)' = Command(u) /\ (Result(u) => Result(u)')
    BY <1>1 DEF Command, Result
  <2>4. CASE u = t
    BY <1>1, <2>1, <2>2, <2>3, <2>4 DEF SessionSound
  <2>5. CASE u # t
    <3>1. ~Open(u)
      BY <2>1, <2>5
    <3> QED BY <1>1, <2>2, <2>3, <3>1 DEF SessionSound, Open
  <2> QED BY <2>4, <2>5
<1>4. ~overlapped /\ ~late => \E u \in Tasks : Open(u)'
  BY <1>0, <1>1, BusyWith DEF Open
<1>5. DiskInv'
  BY <1>1, <1>3, <1>4 DEF DiskInv
<1> QED BY <1>2, <1>5 DEF SessionsInv

\* The data of the command lands where its own session expects it, and a transfer
\* that has succeeded and still holds DEVICES sees no other write and no other flush.
LEMMA CompleteKeeps ==
    ASSUME TypeOK, TypeOK', SessionsInv, Complete
    PROVE  SessionsInv'
<1>1. /\ UNCHANGED <<devLock, next, port, known, pc, req, run, overlapped, late>>
      /\ disk.busy /\ ~disk'.busy /\ ~disk'.ci
  BY DEF Complete, Idle, TypeOK, lockVars, taskVars
<1>0. disk.ci
  BY <1>1 DEF SessionsInv, TransfersInv
<1>2. TransfersInv' /\ PoolInv'
  BY <1>0, <1>1, DiskTransfers
<1>3. ASSUME ~overlapped, ~late, NEW u \in Tasks PROVE SessionSound(u)'
  <2>1. PICK t \in Tasks : /\ pc[t] \in {"poll", "close"} /\ ~(pc[t] = "close" /\ run[t].ok)
                           /\ \A v \in Tasks : Open(v) => v = t
                           /\ port.header # run[t].page /\ mem[port.header] = Command(t)
                           /\ disk.cmd = Command(t)
    BY <1>0, <1>1, <1>3, BusyWith
  <2>2. SessionSound(u) /\ TransferSound(u) /\ SessionSound(t) /\ TransferSound(t)
    BY <1>3 DEF SessionsInv, DiskInv, TransfersInv
  <2>c. disk.cmd.tag = run[t].cmd /\ disk.cmd.arg = req[t].lba /\ disk.cmd.page = run[t].page
    BY <2>1 DEF Command, Table
  <2>r. req[t].lba \in Lbas
    BY <2>1, <2>2 DEF TransferSound, InTransfer, Open
  <2>4. CASE u = t /\ pc[t] = "poll"
    <3>0. run[t].page \in Pages
      BY <2>2, <2>4 DEF TransferSound
    <3>1. CASE run[t].cmd = "write"
      <4>1. cache'[req[t].lba] = req[t].val
        <5>1. cache' = [cache EXCEPT ![req[t].lba] = mem[run[t].page].arg]
          BY <2>c, <3>1 DEF Complete
        <5>2. mem[run[t].page].arg = req[t].val
          BY <2>2, <2>4, <3>1 DEF SessionSound, Data
        <5> QED BY <2>r, <5>1, <5>2 DEF TypeOK
      <4>2. mem' = mem
        BY <2>c, <3>1 DEF Complete
      <4> QED
        BY <1>1, <2>2, <2>4, <3>1, <4>1, <4>2 DEF SessionSound, Data
    <3>2. CASE run[t].cmd = "flush"
      <4>1. platter' = cache /\ cache' = cache /\ mem' = mem
        BY <2>c, <3>2 DEF Complete
      <4> QED
        BY <1>1, <2>2, <2>4, <3>2, <4>1 DEF SessionSound
    <3>3. CASE run[t].cmd = "read"
      <4>1. mem' = [mem EXCEPT ![run[t].page] = Data(cache[req[t].lba])] /\ cache' = cache
        BY <2>c, <3>3 DEF Complete
      <4>2. mem'[run[t].page].arg = cache'[req[t].lba]
        BY <3>0, <4>1 DEF TypeOK, Data
      <4> QED
        BY <1>1, <2>2, <2>4, <3>3, <4>2 DEF SessionSound
    <3>4. CASE run[t].cmd \notin {"write", "flush", "read"}
      BY <1>1, <2>2, <2>4, <3>4 DEF SessionSound
    <3> QED BY <3>1, <3>2, <3>3, <3>4
  <2>5. CASE u = t /\ pc[t] = "close"
    BY <1>1, <2>1, <2>5 DEF SessionSound
  <2>6. CASE u # t
    <3>1. ~Open(u)
      BY <2>1, <2>6
    <3>2. ASSUME pc[u] = "unlock" PROVE cache' = cache /\ platter' = platter
      <4>1. devLock = u
        BY <2>2, <3>2 DEF TransferSound
      <4>2. ~UsesDevices(t)
        BY <2>1, <2>2, <2>6, <4>1 DEF TransferSound, InTransfer, Open
      <4>3. run[t].cmd \in {"none", "identify"}
        BY <2>1, <2>2, <4>2 DEF TransferSound, InTransfer, Open, Identifies
      <4> QED BY <2>c, <4>3 DEF Complete
    <3> QED
      BY <1>1, <2>2, <3>1, <3>2 DEF SessionSound, Open, Result
  <2> QED BY <2>1, <2>4, <2>5, <2>6
<1>5. DiskInv'
  BY <1>1, <1>3 DEF DiskInv
<1> QED BY <1>2, <1>5 DEF SessionsInv

-----------------------------------------------------------------------------
LEMMA NextInv == StorageInv /\ [Next]_vars => StorageInv'
<1> SUFFICES ASSUME StorageInv, [Next]_vars PROVE StorageInv'
  OBVIOUS
<1>0. TypeOK /\ SessionsInv /\ TransfersInv
  BY DEF StorageInv, SessionsInv
<1> SUFFICES TypeOK' /\ SessionsInv'
  BY DEF StorageInv, SessionsInv
<1>1. ASSUME NEW t \in Tasks, Step(t) PROVE TypeOK' /\ SessionsInv'
  <2>1. TypeOK'
    BY <1>0, <1>1, StepTypes
  <2>2. CASE Yield(t)
    <3>1. UNCHANGED <<devLock, next, mem, port, known, disk, cache, platter, pc, req, run, overlapped, late>>
      BY <2>2 DEF Yield, Stay, lockVars, poolVars, diskVars
    <3> QED BY <1>0, <2>1, <3>1, Untouched
  <2> QED
    BY <1>0, <1>1, <2>1, <2>2, ProbeKeeps, LockKeeps, OpenKeeps, SubmitKeeps, RingKeeps, FailKeeps,
       PollKeeps, CloseKeeps, UnlockKeeps DEF Step
<1>2. ASSUME NEW t \in Tasks, Request(t) PROVE TypeOK' /\ SessionsInv'
  BY <1>0, <1>2, RequestTypes, RequestKeeps
<1>3. ASSUME NEW t \in Kernel \cup Net, EnterGuard(t) \/ LeaveGuard(t) PROVE TypeOK' /\ SessionsInv'
  <2>1. UNCHANGED <<devLock, next, mem, port, known, disk, cache, platter, pc, req, run, overlapped, late>>
    BY <1>3 DEF EnterGuard, LeaveGuard, lockVars, poolVars, diskVars, taskVars
  <2> QED BY <1>0, <1>3, <2>1, GuardTypes, Untouched
<1>4. CASE Fetch \/ Complete \/ Error
  BY <1>0, <1>4, EnvTypes, FetchKeeps, CompleteKeeps, ErrorKeeps
<1>5. CASE UNCHANGED vars
  <2>1. TypeOK'
    BY <1>0, <1>5 DEF TypeOK, vars, lockVars, guardVars, poolVars, diskVars, taskVars
  <2>2. UNCHANGED <<devLock, next, mem, port, known, disk, cache, platter, pc, req, run, overlapped, late>>
    BY <1>5 DEF vars, lockVars, poolVars, diskVars, taskVars
  <2> QED BY <1>0, <2>1, <2>2, Untouched
<1> QED
  BY <1>1, <1>2, <1>3, <1>4, <1>5 DEF Next

\* The inductive invariant: types, what each place of a transfer means, the account
\* of the DMA pool (ahci.rs, dma.rs) and what the disk is working on.
THEOREM StorageInvariant == Spec => []StorageInv
<1>1. Init => StorageInv
  BY InitInv
<1>2. StorageInv /\ [Next]_vars => StorageInv'
  BY NextInv
<1> QED BY <1>1, <1>2, PTL DEF Spec

\* The DMA pool is back at the pages the port keeps whenever no session is open,
\* for any number of tasks, pages and transfers, as long as sessions do not overlap.
THEOREM PoolIsReturned == Spec => []PoolReturned
<1>1. StorageInv => PoolReturned
  BY DEF StorageInv, PoolReturned, PoolInv
<1> QED BY <1>1, StorageInvariant, PTL

\* A transfer that reports success (write_block, read_block) has moved its data, if
\* no session overlapped another and no command was abandoned.
THEOREM SuccessesReal == Spec => []SuccessIsReal
<1>1. StorageInv => SuccessIsReal
  <2> SUFFICES ASSUME StorageInv, NEW t \in Tasks, pc[t] = "unlock", run[t].ok, ~overlapped, ~late
               PROVE  IF req[t].kind = "write"
                        THEN platter[req[t].lba] = req[t].val
                        ELSE run[t].got = cache[req[t].lba]
    BY DEF SuccessIsReal
  <2>1. SessionSound(t) /\ TransferSound(t)
    BY DEF StorageInv, DiskInv, TransfersInv
  <2> QED
    BY <2>1 DEF SessionSound, Result, TransferSound, UsesDevices
<1> QED BY <1>1, StorageInvariant, PTL
=============================================================================
