------------------------------- MODULE Storage -------------------------------
(***************************************************************************)
(* Block I/O: the AHCI driver (ahci.rs), its DMA pool (dma.rs), the checks  *)
(* on MMIO (mmio.rs), the registry of block devices (block.rs) and the      *)
(* lock of the mounted filesystem (fs/mod.rs) under which most of it runs.  *)
(*                                                                         *)
(* A transfer marks the pool, takes a bounce buffer and a command table,    *)
(* rings the doorbell, polls with yields and a limit, and gives the pool    *)
(* back to the mark.  Kernel tasks run with interrupts on and can be        *)
(* preempted anywhere; system calls run with interrupts off and lose the    *)
(* CPU only where they yield.  The disk (external) works at its own speed.  *)
(***************************************************************************)
EXTENDS Naturals, FiniteSets

CONSTANTS Kernel,      \* the shells, and programs inside exec: interrupts on
          Programs,    \* tasks in file system calls: interrupts off
          Net,         \* tasks in e1000::transmit or receive
          Driver,      \* ahci-init: interrupts on, holds the Mmio capability
          NoTask,
          BLOCKS,      \* blocks of the disk
          Values,      \* what is written
          POOL,        \* pages of the DMA pool
          MaxOps       \* bound: transfers begun

ASSUME StorageAssumption ==
    /\ Driver \notin Kernel \cup Programs /\ NoTask \notin Kernel \cup Programs \cup {Driver}
    /\ Kernel \cap Programs = {} /\ Net \cap (Kernel \cup Programs \cup {Driver}) = {}
    /\ BLOCKS \in Nat \ {0} /\ POOL \in Nat /\ MaxOps \in Nat
    /\ Values \subseteq Nat \ {0}

Tasks == Kernel \cup Programs \cup {Driver}
Pages == 0..(POOL - 1)
Lbas  == 0..(BLOCKS - 1)

\* What a page of the pool holds: data, or a command table (FIS and PRD entry).
Data(v) == [tag |-> "data", arg |-> v, page |-> 0]
Table(c, lba, p) == [tag |-> c, arg |-> lba, page |-> p]
Commands == {"identify", "read", "write", "flush"}
Cells == [tag : {"data"}, arg : Nat, page : {0}] \cup [tag : Commands, arg : Lbas, page : Pages]

VARIABLES
    machine,   \* "up", or "hung": a task spins with interrupts off
    fsLock,    \* who holds MOUNTED_FS
    devLock,   \* who holds DEVICES
    cpu,       \* the system call that has the CPU to itself, or NoTask
    ioDepth,   \* KERNEL_IO_DEPTH
    guards,    \* the tasks that own a KernelIoGuard
    next,      \* next_offset of the DMA pool, in pages
    mem,       \* the pages of the pool
    port,      \* the port: [up, base (pages it keeps), header (command table of slot 0)]
    known,     \* the disk is in DEVICES
    disk,      \* external: [ci, busy, err, halted, cmd]
    cache,     \* external: what the disk reads at each block
    platter,   \* external: what it has after a power cut
    pc,        \* where a task is
    req,       \* its transfer: [how, kind, lba, val]
    run,       \* its progress: [mark, page, cmd, ok, got]
    ops,       \* transfers begun
    overlapped,\* history: a session was opened inside another one
    late       \* history: a session was closed before its command had ended

lockVars == <<machine, fsLock, devLock>>
guardVars == <<ioDepth, guards>>
poolVars == <<next, mem>>
diskVars == <<disk, cache, platter>>
taskVars == <<pc, req, run, ops>>
vars == <<lockVars, cpu, guardVars, poolVars, port, known, diskVars, taskVars, overlapped, late>>

NoReq == [how |-> "none", kind |-> "none", lba |-> 0, val |-> 0]
IdentifyReq(h) == [how |-> h, kind |-> "identify", lba |-> 0, val |-> 0]
NoRun == [mark |-> 0, page |-> 0, cmd |-> "none", ok |-> FALSE, got |-> 0]

Init ==
    /\ machine = "up" /\ fsLock = NoTask /\ devLock = NoTask /\ cpu = NoTask
    /\ ioDepth = 0 /\ guards = {}
    /\ next = 0 /\ mem = [p \in Pages |-> Data(0)]
    /\ port = [up |-> FALSE, base |-> 0, header |-> 0] /\ known = FALSE
    /\ disk = [ci |-> FALSE, busy |-> FALSE, err |-> FALSE, halted |-> FALSE, cmd |-> Data(0)]
    /\ cache = [b \in Lbas |-> 0] /\ platter = [b \in Lbas |-> 0]
    /\ pc = [t \in Tasks |-> IF t = Driver THEN "probe" ELSE "idle"]
    /\ req = [t \in Tasks |-> NoReq] /\ run = [t \in Tasks |-> NoRun]
    /\ ops = 0
    /\ overlapped = FALSE /\ late = FALSE

-----------------------------------------------------------------------------
(* Scheduling *)

\* Task t is at l and may run.
At(t, l) == machine = "up" /\ cpu \in {NoTask, t} /\ pc[t] = l

\* A system call keeps the CPU from one step to the next.
KeepCpu(t) == cpu' = IF t \in Programs THEN t ELSE NoTask

Goto(t, l) == pc' = [pc EXCEPT ![t] = l] /\ KeepCpu(t)

\* Back in user mode, or in the task's own loop.
Finish(t) ==
    /\ pc' = [pc EXCEPT ![t] = "idle"] /\ cpu' = NoTask
    /\ req' = [req EXCEPT ![t] = NoReq] /\ run' = [run EXCEPT ![t] = NoRun]

\* Spinning on a lock with interrupts off: its holder never runs again.
Hang ==
    /\ machine' = "hung"
    /\ UNCHANGED <<fsLock, devLock, cpu, guardVars, poolVars, port, known, diskVars,
                   taskVars, overlapped, late>>

-----------------------------------------------------------------------------
(* mmio.rs *)

\* KernelIoGuard: exec, the shell's history and the network driver.
EnterGuard(t) ==
    /\ machine = "up" /\ cpu = NoTask /\ t \notin guards
    /\ t \in Kernel => pc[t] = "idle"
    /\ ioDepth' = ioDepth + 1 /\ guards' = guards \cup {t}
    /\ UNCHANGED <<lockVars, cpu, poolVars, port, known, diskVars, taskVars, overlapped, late>>

LeaveGuard(t) ==
    /\ machine = "up" /\ cpu = NoTask /\ t \in guards
    /\ t \in Kernel => pc[t] = "idle"
    /\ ioDepth' = ioDepth - 1 /\ guards' = guards \ {t}
    /\ UNCHANGED <<lockVars, cpu, poolVars, port, known, diskVars, taskVars, overlapped, late>>

\* check_mmio_cap: the depth is global, so anybody passes while one guard is held.
CheckMmioCap(t) == ioDepth > 0 \/ t = Driver

-----------------------------------------------------------------------------
(* dma.rs *)

Exhausted == next = POOL

\* alloc_dma: the next page of the pool, which the caller fills at once.
AllocDma(c) ==
    /\ next' = next + 1
    /\ mem' = [mem EXCEPT ![next] = c]

\* A faulty variant of ResetTo: only a transfer that succeeds gives its pages back.
ResetToOk(t) ==
    IF run[t].ok /\ run[t].mark <= next THEN run[t].mark ELSE next

\* reset_to: backwards only.
ResetTo(t) == IF run[t].mark <= next THEN run[t].mark ELSE next

-----------------------------------------------------------------------------
(* ahci.rs: bring-up *)

\* ahci::init and probe_port: reset, command list and receive area, COMRESET,
\* start.  block::init then identifies the disk.
Probe(t) ==
    /\ At(t, "probe") /\ POOL >= 2
    /\ next' = 2 /\ UNCHANGED mem
    /\ port' = [up |-> TRUE, base |-> 2, header |-> port.header]
    /\ req' = [req EXCEPT ![t] = IdentifyReq("boot")]
    /\ Goto(t, "open")
    /\ UNCHANGED <<lockVars, guardVars, known, diskVars, run, ops, overlapped, late>>

\* No controller, no disk, no room, or the disk does not come ready.  What was
\* taken from the pool stays taken.
ProbeFails(t) ==
    /\ At(t, "probe")
    /\ \E n \in 0..2 : n <= POOL /\ next' = n /\ port' = [port EXCEPT !.base = n]
    /\ Goto(t, "idle")
    /\ UNCHANGED <<lockVars, guardVars, mem, known, diskVars, req, run, ops, overlapped, late>>

-----------------------------------------------------------------------------
(* ahci.rs: one transfer *)

Open(t) == pc[t] \in {"submit", "ring", "poll", "close"}

\* mark, then the bounce buffer; a write copies its data in.
OpenSession(t) ==
    /\ At(t, "open")
    /\ IF Exhausted
         THEN run' = [run EXCEPT ![t].mark = next] /\ Goto(t, "close") /\ UNCHANGED poolVars
         ELSE /\ run' = [run EXCEPT ![t].mark = next, ![t].page = next,
                                    ![t].cmd = req[t].kind]
              /\ AllocDma(Data(req[t].val))
              /\ Goto(t, "submit")
    /\ overlapped' = (overlapped \/ \E u \in Tasks \ {t} : Open(u))
    /\ UNCHANGED <<lockVars, guardVars, port, known, diskVars, req, ops, late>>

Stay == UNCHANGED <<lockVars, guardVars, port, known, diskVars, req, ops, overlapped, late>>

\* An error leaves issue_command and goes on to reset_to.
Fail(t) == Goto(t, "close") /\ UNCHANGED <<poolVars, run>> /\ Stay

\* wait_not_busy is refused, or has tried a thousand times; or the pool is empty.
SubmitFails(t) ==
    /\ At(t, "submit") /\ (~CheckMmioCap(t) \/ disk.busy \/ Exhausted)
    /\ Fail(t)

\* Command table and header of slot 0.
Submit(t) ==
    /\ At(t, "submit") /\ CheckMmioCap(t) /\ ~disk.busy /\ ~Exhausted
    /\ AllocDma(Table(run[t].cmd, req[t].lba, run[t].page))
    /\ port' = [port EXCEPT !.header = next]
    /\ Goto(t, "ring")
    /\ UNCHANGED <<lockVars, guardVars, known, diskVars, req, run, ops, overlapped, late>>

\* PORT_IS is cleared and bit 0 of PORT_CI set.
Ring(t) ==
    /\ At(t, "ring") /\ CheckMmioCap(t)
    /\ disk' = [disk EXCEPT !.ci = TRUE]
    /\ Goto(t, "poll")
    /\ UNCHANGED <<lockVars, guardVars, poolVars, port, known, cache, platter, req, run, ops,
                   overlapped, late>>

RingFails(t) == At(t, "ring") /\ ~CheckMmioCap(t) /\ Fail(t)

\* The transfer has succeeded; a read copies its bounce buffer out.
Succeed(t) ==
    /\ run' = [run EXCEPT ![t].ok = TRUE,
                          ![t].got = IF run[t].cmd = "read" THEN mem[run[t].page].arg ELSE 0]
    /\ Goto(t, "close")

\* A faulty variant of AfterCommand: the write cache is not flushed.
AfterCommandNoFlush(t) == Succeed(t)

\* The command has retired without an error.  A write goes on with FLUSH CACHE.
AfterCommand(t) ==
    IF run[t].cmd = "write"
      THEN run' = [run EXCEPT ![t].cmd = "flush"] /\ Goto(t, "submit")
      ELSE Succeed(t)

Poll(t) ==
    /\ At(t, "poll") /\ CheckMmioCap(t) /\ ~disk.ci /\ ~disk.err
    /\ AfterCommand(t)
    /\ UNCHANGED poolVars /\ Stay

\* A faulty variant of PollFails: it looks again for ever.
PollFailsNoLimit(t) ==
    /\ At(t, "poll") /\ (~CheckMmioCap(t) \/ disk.err)
    /\ Fail(t)

\* An error bit; or no answer in two thousand tries; or the guard that let the
\* task touch the port is gone.
PollFails(t) ==
    /\ At(t, "poll") /\ (~CheckMmioCap(t) \/ disk.ci \/ disk.err)
    /\ Fail(t)

\* A system call yields between two looks at a busy port.
Yield(t) ==
    /\ cpu = t /\ machine = "up"
    /\ \/ pc[t] = "submit" /\ disk.busy
       \/ pc[t] = "poll" /\ disk.ci
    /\ cpu' = NoTask
    /\ UNCHANGED <<pc, run, poolVars>> /\ Stay

\* reset_to(mark), then the caller: block::init registers a disk that answered.
CloseSession(t) ==
    /\ At(t, "close")
    /\ next' = ResetTo(t)
    /\ late' = (late \/ disk.ci \/ disk.busy)
    /\ known' = (known \/ (req[t].how = "boot" /\ run[t].ok))
    /\ IF req[t].how \in {"boot", "identify"}
         THEN Finish(t)
         ELSE Goto(t, "unlock") /\ UNCHANGED <<req, run>>
    /\ UNCHANGED <<lockVars, guardVars, mem, port, diskVars, ops, overlapped>>

-----------------------------------------------------------------------------
(* block.rs, fs/mod.rs and their callers *)

Requests(how) == [how : {how}, kind : {"read"}, lba : 0..BLOCKS, val : {0}]
           \cup  [how : {how}, kind : {"write"}, lba : 0..BLOCKS, val : Values]

\* A file operation (every task), blkread or blkwrite (a shell).
Begin(t, r) ==
    /\ At(t, "idle") /\ ops < MaxOps
    /\ req' = [req EXCEPT ![t] = r] /\ ops' = ops + 1
    /\ Goto(t, IF r.how = "fs" THEN "fs" ELSE "dev")
    /\ UNCHANGED <<lockVars, guardVars, poolVars, port, known, diskVars, run, overlapped, late>>

\* The shell's identify goes to the port past DEVICES.
BeginIdentify(t) ==
    /\ At(t, "idle") /\ t \in Kernel /\ port.up /\ ops < MaxOps
    /\ req' = [req EXCEPT ![t] = IdentifyReq("identify")]
    /\ ops' = ops + 1
    /\ Goto(t, "open")
    /\ UNCHANGED <<lockVars, guardVars, poolVars, port, known, diskVars, run, overlapped, late>>

\* lock_fs spins with interrupts off, whoever calls it.
LockFs(t) ==
    /\ At(t, "fs")
    /\ IF fsLock = NoTask
         THEN /\ fsLock' = t
              /\ Goto(t, "dev")
              /\ UNCHANGED <<machine, devLock, guardVars, poolVars, port, known, diskVars,
                             req, run, ops, overlapped, late>>
         ELSE Hang

\* DEVICES.lock, the lookup and validate.  A kernel task waits with interrupts on.
LockDevices(t) ==
    /\ At(t, "dev") /\ devLock = NoTask
    /\ devLock' = t
    /\ Goto(t, IF known /\ req[t].lba + 1 <= BLOCKS THEN "open" ELSE "unlock")
    /\ UNCHANGED <<machine, fsLock, guardVars, poolVars, port, known, diskVars,
                   req, run, ops, overlapped, late>>

SpinOnDevices(t) == At(t, "dev") /\ devLock # NoTask /\ t \in Programs /\ Hang

\* The guard on DEVICES is dropped.
UnlockDevices(t) ==
    /\ At(t, "unlock")
    /\ devLock' = NoTask
    /\ IF req[t].how = "fs" THEN Goto(t, "fsheld") /\ UNCHANGED <<req, run>> ELSE Finish(t)
    /\ UNCHANGED <<machine, fsLock, guardVars, poolVars, port, known, diskVars, ops,
                   overlapped, late>>

\* A file operation makes several transfers under one lock.
NextTransfer(t, r) ==
    /\ At(t, "fsheld") /\ ops < MaxOps
    /\ req' = [req EXCEPT ![t] = r] /\ run' = [run EXCEPT ![t] = NoRun]
    /\ ops' = ops + 1
    /\ Goto(t, "dev")
    /\ UNCHANGED <<lockVars, guardVars, poolVars, port, known, diskVars, overlapped, late>>

UnlockFs(t) ==
    /\ At(t, "fsheld")
    /\ fsLock' = NoTask
    /\ Finish(t)
    /\ UNCHANGED <<machine, devLock, guardVars, poolVars, port, known, diskVars, ops,
                   overlapped, late>>

-----------------------------------------------------------------------------
(* The disk (external) *)

\* It takes the command of slot 0 as the table is now.
Fetch ==
    /\ machine = "up" /\ disk.ci /\ ~disk.busy /\ ~disk.halted
    /\ disk' = [disk EXCEPT !.busy = TRUE, !.err = FALSE, !.cmd = mem[port.header]]
    /\ UNCHANGED <<lockVars, cpu, guardVars, poolVars, port, known, cache, platter,
                   taskVars, overlapped, late>>

Idle(e, c) ==
    [disk EXCEPT !.busy = FALSE, !.err = e, !.ci = c, !.halted = c, !.cmd = Data(0)]

Complete ==
    /\ machine = "up" /\ disk.busy /\ disk.cmd.tag # "data"
    /\ disk' = Idle(FALSE, FALSE)
    /\ mem' = CASE disk.cmd.tag = "read"     -> [mem EXCEPT ![disk.cmd.page] = Data(cache[disk.cmd.arg])]
                [] disk.cmd.tag = "identify" -> [mem EXCEPT ![disk.cmd.page] = Data(0)]
                [] OTHER                     -> mem
    /\ cache' = IF disk.cmd.tag = "write"
                  THEN [cache EXCEPT ![disk.cmd.arg] = mem[disk.cmd.page].arg] ELSE cache
    /\ platter' = IF disk.cmd.tag = "flush" THEN cache ELSE platter
    /\ UNCHANGED <<lockVars, cpu, guardVars, next, port, known, taskVars, overlapped, late>>

\* The command fails; some controllers clear PORT_CI then, others keep it set and
\* take no command before they are restarted, which the driver never does.
Error ==
    /\ machine = "up" /\ disk.busy
    /\ \E c \in BOOLEAN : disk' = Idle(TRUE, c)
    /\ UNCHANGED <<lockVars, cpu, guardVars, poolVars, port, known, cache, platter,
                   taskVars, overlapped, late>>

-----------------------------------------------------------------------------
Step(t) ==
    \/ Probe(t) \/ ProbeFails(t)
    \/ LockFs(t) \/ LockDevices(t) \/ SpinOnDevices(t)
    \/ OpenSession(t) \/ Submit(t) \/ SubmitFails(t) \/ Ring(t) \/ RingFails(t)
    \/ Poll(t) \/ PollFails(t) \/ Yield(t)
    \/ CloseSession(t) \/ UnlockDevices(t) \/ UnlockFs(t)

Request(t) ==
    \/ \E r \in Requests("fs") : Begin(t, r) \/ NextTransfer(t, r)
    \/ t \in Kernel /\ \E r \in Requests("raw") : Begin(t, r)
    \/ BeginIdentify(t)

Next ==
    \/ \E t \in Tasks : Step(t) \/ Request(t)
    \/ \E t \in Kernel \cup Net : EnterGuard(t) \/ LeaveGuard(t)
    \/ Fetch \/ Complete \/ Error
    \/ machine = "hung" /\ UNCHANGED vars

\* Round-robin scheduling, and polling loops that are bounded.  Nothing is assumed
\* of the disk.
Fairness == \A t \in Tasks : WF_vars(Step(t))

Spec == Init /\ [][Next]_vars /\ Fairness

-----------------------------------------------------------------------------
(* Properties *)

Places == {"probe", "idle", "fs", "dev", "open", "submit", "ring", "poll", "close", "unlock", "fsheld"}
Reqs == [how : {"none", "boot", "identify", "fs", "raw"},
         kind : {"none", "identify", "read", "write"}, lba : 0..BLOCKS, val : Nat]
Runs == [mark : 0..POOL, page : 0..POOL, cmd : Commands \cup {"none"}, ok : BOOLEAN, got : Nat]

TypeOK ==
    /\ machine \in {"up", "hung"}
    /\ fsLock \in Tasks \cup {NoTask} /\ devLock \in Tasks \cup {NoTask}
    /\ cpu \in Programs \cup {NoTask}
    /\ IsFiniteSet(guards) /\ guards \subseteq Kernel \cup Net
    /\ ioDepth = Cardinality(guards)
    /\ next \in 0..POOL /\ mem \in [Pages -> Cells]
    /\ port \in [up : BOOLEAN, base : 0..2, header : 0..POOL] /\ known \in BOOLEAN
    /\ disk \in [ci : BOOLEAN, busy : BOOLEAN, err : BOOLEAN, halted : BOOLEAN, cmd : Cells]
    /\ cache \in [Lbas -> Nat] /\ platter \in [Lbas -> Nat]
    /\ pc \in [Tasks -> Places]
    /\ req \in [Tasks -> Reqs] /\ run \in [Tasks -> Runs] /\ ops \in Nat
    /\ overlapped \in BOOLEAN /\ late \in BOOLEAN

\* Every page of the pool comes back, however a transfer ends: "Without this, every
\* disk transfer would leak a buffer and the pool would exhaust".
PoolReturned ==
    /\ TypeOK
    /\ (\A t \in Tasks : ~Open(t)) /\ ~overlapped => next = port.base \/ pc[Driver] = "probe"

\* A transfer reports success only when it is done: a write is on the platter,
\* a read returns what the disk holds.
SuccessIsReal ==
    \A t \in Tasks :
        pc[t] = "unlock" /\ run[t].ok /\ ~overlapped /\ ~late =>
            IF req[t].kind = "write"
              THEN platter[req[t].lba] = req[t].val
              ELSE run[t].got = cache[req[t].lba]

\* What the two invariants above rest on.  Where a task is tells what it asks for;
\* a transfer that goes through DEVICES holds its lock; nobody has a session before
\* the driver has probed.
UsesDevices(t) == req[t].how \in {"fs", "raw"} /\ req[t].kind \in {"read", "write"}
Identifies(t) == req[t].how \in {"boot", "identify"} /\ req[t].kind = "identify"
InTransfer(t) == pc[t] = "open" \/ Open(t)

TransferSound(t) ==
    /\ pc[t] = "probe" => t = Driver
    /\ pc[t] \in {"probe", "idle", "fs", "dev", "open", "submit", "ring", "poll"} => ~run[t].ok
    /\ pc[t] \in {"fs", "dev", "unlock"} => UsesDevices(t)
    /\ InTransfer(t) => req[t].lba \in Lbas /\ (UsesDevices(t) \/ Identifies(t))
    /\ pc[t] = "unlock" \/ (InTransfer(t) /\ UsesDevices(t)) => devLock = t
    /\ pc[t] \in {"submit", "ring", "poll"} => run[t].page \in Pages /\ run[t].cmd # "none"
    /\ pc[t] \in {"probe", "idle", "fs", "dev", "open"} => run[t].cmd = "none"
    /\ Open(t) => run[t].cmd \in {"none", req[t].kind}
                    \/ (run[t].cmd = "flush" /\ req[t].kind = "write")
    /\ pc[t] \in {"ring", "poll"} => port.header \in Pages

TransfersInv ==
    /\ \A t \in Tasks : TransferSound(t)
    /\ disk.busy => disk.ci
    /\ disk.ci => port.header \in Pages
    /\ known \/ port.up \/ (\E t \in Tasks : InTransfer(t)) => pc[Driver] # "probe"

\* Sessions that do not overlap: one at a time, with the pool's mark under it.
PoolInv ==
    ~overlapped =>
        /\ \A t, u \in Tasks : Open(t) /\ Open(u) => t = u
        /\ \A t \in Tasks : Open(t) => run[t].mark = port.base /\ run[t].mark <= next
        /\ \A t \in Tasks : pc[t] \in {"submit", "ring", "poll"} => run[t].page < next
        /\ pc[Driver] = "probe" \/ (\E t \in Tasks : Open(t)) \/ next = port.base

\* While no session overlapped another and none was closed early, the disk works on
\* the command of the open session and on nothing else.
Command(t) == Table(run[t].cmd, req[t].lba, run[t].page)
Result(t) ==
    /\ req[t].kind = "write" => platter[req[t].lba] = req[t].val
    /\ req[t].kind = "read" => run[t].got = cache[req[t].lba]

SessionSound(t) ==
    /\ pc[t] \in {"submit", "ring"} => ~disk.ci
    /\ pc[t] \in {"submit", "ring", "poll"} =>
        /\ run[t].cmd = "write" => mem[run[t].page] = Data(req[t].val)
        /\ run[t].cmd = "flush" => cache[req[t].lba] = req[t].val
    /\ pc[t] = "ring" \/ (pc[t] \in {"poll", "close"} /\ disk.ci) =>
        port.header # run[t].page /\ mem[port.header] = Command(t)
    /\ pc[t] \in {"poll", "close"} /\ disk.busy => disk.cmd = Command(t)
    /\ pc[t] = "poll" /\ ~disk.ci /\ ~disk.err =>
        /\ run[t].cmd = "write" => cache[req[t].lba] = req[t].val
        /\ run[t].cmd = "flush" => platter[req[t].lba] = req[t].val
        /\ run[t].cmd = "read" => mem[run[t].page].arg = cache[req[t].lba]
    /\ pc[t] = "close" /\ run[t].ok => ~disk.ci /\ Result(t)
    /\ pc[t] = "unlock" /\ run[t].ok => Result(t)

DiskInv ==
    ~overlapped /\ ~late =>
        /\ disk.ci => \E t \in Tasks : Open(t)
        /\ \A t \in Tasks : SessionSound(t)

StorageInv == TypeOK /\ TransfersInv /\ PoolInv /\ DiskInv

\* A transfer ends, with a result or an error, whatever the disk does.
TransferEnds ==
    \A t \in Tasks : pc[t] \notin {"idle"} ~> pc[t] = "idle" \/ machine = "hung"
=============================================================================
