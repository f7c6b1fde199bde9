# A TLA+ verification of the PickleOS kernel

PickleOS is a small x86-64 operating system written in Rust (`kernel/`), with a
user-space library and a few programs (`userspace/`). This directory holds TLA+
models of the kernel, the TLC configurations that check them on small instances,
and TLAPS proofs for instances of every size. `PROJECT.json` ties each
definition to the lines it stands for, lists the runs, the mutants that show each
property can fail, the findings, the hazards and the theorems.

Paths below are relative to `kernel/src/`.

## 1. Inventory of the system

One CPU, one address space per process, interrupts as the only source of
concurrency. Three facts about the machine decide the shape of every model:

* A **system call** enters through an interrupt gate: interrupts are off until it
  returns or switches tasks, so what it does up to a call of `schedule()` is one
  step. Two calls turn interrupts on while they work: `exec` (loading reads the
  disk) and a `read` that has slept once.
* A **kernel task** (idle, init, drivers, shell, services, compositor) runs with
  interrupts on. It is atomic only inside `scheduler::with`, `ipc::with_state`
  and other `without_interrupts` sections; the timer can switch away between them.
* Most other global state (`INPUT`, `FD_TABLES`, `PIPES`, `CREDENTIALS`, the
  window server's `STATE`, the mounted filesystem) is behind spin locks that do
  *not* turn interrupts off, so their holders can be preempted.

| Component | State | Operations | Hard behaviour | What makes it correct |
|---|---|---|---|---|
| Tasks and scheduler (`task.rs`) | `SCHEDULER.tasks`, `current`, `NEXT_ID`; per task: state, parent, children, exit status, `wait_blocked` | schedule, timer tick, yield, sleep, block/unblock, spawn, fork, exec, exit, wait, kill, reap | preemption between the sections of kernel tasks; exit racing wait; orphans; slot reuse | one running task, nobody starves, no lost wake-up in wait, the tree stays a tree, a task ends once and releases everything |
| Signals (`signal.rs`, `task.rs`) | handlers, pending set, restorer, saved context | signal, kill, delivery at the return of a system call, sigreturn | a signal while a handler is in flight; a signal for a sleeping task; exec resets | an ignored signal is not left pending, one handler at a time, SIGKILL and SIGSTOP uncatchable |
| Capabilities (`capability.rs`) | a slot table per task | mint, grant, revoke, lookup, check | chains of grants | rights never grow; slot numbers stay valid |
| IPC (`ipc.rs`) | endpoints (queue, waiters), names, reply slots | send, receive, call, reply | lost wake-ups, deadlines, the lock order of IPC and scheduler | each message once and in order, each call answered by its own reply, sleepers are woken |
| IRQ bridge (`driver/irq.rs`) | pending count, waiter and owner per line | register, wait, notify_from_isr | the interrupt between test and sleep | no interrupt lost |
| Keyboard, mouse and console (`driver/keyboard.rs`, `driver/mouse.rs`, `driver/console.rs`) | the 8042 controller both drivers read, ring buffer of 256, waiters | feed_scancode, push_char, read_char, read_char_blocking, flush, the mouse driver's drain loop | two drivers on one data port, buffer full, several readers, preempted lock holders | FIFO, every key reaches the keyboard driver, blocked readers are woken |
| Descriptors, pipes, VFS (`fs/vfs.rs`) | `FD_TABLES`, `PIPES`, `CREDENTIALS` | open, close, read, write, pipe, copying of tables at fork, closing at exit | reference counts over fork and exit, blocking pipe ends, a full pipe | ends counted exactly, data in order, EOF and EPIPE, sleepers are woken |
| NextFS (`fs/nextfs.rs`) | superblock, bitmaps, inodes, directories on disk | mkfs, create, write, unlink, mkdir, truncate | a failure between two metadata writes | blocks owned once, bitmap agrees with inodes |
| Memory and ELF (`memory.rs`, `elf.rs`) | frame allocator, page tables, copy-on-write marks | map, unmap, cow_fork, cow fault, mmap, load | copy-on-write sharing without reference counts, running out of frames half-way, the list of user page tables read after interrupts were on | no frame writable in two spaces, every space behaves like a memory of its own, a task runs in its own space |
| Window server and compositor (`wm.rs`, `gui.rs`) | windows, pixel buffers, event queues, pending creates and destroys | create, destroy, present, post and poll events | full event queues, dead owners, compositor lagging behind | events in order, drops counted, no window of a dead task |
| Services (`services/`) | registry, mounts, memfs | register, resolve, file requests over `call`/`reply` | a service that does not answer | requests answered or refused |
| Network (`net/`, `driver/e1000.rs`) | sockets of the smoltcp stack, poll task | connect, listen, send, receive, destroy | polling against blocking callers | sockets live as long as a descriptor |
| Block devices (`driver/ahci.rs`, `driver/dma.rs`, `driver/mmio.rs`, `driver/block.rs`) | the port, the DMA pool, the registry and its lock, the lock of the mounted filesystem, the depth of I/O guards | probe, identify, read, write, flush | completion by polling, timeouts, a disk that answers late, MMIO refused half-way | the pool comes back, success means done, every transfer ends |
| Interrupt and fault entry (`interrupts.rs`), system call layer (`syscall.rs`) | none of their own | dispatch, argument and capability checks, faults | faults in user mode | every failure ends the task and not the kernel |
| Boot (`main.rs`, `init_user.rs`, `driver/mod.rs`) | none | start tasks, launch `/etc/inittab` programs | tasks that end themselves | - |
| Shell, drawing, serial, GDT, embedded programs | - | - | - | not modelled: interpretation of commands and device output |

Interactions: drivers and services are tasks and block through the scheduler;
`read` on descriptor 0 goes from the system call through the VFS to the console
and its waiters list; exit and kill call into the VFS, the window server and IPC
to release what the task owned; `exec` goes through the VFS, ELF loading and
memory; services are reached by `ipc::call`.

## 2. Modules

| Module | Models | Theorems in |
|---|---|---|
| `Process` | `task.rs`, `signal.rs`, the process calls of `syscall.rs`, fault entry, the boot loader task, `GuardedStack::drop` | `ProcessProofs` |
| `Capability` | `capability.rs` and `SYS_CAP_GRANT` | `IpcProofs` |
| `Input` | `driver/irq.rs`, `driver/keyboard.rs`, the loop of `driver/mouse.rs`, `driver/console.rs`, `read` on stdin | `InputProofs` |
| `Ipc` | `ipc.rs` and its two system calls | `IpcProofs` |
| `Descriptors` | descriptor tables and pipes of `fs/vfs.rs`, the socket map of `net/stack.rs` and their system calls | `DescriptorsProofs` |
| `Wm` | `wm.rs`, the window calls of `syscall.rs`, the demo client of `gui.rs` | `CompositorProofs` |
| `Compositor` | extends `Wm` with the compositor task of `gui.rs`: frames, focus, keys, repaint | `CompositorProofs` |
| `NextFS` | `fs/nextfs.rs`, the path and file calls of `fs/vfs.rs`, the shell's `nx` commands, mounting at boot | `NextFSProofs` |
| `PrivateMemory` | what address spaces promise: a memory each (abstract specification) | `AddressSpaceProofs` |
| `AddressSpace` | `memory.rs`, `elf.rs`, `exec`, `spawn` and `fork` as far as they change a space, `mmap` and `munmap`, the page fault handler; implements `PrivateMemory` | `AddressSpaceProofs` |
| `Storage` | `driver/ahci.rs`, `driver/dma.rs`, `driver/mmio.rs`, `driver/block.rs`, the locks of `fs/mod.rs`, the shell's block commands | `StorageProofs` |

`MCProcess`, `MCCapability`, `MCInput`, `MCNextFS` and `MCAddressSpace` give constants
their values or symmetry, and `MCProcess`/`MCInput` add the fairness that liveness is checked under.

### Process

`tasks` is the scheduler's vector (ids in slot order) and `current` the slot of
the running task; per-task fields are functions on ids. `pc` records where a task
is inside the kernel: `"user"` in its program, otherwise the point after a
`schedule()` at which it goes on. Ids 0, 1, 2 are the idle task, init (the reaper,
PID 1) and `ahci-init`, which launches the programs of `/etc/inittab` and marks
itself Dead when done; programs have the ids from 3 on.

* `Schedule(s)` is `scheduler::schedule` entered with task states `s`; every action
  that ends in `schedule()` contains it. `TimerTick` is preemption, possible where
  interrupts are on.
* Each system call is an action; a call that sleeps is two (`SysWait`/`WaitResume`,
  `SysExec`/`ExecDone` or `ExecFail`, `SysYield`/`SleepMore`/`YieldReturn`,
  `ReadBlock`/`ReadReturn`). `ReturnToUser` (`deliver_pending_signals`) is part of
  every action that returns to a program.
* `reap_orphans` takes a snapshot, filters it and reaps one child at a time in
  separate sections: `ReapSnapshot`, `ReapFilter`, `ReapOne`, `ReapClean`, `ReapYield`.
* `spawn_user_from_entry` allocates the id, then the descriptor table, then the slot:
  `SpawnId`, `SpawnFds`, `SpawnAdd`.
* Assigning to the slot of a Dead task drops its `GuardedStack`, and `drop` panics
  (`ReuseSlot`, section 4); `machine = "panic"` is the panic handler's halt.

Abstractions: the children vector is a set (its order only decides which zombie
`wait` returns first); a handler's address is `"custom"`; registers, address spaces
and the copying of the status word are left out; `RoleHolders` are the programs
that hold the role capabilities `fork`, `kill` and `signal` ask for (at boot only
init and the shell are minted them, and programs get them by `SYS_CAP_GRANT`).

### Capability

`slots` is a sequence of optional capabilities per task, `minted` the history of
root capabilities. `Insert` takes the first free slot; `Derive` intersects the
requested rights with those of the source. `grant` accepts any target pid. `revoke`
has no caller in the kernel, and is modelled as what it would do; tables are not
dropped when a task ends, so there is no such action.

### Input

The two driver tasks (`Drivers`, "kbd" and "mouse"), each with its line of the IRQ bridge
(`irr` raised at the PIC, `pending` and `waiter` of `irq::wait`), and the 8042 controller they
share: one output register, whose byte is the last of `sent`, from the mouse if it is in
`aux`, and there to be read while `full`. The keyboard driver reads port 0x60 once per wake-up and
does not look at the status (`Inb`), so that it gets the last byte again when the
controller is empty, and a byte of the mouse when that is what is there. The mouse
driver reads the status and then the data port in two steps (`MouseStatus`, `MouseData`)
until the controller is empty, and throws away what is not the mouse's; it can be preempted
between the two. `heard` and `taken` are histories of which driver took which byte, and
`Stolen` says that the mouse driver has taken a byte of the keyboard.

Then the console: the ring buffer with `head` and `tail`, the list of waiters, readers inside
`read(0)`, and a kernel task that polls or flushes (the shell, the compositor). `lock`
is the `INPUT` spin lock, `iflag` the interrupt flag of each context: a program's first
round in `read_char_blocking` has interrupts off, later ones have them on.
`accepted` and `out` are histories. The scheduler is a free choice of a runnable task.

Left out: scancode decoding (a byte yields a character or none), the mouse's packets and
cursor, the set-up of the controller at boot (`init_controller` of both drivers, which
reads bytes too), `inject_char` (used by the self-test) and the killing of a reader. The
error branches of `inb` are not taken: both drivers hold the capability of the port from
their start, and nothing revokes it.

### Ipc

One endpoint, its queue and waiters, the reply slots, and every step of `send`,
`receive`, `call` and `reply`, preemptible between the sections of `with_state`. A
message is its number; a reply is known by what it answers. `Without(s, t)` is the list of
waiters after `receive` has taken its own entry out. The scheduler is a free
choice of a runnable task. Creation and lookup of named endpoints is done in `Init`.
The hang of `receive` on an empty queue (section 4) ends every behaviour that
reaches it; the properties of the passing run are about what can happen before it.

### Descriptors

Per program its table `fds` and `next_fd`; the pipes (bytes and the counts of readers
and writers); the map of sockets. A program's call runs with interrupts off, so it is
one step; a read of an empty pipe or a write to a full one goes round a loop of
`yield_now`, and each round is a step of its own (`ReadAgain`, `WriteAgain`) between
which the other programs run. `sent` and `out` are histories of what the write end
took and the read ends gave. The three streams that every table starts with are the
parameter `STREAMS` and `MAX_FDS` its limit; descriptor numbers, pipe ids and socket
ids only ever grow (`MaxFd` bounds them, so `pipe()` is taken only where its second
descriptor has a number below the bound). What the code does on its error paths is kept: a `pipe()` whose
second descriptor does not fit leaves the first one behind without a pipe, a
`socket()` whose descriptor does not fit leaves the socket in the map, and a socket
inherited by fork is not counted, so the first of the two closes destroys it. Regular
files, paths and credentials are not in this module. Neither is the contention for
`FD_TABLES` and `PIPES` with preempted kernel tasks: kernel tasks do not use pipes.

### Wm and Compositor

`Wm` is the registry behind the spin lock `STATE`: the live windows with their owner and
event queue, the lists of windows created and destroyed that the compositor has still to
take, and `DIRTY`, kept as "has moved since the compositor last read it". A program's
window call runs with interrupts off and is one step. The demo client and the
compositor are kernel tasks, so each section under `STATE` and each access to another
shared word is a step of its own: the demo client's commit and its bump of `DIRTY` are
`DemoCommit` and `DemoBump`, and one turn of the compositor's loop is a walk of `at`
through `FrameNew`, `TakeDestroy`, `ReadDirty`, the mouse, the focus, the keys, `Paint`
and one `Blit` per client frame, back to front (`todo` is the set still to come). When a
task exits its windows are announced in the order of the registry's map (`InOrder`). What a mouse sample hits is a free choice among the
branches of the loop, so geometry is left out; so are titles, pixels and drawing.
Events that change nothing in the kernel are one value, `Notice`. `shown` is what each
frame last showed of its window and `screen` the frame list of the last paint: histories
the properties speak of. The shells
may read the console at any time (`ShellReads`), because a shell drains it without
looking at the focus again. Contention for `STATE` itself
is not modelled; it hangs the machine the way `lock_fs` does in `Storage`.

### NextFS

`inodes` and `blocks` are the disk, written at once by every operation; `fs` is the mounted
filesystem, whose block bitmap and counters stay in memory until `sync()`, and `synced`
is what of them the disk has. Only the shell's commands end with `sync()`; system calls
never do. `Reboot` mounts what is on disk and rebuilds the inode bitmap from the table.

Each operation of `nextfs.rs` is an operator from filesystem to filesystem
(`CreateDir`, `WriteInodeData`, `TruncateInode`, ...) that keeps the order of its
allocations and writes, its early returns and its rollbacks, so that running out of space
at any point leaves what the code leaves. An operation holds the filesystem's lock and is
one step. A program's call resolves its path under one lock and works under the next;
the inode it works on is therefore any of `Resolved`, which includes directories removed
or reused meanwhile. The unit of size is a directory entry, 64 bytes. A cell of
data carries the file and the place it was written for, so that `ReadBack` can tell a
file's data from another's or from data at the wrong place.

A descriptor is an inode number and nothing more: `write` (`vfs.rs:677`) does not ask whether the
inode still is what was opened, nor whether it is a file. `Descriptors` has one for everything a
path names, directories included, and `stale` those that have outlived what they were
opened on. A write through a stale one is refused while the inode is free on disk
(`WriteRefused`: `unlink` clears the type, and `write_inode_data` asks for it). If the
inode has been used again the write goes to the file that has it now; the number of
that file becomes 0 in `file`, and `ReadBack` makes no promise of its contents. Everything else still
holds of it.

Five things are harmful, and `harm` names them. Three leave a block both free and in
use: a cut within the indirect range (see the findings), a
`write_file` that runs out of space after it has freed the old blocks, and a reboot after
allocations that were not synced. One leaves a directory that cuts itself off: a `mkdir` whose parent
was removed between its two locks and whose new directory gets the parent's inode. The fifth, `"descriptor"`, is a
write through a descriptor of a directory, which overwrites its entries, or of an inode that no path
names and that a failed create has left on disk as in use, which takes blocks that nothing
gives back. What follows such a state is
not explored (no path is followed any more, `Reached`), and the properties are about the others. Also not followed: a path
resolved to a directory whose inode was removed and then left behind on disk by a failed
`mkdir`; the cut, by a path resolved before, of an unlinked inode left behind in the
same way; permissions, owners, times, names that are too long, sizes beyond the largest
file, errors of the block device.

### AddressSpace and PrivateMemory

`frames` and `content` are the bump allocator and what each frame holds: frames are never
given back. `pt[s][p]` is the leaf entry of page `p` in space `s` (frame, WRITABLE,
COW), and `upper[s]` the regions whose interior tables are writable. `made` is the
length of `user_page_tables`, `cr3` the space a task runs in, and `home`, a history, the
space that was made for it. `lock` is `MEMORY`.

* A load (`LoadStart`, `LoadRejected`, `LoadLock`, `LoadMap` or one of its failures,
  then `ExecSwitch` or `Spawn`) reads the file and maps the segments with interrupts on,
  so the task can be preempted between any two of them. Each failure keeps the frames it had
  taken (`LoadFail`, `RelocateFail`, `StackRefused`).
* `SysFork` is `cow_fork_address_space`: every leaf the parent may write becomes
  read-only and COW in both, in one step, as interrupts are off. `ForkPanic` is its `expect`
  of a frame.
* `Store` is a store the MMU lets through; `CowFault` the copy in `page_fault_handler`,
  `SegFault` and `KernelFault` what it does with any other fault. `SysMmap` and
  `SysMunmap` are the calls, with the pages an `mmap` that fails half-way leaves behind.
* `SpinOnMemory` is a system call or fault that meets `MEMORY` held by a preempted load:
  it spins with interrupts off for ever (`machine = "hung"`).

`PrivateMemory` has one variable, what each space reads at each page, and one action each for
filling an empty space, copying a space to an empty one, storing, mapping and
unmapping. `Isolation` is its specification under the mapping `Reads`: no step of the
kernel changes what another space reads, a fork is a snapshot, nothing writes to the
text, and a copy-on-write fault is a stutter.

Abstractions: a space has one text page, a heap window of `HEAP` pages and one stack page;
data segments behave like the stack page; the interior tables of a space are counted
with its root as one frame; a page holds one value. Relocation arithmetic, huge pages,
the kernel's half and its heap are left out.

### Storage

One disk on one port, transfers of one block. A task's walk through a transfer is `pc`:
the lock of the mounted filesystem (`LockFs`), the registry's (`LockDevices`), the DMA
session (`OpenSession`, which marks the pool and takes the bounce buffer), the command
(`Submit`, `Ring`, `Poll`, `Yield`), `AfterCommand` (a write goes on with FLUSH CACHE),
and back through `CloseSession`, `UnlockDevices`, `NextTransfer` and `UnlockFs`. Each error path
of the code is an action of its own (`SubmitFails`, `RingFails`, `PollFails`,
`ProbeFails`). A kernel task can be preempted between any two of these; a system call keeps
the processor (`cpu`) but for `Yield`. The limit of the polling loops is a choice
that can be made at any poll. `CheckMmioCap` passes for the driver and for anyone while
`ioDepth` is above 0, and is made again at every access to a register.

`disk`, `cache` and `platter` are external: the disk fetches the command table the port
points to when it gets to it, completes or reports an error at its own pace, and only a
flush moves its cache to the platter, which is what a power cut leaves. Its data goes to the page the table names *when it moves it*,
so a command that was abandoned can reach a page that has a new owner.

`overlapped` and `late` are histories: a session was opened inside another (`identify`
does not take `DEVICES`), or a session was closed while its command was still the
disk's. The code makes no promise after either; `PoolReturned` and `SuccessIsReal` say
what holds until then. Transfers that bypass the filesystem's lock are made by the kernel
task only; the self-test and the mount of `ahci-init` go to `DEVICES` in the same way, before
anything is mounted. A debug build asserts on the first (`dma.rs`, `in_mark`); the model is the
release build, which goes on.

## 3. Runs

| Run | Instance | Shows |
|---|---|---|
| `process` | 2 programs, SIGKILL and SIGCHLD, 1.7 million states | `OneRunning`, `NoLostChild`, `ProcessTree`, `EndsOnce` with every call of the model |
| `process_tree` | 3 programs that fork, wait, kill and exit, fair timer | `IndInv`, the invariant of the proofs, on trees with orphans and grandchildren; `RunnableRuns`, `OrphanReaped`, `WaitReturns` |
| `capability` | 3 tasks, 2 objects, 2 slots | `RightsMonotonic`, `SlotStable` |
| `input` | a reader and a poller, a buffer of 3, 3 bytes from keyboard or mouse, fair scheduling; 158 thousand states | `NoLostIrq`, `OneBytePerWake`, `Fifo`, `NoStaleWaiter`, `ByteIsRead` |
| `ipc` | 2 callers, a service, a program, 3 messages | `EachMessageOnce`, `SlotWhileCalling`, `ReplyToOwnRequest` |
| `descriptors` | 3 programs, a stream, tables of 3, a pipe of 1 byte, a socket, 3 bytes in writes of 2 | `EndsCounted`, `CallHoldsEnd`, `StreamIntact`, `LastCloseUnblocks` |
| `desktop` | a program and the demo client, 2 windows, event queues of 1, a terminal, a key; 4.1 million states | `SceneMirrorsRegistry`, `FocusIsTop`, `NoLostRepaint`, `KeysNotLeaked` |
| `nextfs` | 6 blocks of 2 units, 3 inodes, 2 direct and 1 indirect pointer, 2 names, 7 operations; 372 thousand states | `BlocksOwnedOnce`, `NoLeak`, `TreeSound`, `ReadBack`, `IndirectNeeded` |
| `memory` | 2 programs and the loader, 2 spaces, a heap of 2 pages, 6 frames; 760 thousand states | `MemoryInv`, the invariant of the proofs; `NoWritableSharing`; `Isolation`: `AddressSpace` implements `PrivateMemory` |
| `storage` | a shell, a program, the network driver and `ahci-init`, one block, a pool of 5 pages, 2 transfers; 320 thousand states | `PoolReturned`, `SuccessIsReal`, `TransferEnds` |
| `truncate_reuse`, `exec_space` | - | the findings of section 4 |

The type invariant is checked in every run, on its own or as the first conjunct of
another invariant (`SlotWhileCalling`, `EndsCounted`, `SceneMirrorsRegistry`,
`PoolReturned`, `MemoryInv`, `IndInv`). The inductive invariants of the other proofs (`IpcInv`,
`DescriptorsInv`, `StorageInv`, `CompositorInv`) hold on the same instances. That of
`NextFS` says that some order of the inodes exists and quantifies over all places of a file, so it is not
run; the properties it implies are.

Why the bounds are enough: two programs suffice for every interaction of a parent
with a child, of a signal with a sleeping target and of init with an orphan; the
tree run has the chain of grandparent, parent and child, so that an adoption can meet
a reaping in progress. Two slots are enough for a capability to be
granted on, revoked and its slot reused. A ring of 3 holds 2 characters, rejects a third
if none was read and wraps with it otherwise; three bytes are a key, the mouse byte that makes the
mouse driver run, and the key it takes or that makes the keyboard driver read an empty
controller. Several readers compete for the ring through `INPUT` alone, as the reader and
the poller do; the theorems are about any number of them. Three messages allow a queue of two behind one that is being
answered. A pipe of one byte is full after half of a write of two, so a writer goes
round its loop, and three programs can hold the two ends in every combination while one
of them forks or exits. Two windows of two clients and a terminal give frame lists of up
to three, so a frame is removed below, at and above the focused one and the focus passes
between two clients and between a client and a terminal; the static windows of the boot
scene are taken to be closed (`Infos` is 0), as the loop only raises and closes them; a queue of
one event is full after the first, and one key is enough to reach the wrong client.
On the disk of six blocks one large file (two direct blocks, the indirect block and one
behind it) and the root leave one block, so every operation runs out of space in
some behaviour; a directory fills its first block with two entries and must grow; and
seven operations suffice to create, fill, cut, refill and remove a file beside a
directory with a reboot in between.
Of the six frames a load takes three (root, text, stack) and a fork one, which leaves two
for copies and `mmap`: every allocation of the code is the one that fails in some
behaviour, and a heap of two pages is mapped in part. A third space, made by
a later `exec`, needs a seventh frame; the properties hold on that instance with a heap of one page
(740 thousand states), and the theorem is about any number. Two transfers are one that is abandoned and the one that gets its
pages, or one that holds the locks and the one that meets them; five pages of pool are
the two the port keeps, a session of two and a page that an overlapping session runs out on.
Every bound (`MaxId`, `MaxBytes`, `MaxMsgs`, `MaxTicks`, `MaxSlots`,
`MaxFd`, `MaxPipes`, `MaxSockets`, `MaxOps`) is a
guard on the action that would exceed it.

Fairness. The timer is a device that keeps firing (`WF(TimerTick)`). A task that is
switched to with interrupts off goes on (`WF(WaitResume)`). A kernel task that is
scheduled again and again gets work done in some of its quanta, because a quantum is
55 ms and a section a few microseconds (`SF(ReaperStep)`, `SF(KbdStep)` and the like).
In `input` the assumption is confined to the two tasks that matter: the keyboard driver and
whoever holds `INPUT` are switched to again and again and get a step done, and the
timer does not switch to that driver only at the moments when a preempted task holds
`INPUT`; nothing is assumed of the mouse driver. In `Storage` each task's next step is weakly fair and nothing is
assumed of the disk: it may never answer.
A program that waits on a pipe is runnable and is scheduled again
(`WF` of its next round in `Descriptors`). Round-robin itself, which these modules take
for granted, is what `RunnableRuns` shows of `Process`.

Deadlock is checked in every passing run but `descriptors` and `storage`, where all programs may have
ended or all transfers be done. A machine that has panicked or hung (the findings) is an explicit stuttering action
(`Halted`, `Hung`; `Stop` in `NextFS`), so that such a state is not mistaken for a deadlock of the tasks.

## 4. Findings

Each is a run in which TLC shows the code violating a statement of the repository.

| Run | What happens |
|---|---|
| `exec_space` | `do_exec` and `spawn_user_from_entry` take the last entry of `user_page_tables` after a load with interrupts on. A load of another task, or a fork, that stores its space in between gives the program the space made for the other one. |
| `truncate_reuse` | Cutting a file within the range of its indirect block frees the blocks cut off, but the indirect block still points to them: the next file gets blocks that this one reads and writes again as soon as it grows. |

Met while reading and visible in the models, without a run of their own: the first task
created after some task is Dead reuses its slot, and dropping the old `GuardedStack`
unmaps a guard page that was never mapped, so that the `expect` panics
(`memory.rs:263`; `ahci-init` leaves a Dead slot on every boot); `receive` on an empty queue takes the
scheduler's lock inside the scheduler's lock (`ipc.rs:210`); programs
launched by the boot loader have no parent, so their zombies are never reaped
(`ProcessTree` says which tasks have a parent, and `OrphanReaped` is about init's);
a program whose `read(0)` finds `INPUT` held by a preempted task spins for ever with
interrupts off (`Input!Hung`, the exception in `ByteIsRead`); the mouse driver drains the data port that the
keyboard driver reads and drops "stray" keyboard bytes (`mouse.rs:215`), although
`interrupts.rs:307` says that the byte stays in the controller until the driver drains
it, "so nothing is lost": the key is gone, and the keyboard driver, woken for it, takes an old key again or a
byte of the mouse for a key (`Stolen`, the condition in `OneBytePerWake` and `Fifo`);
`receive` would lose
the message its second look takes (`RecvRegister` puts it aside, nothing hands it
out) if it did not hang first; SIGCHLD is posted whatever the parent's disposition, so
`pending` may hold signals without a handler (`signal.rs:120`); `signal()` accepts a
handler for SIGSTOP (`signal.rs:61`); no timer wakes a caller asleep in `call` at its
deadline (`ipc.rs:226`); a socket shared over fork is destroyed by the first close; a
failed `pipe()` or `socket()` leaks what it made before it failed; `terminate_task` does
not destroy the windows of the task it kills, although `wm.rs:246` says "normally or
because it was terminated by a fault"; a reader in its second round of `read_char_blocking` runs with interrupts on and
can be woken before it sleeps; a new window gets `EV_FOCUS` twice, and one framed below
another new one never gets `EV_BLUR` (`gui.rs:523` says exactly once); `EV_CLOSE` goes
into a queue that the next section frees (`gui.rs:656`); a drag is not ended when its
window goes: it goes on with whatever window is on top, and with none left the next
mouse sample unwraps an empty list (`gui.rs:608`, the `"panic"` of `Compositor`); a shell
takes keys typed after it lost the focus (`terminal.rs:34`); a reply between `call`'s
check and its sleep is not noticed (`ipc.rs:273`).

In memory: the interior tables that fork builds for the child are not writable, so the child's first
store to an inherited page is copied, faults again and ends the child with 139, where
`interrupts.rs:249` says that the faulting store is re-executed; a store of the
kernel itself to a copy-on-write page (a system call's buffer) panics, as does the fork
that finds no frame for its table; a task that faults, forks or
maps while a preempted load holds `MEMORY` spins for ever, and every access to a device
register takes `MEMORY` too; fork starts `mmap_next` over, so the child's first `mmap`
meets the pages it has inherited and fails; no frame is ever freed, neither by `munmap` nor
at exit.

In block I/O: `lock_fs` turns interrupts off only while it spins, although
`fs/mod.rs:61` speaks of the whole critical section, and a file call that meets a preempted
or sleeping holder hangs the machine (the exception in `TransferEnds`); a command that
timed out is still the disk's while its pages go to the next transfer; `identify`
overlaps the sessions of others; the I/O guard is one counter for all tasks, so that a
task without the capability gets as far into its transfer as another's guard lasts; the error
bit of a previous command is not cleared before the next one is polled; the self-test
restores the block it wrote in separate sections.

In NextFS: no system call syncs, so that after a reboot blocks that programs allocated
are free again although their inodes have them (`driver/mod.rs:53` says "persistent across
reboots"); `write_file` on a full disk frees blocks that the inode on disk keeps; a
rollback leaves the inode it gives up marked in use on disk, so that the next mount loses
it and `free_inodes` is then too large; `create_dir` without a free block keeps its inode;
a cut to 0 keeps block 0, so the old data reappears when the file grows again; a file
grown by `truncate` beyond the largest file and then cut within the indirect range reads
past the indirect block (`nextfs.rs:1141`); a `write` through a descriptor of a directory
is accepted and overwrites its entries; one through the descriptor of a removed file is
refused only while the inode is free, and otherwise reaches whatever file has it now, or an inode
that a failed create left behind and no path names; the size of a directory is advanced twice per append (`nextfs.rs:830`),
which is harmless only because a block holds an even number of entries.

## 5. Proofs

All constants are arbitrary within the named assumptions (`ConstantsAssumption`,
`CapabilityAssumption`, `InputAssumption`, `IpcAssumption`, `DescriptorsAssumption`,
`AddressSpaceAssumption`, `StorageAssumption`, `WmAssumption`, `CompositorAssumption`,
`NextFSAssumption`),
which TLC evaluates in every run. They say that sizes are numbers (positive where the
code's are), that the sets of tasks do not overlap, and that the values used for
"nobody" and "nothing" are no task and no data; of `NextFS` also that a block holds
an even number of entries (8 in the code: `add_dir_entry` relies on it, section 4), that
"." and ".." are no names of files, and that writes start and files are cut or grown within the largest
file. Every safety property that a passing run checks is a theorem; the type invariant of `NextFS`
is one up to a harm `"descriptor"`, after which it is only model-checked.

None of the properties is inductive alone. Each proof has an invariant that is, one lemma
per action (or group of actions that leave the same things alone) that the action
keeps it, and one step from it to each property.

* **`ProcessProofs`** proves `Spec => []IndInv` (`Inductive`) and from it
  `TypeCorrect`, `SchedulerSound`, `WaitSound`, `TreeSound`, `FdsReleased` and the
  action property `EndingIsFinal`, for any number of tasks. That a parent is found by its
  children needs the table to list
  exactly the ids in use and new ids to be fresh (`TableInv`); that adoption keeps the
  tree needs parents to be older than their children and init to be alive
  (`TreeInv`: an ended task is not its own ancestor); that an exit wakes the waiting
  parent needs the sleeper to be marked `wait_blocked` (`WaitInv`); that `reap_orphans`
  retires only zombies of init needs what it has read to stay true while it is
  preempted (`ReaperInv`). There is one lemma per action and conjunct that the action
  can disturb.
* **`InputProofs`** proves the handshake between `irq::wait`, the interrupt handlers and
  the loops of both drivers (`NoInterruptLost`, `OneByteEnough`). The invariant `IrqInv` adds that
  only the current task runs, and that, until the mouse driver takes a byte of the
  keyboard, a key, its raised interrupt, its counted interrupt and the keyboard driver's
  service of it are one token in one place (`OnePlace`). On top of
  it `ConsoleInv` gives `KeysFifo`, `WaitersFresh` and `InputTyped`: whoever is inside a
  section of `INPUT` holds its lock (`LockHeld`), no accepted key is younger than the
  last byte sent or the one in the driver's hand, and, again until a byte is stolen, a key in the
  controller or in the driver is younger than all that were accepted (`KeysNew`). The ring is read through
  lemmas that do its index arithmetic without remainders.
* **`IpcProofs`** proves `MessagesOnce`, `SlotsExact` and `RepliesOwn` from `IpcInv`. Added are:
  a program inside `receive` has interrupts off and the CPU to itself, and only a task between
  the two halves of the slow path has a message put aside (`PlacesInv`); what a
  service replies to has been sent, by a task that is not a service, so that a reply
  goes to a caller's slot or nowhere (`SendersInv`). Its second part is about
  `Capability`: `TablesTyped`, `NoAmplification` and `SlotsStay`, from a
  lemma on what `Insert` does to a table (it fills one free slot, the next one if none is free).
* **`NextFSProofs`** proves `Spec => [](Inv /\ StaleOK)` (`Invariant`) and from it `Types`, `OwnedOnce`,
  `NothingLeaks`, `TreeStays`, `ReadsBack` and `LargeIfIndirect`, for any number of blocks,
  inodes, names, direct and indirect pointers and operations (`StaleOK` is the type of `stale`). `Inv` has three parts:
  - until a write goes to what is no linked file (`harm = "descriptor"`), the types, and that the mounted and the synced header count their free blocks (`Typed`);
  - until harm is done, `Sane`: the inodes that paths reach have good pointers, their
    blocks are apart and not free, an indirect block is there only beyond the direct ones, a
    directory has all of its blocks, an even size and nothing stored beyond it (`Sound`), and
    there is an order of the inodes in which each has exactly one entry, in a directory below it,
    with "." and ".." right and no name twice (`Tree`); and every place of a file that only its own descriptors have written to, beyond
    its size too, holds its own data or a zero where nothing was written (`FilesRead`): without
    the places beyond the size a file that grows again could read anything;
  - while no call has failed and no reboot happened, every block is free or
    owned, and none lies behind its inode's size (`NoneLost`).

  The argument goes from the bottom up. What a write does to one inode is `Extends` (it keeps
  the pointers, takes free blocks only, and each place holds what it held or what was
  written), what a cut does is `Cut`. An operation is `Local` to one inode if it changes that inode's own
  blocks and free ones only; then all others own, hold and read what they did
  (`LocalOthers`). Creation, removal and moves of an entry are changes of the tree
  alone (`ShapeAdd`, `ShapeRemove`, `ShapeMove`). `Linked` is computed by a walk of as many
  rounds as there are inodes; `TreeLinked` shows that it is the set of the tree, since a
  least inode in the order that the walk misses would have its entry in one that it
  reaches. Then there is one lemma per operation, and harm needs only the types.
  `CutsHarmless` is about the finding `truncate_reuse`: a cut to the direct blocks or less
  leaves allocator and inodes in agreement, so the statement that the finding refutes
  fails within the indirect range only.
* **`DescriptorsProofs`** proves `EndsAreCounted`, `WaitersHoldEnds` and `StreamsIntact`
  from `DescriptorsInv`. The counts are cardinalities of sets of descriptors over
  all tables, so fork and exit need that a descriptor number is free when it is given
  out, that a table that is not in use is empty (`TablesInv`), and that nothing
  refers to a pipe that has not been made (`PipesInv`); what `write` reports needs that only a
  waiting write has bytes behind it (`CallsInv`).
* **`AddressSpaceProofs`** proves `SharingSound` from `MemoryInv` (a space that is not stored yet
  maps nothing, a task runs in a stored one, an entry without a frame is empty, the text is never
  writable), and `SpacesIsolated`: `AddressSpace` implements `PrivateMemory`. The
  initial states map to the empty memories; each step maps to a step of `PrivateMemory` or
  to a stutter. A store reaches the one page that maps its frame, because a writable
  frame is not shared; a copy is made into a frame nobody maps; a fork changes flags
  and not frames, so both sides read on what the parent had.
* **`StorageProofs`** proves `PoolIsReturned` and `SuccessesReal` from `StorageInv`. A step of a
  task leaves the others where they are (`OnlyTask`). `TransfersInv` says what a task asks for at
  each place of a transfer and who holds `DEVICES`; `PoolInv` that sessions which do not overlap
  are one at a time, with the pool's mark under it; `DiskInv` that the disk then works on the
  command of the open session and on nothing else, and that what a command has done stays done until the
  result is handed over, because a transfer that could undo it would need `DEVICES`.
* **`CompositorProofs`** proves `FramesMirror`, `FocusOnTop`, `RepaintsKept` and `KeysStay` from
  `CompositorInv`. The mirror needs that ids are never given out twice, that a new window is
  announced once and before it has a frame, and that an announced end is final (`IdsInv`), and that the id
  in hand has a frame while the close button's steps are under way (`HandInv`): without
  it `CloseDestroy` would remove a frame that is not there. `KeysStay` needs that from the flush on the
  console has only keys of the client with the focus, and that the focus does not move
  while keys are routed (`RoutingInv`).

Model-checked only:

* liveness (`RunnableRuns`, `OrphanReaped`, `WaitReturns`, `ByteIsRead`, `LastCloseUnblocks`,
  `TransferEnds`), which the prover does not reach.

## 6. Not modelled, and the plan

In the order planned:

1. `NextFS`, further: permissions and owners, the positions of descriptors, what an
   overwritten directory leads to.
2. `Terminals`: slots, the list of shells to start and their adoption, the grid and the
   escape parser.
3. `Services` and `Net`: requests over `call`, the socket life cycle beyond the map; the
   user frames of nested signal handlers.

Left out for good: drawing, fonts, serial and VGA output, descriptor tables, the
decoding of scancodes and packets, the shell's command interpreter, the self-tests,
and smoltcp (a library).
