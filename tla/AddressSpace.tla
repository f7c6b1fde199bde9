---------------------------- MODULE AddressSpace ----------------------------
(***************************************************************************)
(* User memory: memory.rs, the loader in elf.rs, mmap and munmap in         *)
(* syscall.rs, exec, spawn and fork in task.rs as far as they change an     *)
(* address space, and the page fault handler in interrupts.rs.              *)
(*                                                                         *)
(* Frames come from a bump allocator and are never given back.  fork shares *)
(* them copy-on-write.  MEMORY is a spin lock: a load holds it with         *)
(* interrupts on, everybody else takes it inside a system call or a fault,  *)
(* with interrupts off.                                                     *)
(***************************************************************************)
EXTENDS Naturals, FiniteSets, FiniteSetsExt

CONSTANTS Tasks,       \* user tasks; a forked or spawned task is one not used before
          Loader,      \* the kernel task that spawns programs from disk
          HEAP,        \* pages of the heap window
          FRAMES,      \* bound: frames the allocator has for user memory
          MaxSpaces,   \* bound: address spaces
          Values       \* what programs store

\* The pages of a space: the program's text, the heap window, the stack.
Text  == 0
Heap  == 1..HEAP
Stack == HEAP + 1
Pages == 0..(HEAP + 1)
Image == {Text, Stack}

\* Pages under the same interior page tables.
Regions == {"image", "heap", "stack"}
Region(p) == CASE p = Text -> "image" [] p \in Heap -> "heap" [] p = Stack -> "stack"

Zero == 0              \* a cleared page
Code == 1              \* the text of a program, its relocations applied
Junk == 2              \* what a frame holds that nobody has cleared
Unmapped == 3          \* what a page reads that is not mapped
Args == 4              \* argc, argv and envp on a new stack

Nobody == "nobody"     \* MEMORY is free

ASSUME AddressSpaceAssumption ==
    /\ Loader \notin Tasks /\ Nobody \notin Tasks \cup {Loader}
    /\ HEAP \in Nat \ {0} /\ FRAMES \in Nat /\ MaxSpaces \in Nat
    /\ Values \subseteq Nat \ {Unmapped}

Spaces == 1..MaxSpaces
NoEntry == [frame |-> 0, writable |-> FALSE, cow |-> FALSE]
Entries == [frame : 0..FRAMES, writable : BOOLEAN, cow : BOOLEAN]

VARIABLES
    machine,     \* "up", "panic", or "hung" on MEMORY
    frames,      \* BootInfoFrameAllocator.next: frames handed out
    content,     \* what each frame holds
    pt,          \* pt[s][p]: the leaf entry of page p
    upper,       \* upper[s]: the regions whose interior entries are WRITABLE
    made,        \* user_page_tables: the spaces 1..made, in the order they were stored
    lock,        \* who holds MEMORY
    pc,          \* where a task is
    cr3,         \* the space a task runs in
    home,        \* the space that was made for it
    mmapNext     \* mmap_next, as a heap page

allocVars == <<frames, content>>
taskVars  == <<pc, cr3, home, mmapNext>>
vars == <<machine, allocVars, pt, upper, made, lock, taskVars>>

Init ==
    /\ machine = "up"
    /\ frames = 0 /\ content = [f \in 1..FRAMES |-> Junk]
    /\ pt = [s \in Spaces |-> [p \in Pages |-> NoEntry]]
    /\ upper = [s \in Spaces |-> {}]
    /\ made = 0
    /\ lock = Nobody
    /\ pc = [t \in Tasks \cup {Loader} |-> IF t = Loader THEN "idle" ELSE "unborn"]
    /\ cr3 = [t \in Tasks |-> 0]
    /\ home = [t \in Tasks \cup {Loader} |-> 0]
    /\ mmapNext = [t \in Tasks |-> 1]

-----------------------------------------------------------------------------
(* The machine *)

Goto(t, l) == pc' = [pc EXCEPT ![t] = l]

InUser(t) == machine = "up" /\ pc[t] = "user"

\* A system call or a fault handler that has MEMORY to itself.
Enter(t) == InUser(t) /\ lock = Nobody

\* with_memory inside a system call or the fault handler, while a preempted load
\* holds the lock: the task spins with interrupts off, so nobody else ever runs.
SpinOnMemory(t) ==
    /\ machine = "up" /\ lock \notin {Nobody, t}
    /\ t \in Tasks /\ pc[t] \in {"user", "loaded"}
    /\ machine' = "hung"
    /\ UNCHANGED <<allocVars, pt, upper, made, lock, taskVars>>

Panic ==
    /\ machine' = "panic"
    /\ UNCHANGED <<allocVars, pt, upper, made, lock, taskVars>>

\* Frames left to hand out.
Left == FRAMES - frames

\* The CPU lets space s write to page p: every level of the walk says so.
CanWrite(s, p) == pt[s][p].writable /\ Region(p) \in upper[s]

-----------------------------------------------------------------------------
(* The loader: elf::load_from_file *)

\* SYS_EXEC, or spawn_user_task_from_file: the file is opened and read with
\* interrupts on.
LoadStart(t) ==
    /\ machine = "up" /\ pc[t] \in {"user", "idle"}
    /\ Goto(t, "read")
    /\ UNCHANGED <<machine, allocVars, pt, upper, made, lock, cr3, home, mmapNext>>

\* Back to the caller with an error.
LoadReturn(t) == Goto(t, IF t = Loader THEN "idle" ELSE "user")

\* open, seek, read or ElfBinary::parse fails.
LoadRejected(t) ==
    /\ machine = "up" /\ pc[t] = "read"
    /\ LoadReturn(t)
    /\ UNCHANGED <<machine, allocVars, pt, upper, made, lock, cr3, home, mmapNext>>

\* ElfBinary::load takes MEMORY for all of its work, interrupts on.
LoadLock(t) ==
    /\ machine = "up" /\ pc[t] = "read" /\ lock = Nobody
    /\ lock' = t
    /\ Goto(t, "mapping")
    /\ UNCHANGED <<machine, allocVars, pt, upper, made, cr3, home, mmapNext>>

Mapping(t) == machine = "up" /\ pc[t] = "mapping"

\* create_user_mapper expects a frame for the new page table.
LoadPanic(t) == Mapping(t) /\ Left = 0 /\ Panic

\* load returns an error after k of the pages were mapped.  The frames taken so
\* far are lost, and the page table is not stored.
LoadError(t, k) ==
    /\ Mapping(t) /\ Left > k
    /\ frames' = frames + 1 + k
    /\ lock' = Nobody
    /\ LoadReturn(t)
    /\ UNCHANGED <<machine, content, pt, upper, made, cr3, home, mmapNext>>

\* A page cannot be mapped: no frame is left, two segments meet in one page, or
\* the bytes of the segment are not in the file.
LoadFail(t) == \E k \in 0..Cardinality(Image) : LoadError(t, k)

\* A relocation of the mapped segments has no target; the stack comes after.
RelocateFail(t) == LoadError(t, Cardinality(Image \ {Stack}))

\* argv and envp do not fit in the top page of the stack.
StackRefused(t) == LoadError(t, Cardinality(Image))

\* The frame the k-th page of a new space gets; the first one is the page table's.
ImageFrame(p) == frames + 1 + Cardinality({q \in Image : q <= p})

\* create_user_mapper: a page table with the kernel's mappings and no user page.
\* deep_copy_table gives it interior tables of its own.
NewTable == [p \in Pages |-> NoEntry]

\* Segments are mapped with their flags, the text read-only, then the stack.
ImageTable ==
    [p \in Pages |-> IF p \in Image
                       THEN [frame |-> ImageFrame(p), writable |-> p = Stack, cow |-> FALSE]
                       ELSE NewTable[p]]

\* Frames are cleared, then the bytes of the file that fall in them are copied;
\* the top page of the stack is given the arguments.
ImageContent(f) ==
    IF f = ImageFrame(Text) THEN Code ELSE IF f = ImageFrame(Stack) THEN Args ELSE content[f]

\* load succeeds: segments and stack are mapped, store_user_mapper records the space.
LoadMap(t) ==
    /\ Mapping(t) /\ Left > Cardinality(Image) /\ made < MaxSpaces
    /\ frames' = frames + 1 + Cardinality(Image)
    /\ content' = [f \in 1..FRAMES |-> ImageContent(f)]
    /\ made' = made + 1
    /\ pt' = [pt EXCEPT ![made + 1] = ImageTable]
    /\ upper' = [upper EXCEPT ![made + 1] = {"stack"}]
    /\ lock' = Nobody
    /\ home' = [home EXCEPT ![t] = made + 1]
    /\ Goto(t, "loaded")
    /\ UNCHANGED <<machine, cr3, mmapNext>>

\* do_exec, interrupts off again: the task moves to the last space stored.
\* mmap_next is kept.
ExecSwitch(t) ==
    /\ machine = "up" /\ t \in Tasks /\ pc[t] = "loaded" /\ lock = Nobody
    /\ cr3' = [cr3 EXCEPT ![t] = made]
    /\ Goto(t, "user")
    /\ UNCHANGED <<machine, allocVars, pt, upper, made, lock, home, mmapNext>>

\* spawn_user_from_entry: the new task is given the last space stored.
Spawn(c) ==
    /\ machine = "up" /\ pc[Loader] = "loaded" /\ lock = Nobody
    /\ pc[c] = "unborn"
    /\ pc' = [pc EXCEPT ![c] = "user", ![Loader] = "idle"]
    /\ cr3' = [cr3 EXCEPT ![c] = made]
    /\ home' = [home EXCEPT ![c] = home[Loader]]
    /\ mmapNext' = [mmapNext EXCEPT ![c] = 1]
    /\ UNCHANGED <<machine, allocVars, pt, upper, made, lock>>

-----------------------------------------------------------------------------
(* fork *)

\* A faulty variant of ShareLeaf: the write permission stays.
ShareLeafWritable(e) == IF e.writable THEN [e EXCEPT !.cow = TRUE] ELSE e

\* cow_fork_address_space, one leaf: a writable page becomes read-only and
\* copy-on-write; a page that is read-only already is shared as it is.
ShareLeaf(e) ==
    IF e.writable THEN [e EXCEPT !.writable = FALSE, !.cow = TRUE] ELSE e

\* The leaves the parent keeps, and those the child gets for the pages P.
SharedTable(s, P) == [p \in Pages |-> IF p \in P THEN ShareLeaf(pt[s][p]) ELSE NoEntry]

\* The pages mapped in the child, lowest first.  map_to takes frames for the
\* interior tables of a region; when none is left the page is skipped.
Copied == IF Left > 1 THEN {Pages} ELSE {{}, {Text}, {Text} \cup Heap, Pages}

\* do_fork: the child's leaves are mapped with PRESENT and USER_ACCESSIBLE before
\* they are overwritten, so no interior table of the child is writable, and its
\* mmap_next starts over.
SysFork(t, c) ==
    /\ Enter(t) /\ pc[c] = "unborn" /\ Left > 0 /\ made < MaxSpaces
    /\ frames' = frames + 1
    /\ \E P \in Copied :
         pt' = [pt EXCEPT ![cr3[t]] = SharedTable(cr3[t], Pages),
                          ![made + 1] = SharedTable(cr3[t], P)]
    /\ upper' = [upper EXCEPT ![made + 1] = {}]
    /\ made' = made + 1
    /\ Goto(c, "user")
    /\ cr3' = [cr3 EXCEPT ![c] = made + 1]
    /\ home' = [home EXCEPT ![c] = made + 1]
    /\ mmapNext' = [mmapNext EXCEPT ![c] = 1]
    /\ UNCHANGED <<machine, content, lock>>

\* create_user_mapper expects a frame.
ForkPanic(t) == Enter(t) /\ Left = 0 /\ Panic

-----------------------------------------------------------------------------
(* Loads and stores *)

\* A store that the page tables allow, by the program or by a system call that
\* fills the caller's buffer.
Store(t, p, v) ==
    /\ InUser(t) /\ CanWrite(cr3[t], p)
    /\ content' = [content EXCEPT ![pt[cr3[t]][p].frame] = v]
    /\ UNCHANGED <<machine, frames, pt, upper, made, lock, taskVars>>

\* page_fault_handler can resolve the fault.
Resolvable(e) == e.frame # 0 /\ ~e.writable /\ e.cow /\ Left > 0

\* A faulty variant of PrivateLeaf: the flag is cleared and the old frame kept.
PrivateLeafInPlace(e) == [e EXCEPT !.writable = TRUE, !.cow = FALSE]

\* The leaf after the fault: a fresh frame, writable, no longer copy-on-write.
PrivateLeaf(e) == [e EXCEPT !.frame = frames + 1, !.writable = TRUE, !.cow = FALSE]

\* page_fault_handler: the page is copied to a fresh frame.  The instruction is
\* executed again; it still faults if an interior table forbids writes, and then
\* the leaf is writable and the task is killed.
CowFault(t, p, v) ==
    /\ Enter(t) /\ Resolvable(pt[cr3[t]][p])
    /\ frames' = frames + 1
    /\ pt' = [pt EXCEPT ![cr3[t]][p] = PrivateLeaf(@)]
    /\ IF Region(p) \in upper[cr3[t]]
         THEN content' = [content EXCEPT ![frames + 1] = v] /\ UNCHANGED pc
         ELSE /\ content' = [content EXCEPT ![frames + 1] = content[pt[cr3[t]][p].frame]]
              /\ Goto(t, "dead")
    /\ UNCHANGED <<machine, upper, made, lock, cr3, home, mmapNext>>

\* A fault that is not resolved: do_exit(139).  The frames are not given back.  If
\* the page is not mapped the handler does not look at the page tables.
SegFault(t, p) ==
    /\ InUser(t) /\ (lock = Nobody \/ pt[cr3[t]][p] = NoEntry)
    /\ ~CanWrite(cr3[t], p) /\ ~Resolvable(pt[cr3[t]][p])
    /\ Goto(t, "dead")
    /\ UNCHANGED <<machine, allocVars, pt, upper, made, lock, cr3, home, mmapNext>>

\* A system call stores to a user page that is not writable.  is_user_pointer only
\* checks the range, and a fault in kernel mode is never resolved: panic.
KernelFault(t, p) == InUser(t) /\ ~CanWrite(cr3[t], p) /\ Panic

-----------------------------------------------------------------------------
(* mmap and munmap *)

\* The window sys_mmap_impl takes, n pages from mmap_next.
Window(t, n) == mmapNext[t]..(mmapNext[t] + n - 1)

\* A faulty variant of Mappable: the allocator is not asked.
MappableUnchecked(t, j) == \A p \in Window(t, j) : pt[cr3[t]][p] = NoEntry

\* map_user_region gets through the first j pages: all free, and a frame for each.
Mappable(t, j) ==
    j <= Left /\ \A p \in Window(t, j) : pt[cr3[t]][p] = NoEntry

\* The pages it maps before it is done or gives up.
Mapped(t, n) == Max({j \in 0..n : Mappable(t, j)})

\* Frames it takes: the one whose map_to fails is lost.
Taken(t, n) == IF Mapped(t, n) < n /\ Left > Mapped(t, n) THEN Mapped(t, n) + 1 ELSE Mapped(t, n)

HeapLeaf(t, p) ==
    [frame |-> frames + 1 + p - mmapNext[t], writable |-> TRUE, cow |-> FALSE]

\* The first k pages of the window get cleared frames, in order.
MapHeap(t, k) ==
    /\ pt' = [pt EXCEPT ![cr3[t]] =
                 [p \in Pages |-> IF p \in Window(t, k) THEN HeapLeaf(t, p) ELSE @[p]]]
    /\ content' = [f \in 1..FRAMES |-> IF f \in (frames + 1)..(frames + k) THEN Zero ELSE content[f]]

\* SYS_MMAP of n pages: mmap_next moves whatever happens; pages mapped before an
\* error stay.  map_to opens the interior tables for writing even when it then
\* finds the page taken.
SysMmap(t, n) ==
    /\ Enter(t) /\ mmapNext[t] + n <= HEAP + 1
    /\ mmapNext' = [mmapNext EXCEPT ![t] = @ + n]
    /\ MapHeap(t, Mapped(t, n))
    /\ frames' = frames + Taken(t, n)
    /\ upper' = IF Taken(t, n) > 0 THEN [upper EXCEPT ![cr3[t]] = @ \cup {"heap"}] ELSE upper
    /\ UNCHANGED <<machine, made, lock, pc, cr3, home>>

\* The ranges at or above USER_HEAP_START.
Ranges == ({a..b : a, b \in Heap} \ {{}}) \cup {{Stack}}

\* SYS_MUNMAP: every page of the range is mapped, then all are unmapped.
SysMunmap(t, P) ==
    /\ Enter(t)
    /\ \A p \in P : pt[cr3[t]][p] # NoEntry
    /\ pt' = [pt EXCEPT ![cr3[t]] = [p \in Pages |-> IF p \in P THEN NoEntry ELSE @[p]]]
    /\ UNCHANGED <<machine, allocVars, upper, made, lock, taskVars>>

-----------------------------------------------------------------------------
\* do_exit: the address space is left as it is.
Exit(t) ==
    /\ InUser(t)
    /\ Goto(t, "dead")
    /\ UNCHANGED <<machine, allocVars, pt, upper, made, lock, cr3, home, mmapNext>>

\* A halted machine stays halted.
Halted == machine # "up" /\ UNCHANGED vars

\* All programs have ended and the loader has no task to spawn.
Finished ==
    /\ machine = "up" /\ \A t \in Tasks : pc[t] \in {"dead", "loaded", "mapping"}
    /\ UNCHANGED vars

LoadStep(t) ==
    \/ LoadStart(t) \/ LoadRejected(t) \/ LoadLock(t)
    \/ LoadPanic(t) \/ LoadFail(t) \/ RelocateFail(t) \/ StackRefused(t)
    \/ LoadMap(t)

UserStep(t) ==
    \/ ExecSwitch(t)
    \/ SpinOnMemory(t)
    \/ \E c \in Tasks : SysFork(t, c)
    \/ ForkPanic(t)
    \/ \E p \in Pages, v \in Values : Store(t, p, v) \/ CowFault(t, p, v)
    \/ \E p \in Pages : SegFault(t, p) \/ KernelFault(t, p)
    \/ \E n \in Heap : SysMmap(t, n)
    \/ \E P \in Ranges : SysMunmap(t, P)
    \/ Exit(t)

Next ==
    \/ \E t \in Tasks \cup {Loader} : LoadStep(t)
    \/ \E t \in Tasks : UserStep(t) \/ Spawn(t)
    \/ Halted
    \/ Finished

Spec == Init /\ [][Next]_vars

-----------------------------------------------------------------------------
(* Properties *)

TypeOK ==
    /\ machine \in {"up", "panic", "hung"}
    /\ frames \in 0..FRAMES
    /\ content \in [1..FRAMES -> Values \cup {Zero, Code, Junk, Args}]
    /\ pt \in [Spaces -> [Pages -> Entries]]
    /\ upper \in [Spaces -> SUBSET Regions]
    /\ made \in 0..MaxSpaces
    /\ lock \in Tasks \cup {Loader, Nobody}
    /\ pc \in [Tasks \cup {Loader} ->
                 {"unborn", "idle", "user", "read", "mapping", "loaded", "dead"}]
    /\ cr3 \in [Tasks -> 0..MaxSpaces]
    /\ home \in [Tasks \cup {Loader} -> 0..MaxSpaces]
    /\ mmapNext \in [Tasks -> 1..(HEAP + 1)]

\* Copy-on-write is sound: a frame two spaces map is at the same page in both, and
\* neither may write to it; inside a space no frame is mapped twice; and every
\* mapped frame has been handed out, so no later allocation returns it again.
NoWritableSharing ==
    \A s \in Spaces, p \in Pages :
        pt[s][p].frame # 0 =>
            /\ pt[s][p].frame <= frames
            /\ \A u \in Spaces, q \in Pages :
                  pt[u][q].frame = pt[s][p].frame => p = q /\ (s # u => ~pt[s][p].writable)

\* A space that is not stored yet maps nothing, and a task that has begun runs in
\* one that is.
SpacesInv ==
    /\ \A s \in Spaces : s > made => pt[s] = NewTable
    /\ \A t \in Tasks : pc[t] # "unborn" => cr3[t] \in 1..made
    /\ \A t \in Tasks \cup {Loader} : pc[t] = "loaded" => made > 0

\* An entry without a frame says nothing else, and the text is never written to.
EntriesInv ==
    \A s \in Spaces, p \in Pages :
        /\ pt[s][p].frame = 0 => pt[s][p] = NoEntry
        /\ p = Text => ~pt[s][p].writable /\ ~pt[s][p].cow

\* The inductive invariant behind NoWritableSharing and Isolation.
MemoryInv == TypeOK /\ SpacesInv /\ EntriesInv /\ NoWritableSharing

\* What space s reads at page p.
Reads(s, p) == IF pt[s][p] = NoEntry THEN Unmapped ELSE content[pt[s][p].frame]

Private == INSTANCE PrivateMemory WITH
    ReadOnly <- {Text},
    Values   <- Values \cup {Zero, Code, Junk, Args},
    Absent   <- Unmapped,
    memory   <- [s \in Spaces |-> [p \in Pages |-> Reads(s, p)]]

\* The address spaces implement memories of their own: sharing frames between
\* parent and child is never seen by either, whoever faults, maps or unmaps first.
Isolation == Private!Spec

\* do_exec and spawn_user_from_entry: "The freshly created mapper is the
\* most-recent entry in user_page_tables", so a task runs in the space made for it.
OwnSpace == \A t \in Tasks : pc[t] = "user" => cr3[t] = home[t]
=============================================================================
