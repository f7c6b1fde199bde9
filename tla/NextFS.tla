------------------------------- MODULE NextFS -------------------------------
(***************************************************************************)
(* NextFS (kernel/src/fs/nextfs.rs): inodes, directories, files with direct *)
(* and indirect blocks and the two allocators, as programs use it through   *)
(* the path and file calls of fs/vfs.rs and the shell through its nx        *)
(* commands.                                                                *)
(*                                                                          *)
(* An operation holds the lock of the mounted filesystem from start to end  *)
(* (with_fs_mut), so it is one step; a program's call finds the directory   *)
(* of its path under an earlier lock, and may find it gone.  Inodes and blocks are written to disk *)
(* at once; the free-block bitmap and the counters of the superblock live   *)
(* in memory until sync(), which only the shell's commands call.            *)
(*                                                                          *)
(* The unit of sizes is 64 bytes, a directory entry.  Permissions, owners,  *)
(* times and the errors of the block device are left out.                   *)
(***************************************************************************)
EXTENDS Integers, FiniteSets, FiniteSetsExt, Functions

CONSTANTS
    Names,         \* file names
    BLOCKS,        \* data blocks of the device
    INODES,        \* inode_count: the inode numbers in use are 1..INODES-1
    SLOTS,         \* units per block (8 in the code)
    DIRECT_PTRS,   \* 9 in the code
    PTRS,          \* pointers per indirect block (128 in the code)
    Offsets,       \* where programs write
    Lengths,       \* lengths of writes
    Sizes,         \* sizes that files are cut or grown to
    MaxOps         \* bound: operations and reboots

ROOT_INODE == 1
Limit      == DIRECT_PTRS + PTRS             \* the most blocks an inode can have

\* The size of a directory grows by two units at a time, from two.
ASSUME NextFSAssumption ==
    /\ BLOCKS \in Nat \ {0} /\ INODES \in Nat /\ INODES > 1
    /\ SLOTS \in Nat \ {0} /\ SLOTS % 2 = 0
    /\ DIRECT_PTRS \in Nat \ {0} /\ PTRS \in Nat \ {0}
    /\ Offsets \subseteq 0..(Limit * SLOTS) /\ Sizes \subseteq 0..(Limit * SLOTS)
    /\ Lengths \subseteq Nat \ {0}
    /\ MaxOps \in Nat
    /\ Names \cap {".", ".."} = {}

Blocks     == 1..BLOCKS
Inodes     == ROOT_INODE..(INODES - 1)
Cells      == 0..(SLOTS - 1) \cup 0..(PTRS - 1)   \* a block as an array

\* What a cell of a block holds: nothing (zero), a directory entry, a pointer, or
\* the data a file's write put at place p of the file.
Zero        == <<"zero">>
Entry(n, i) == <<"entry", n, i>>
Ptr(b)      == IF b = 0 THEN Zero ELSE <<"ptr", b>>
Data(f, p)  == <<"data", f, p>>
ZeroBlock   == [c \in Cells |-> Zero]
PtrOf(cell) == IF cell = Zero THEN 0 ELSE cell[2]

NoBlocks   == [k \in 0..(DIRECT_PTRS - 1) |-> 0]
Inode(t, size, direct) == [type |-> t, size |-> size, direct |-> direct, indirect |-> 0]
FreeInode  == Inode("free", 0, NoBlocks)
NewFile    == Inode("file", 0, NoBlocks)
NewDir(b)  == Inode("dir", 2, [NoBlocks EXCEPT ![0] = b])
DirBlock(i, parent) == [ZeroBlock EXCEPT ![0] = Entry(".", i), ![1] = Entry("..", parent)]

VARIABLES
    inodes,     \* the inode table, on disk
    blocks,     \* the data blocks, on disk
    fs,         \* the mounted NextFS: bitmaps and counters in memory
    synced,     \* the bitmap and counters on disk
    file,       \* history: which file (by number) each inode holds
    written,    \* history: places of each inode's file written since it was last cut there
    files,      \* files ever created
    stale,      \* inode and file of the descriptors that outlived what they were opened on
    failed,     \* history: some call has run out of space
    harm,       \* what has left a block both free and in use, a directory cut off or
                \* overwritten, or an inode with blocks that no path names
    rebooted,   \* history: the machine has been switched off
    ops         \* operations so far

vars == <<inodes, blocks, fs, synced, file, written, files, stale, failed, harm, rebooted,
          ops>>

\* The filesystem as an operation sees it, and what it has computed so far.
State == [inodes |-> inodes, blocks |-> blocks, fs |-> fs]

-----------------------------------------------------------------------------
(* Allocation *)

HasBlock(s) == s.fs.free_blocks > 0 /\ s.fs.bitmap # {}

\* Mutant: the block is counted but stays free.
AllocBlockUnmarked(s) == [s EXCEPT !.fs.free_blocks = @ - 1]

\* alloc_block, with one free: first fit.
AllocBlock(s) ==
    [s EXCEPT !.fs.bitmap = @ \ {Min(@)}, !.fs.free_blocks = @ - 1]
NextBlock(s) == Min(s.fs.bitmap)

\* free_block for every one of these pointers that is not 0.
FreeBlocks(s, ptrs) ==
    LET freed == {k \in DOMAIN ptrs : ptrs[k] # 0}
    IN [s EXCEPT !.fs.bitmap = @ \cup {ptrs[k] : k \in freed},
                 !.fs.free_blocks = @ + Cardinality(freed)]

HasInode(s) == s.fs.free_inodes > 0 /\ Inodes \ s.fs.inode_bitmap # {}

\* Mutant: the search starts at the reserved inode 0.
NextInodeFromZero(s) == Min(({0} \cup Inodes) \ s.fs.inode_bitmap)

\* alloc_inode and free_inode; the search skips inode 0.
NextInode(s) == Min(Inodes \ s.fs.inode_bitmap)
AllocInode(s) ==
    [s EXCEPT !.fs.inode_bitmap = @ \cup {NextInode(s)}, !.fs.free_inodes = @ - 1]
ReleaseInode(s, i) ==
    [s EXCEPT !.fs.inode_bitmap = @ \ {i}, !.fs.free_inodes = @ + 1]

-----------------------------------------------------------------------------
(* The blocks of an inode *)

\* get_inode_block: the block of index k, 0 if there is none.
BlockAt(s, ino, k) ==
    IF k < DIRECT_PTRS THEN ino.direct[k]
    ELSE IF ino.indirect = 0 \/ k >= Limit THEN 0
    ELSE PtrOf(s.blocks[ino.indirect][k - DIRECT_PTRS])

\* The pointers of an inode: those of its blocks, by their index, and as the last the
\* one to its indirect block.
Pointers(s, ino) ==
    [k \in 0..Limit |-> IF k = Limit THEN ino.indirect ELSE BlockAt(s, ino, k)]
BlocksOf(s, ino) == Range(Pointers(s, ino)) \ {0}

\* A write in progress: the filesystem, the inode in memory, the block in hand, and
\* whether all went well so far.  Each step does nothing once one has failed.
Writing(s, ino) == [s |-> s, ino |-> ino, b |-> 0, ok |-> TRUE]
NoSpace(w)      == [w EXCEPT !.ok = FALSE]

\* alloc_inode_block takes a block, if there is one.
TakeBlock(w) ==
    IF ~w.ok \/ ~HasBlock(w.s) THEN NoSpace(w)
    ELSE [w EXCEPT !.s = AllocBlock(w.s), !.b = NextBlock(w.s)]

\* The block in hand is zeroed.
ZeroTaken(w) == IF w.ok THEN [w EXCEPT !.s.blocks[w.b] = ZeroBlock] ELSE w

\* The block in hand becomes the inode's direct block k, its indirect block, or, on
\* disk at once, entry k of its indirect block.
SetDirect(w, k) == IF w.ok THEN [w EXCEPT !.ino.direct[k] = w.b] ELSE w
SetIndirect(w)  == IF w.ok THEN [w EXCEPT !.ino.indirect = w.b] ELSE w
SetPtr(w, k)    == IF w.ok THEN [w EXCEPT !.s.blocks[w.ino.indirect][k] = Ptr(w.b)] ELSE w

EnsureIndirect(w) ==
    IF w.ino.indirect # 0 THEN w ELSE SetIndirect(ZeroTaken(TakeBlock(w)))

AllocInodeBlock(w, k) ==
    IF k < DIRECT_PTRS THEN SetDirect(TakeBlock(w), k)
    ELSE IF k >= Limit THEN NoSpace(w)
    ELSE SetPtr(TakeBlock(EnsureIndirect(w)), k - DIRECT_PTRS)

\* write_inode_data takes the block of index k in hand: a new one is zeroed before it
\* is written in part.
FindBlock(w, k) ==
    IF BlockAt(w.s, w.ino, k) # 0 THEN [w EXCEPT !.b = BlockAt(w.s, w.ino, k)]
    ELSE ZeroTaken(AllocInodeBlock(w, k))

\* Mutant: the block is not read before it is modified.
PutCellsWhole(w, k, val) ==
    IF ~w.ok THEN w
    ELSE [w EXCEPT !.s.blocks[w.b] =
            [c \in Cells |-> IF c < SLOTS /\ k * SLOTS + c \in DOMAIN val
                               THEN val[k * SLOTS + c] ELSE Zero]]

\* The part of val, a function on places of the file, that lies in block k.
PutCells(w, k, val) ==
    IF ~w.ok THEN w
    ELSE [w EXCEPT !.s.blocks[w.b] =
            [c \in Cells |-> IF c < SLOTS /\ k * SLOTS + c \in DOMAIN val
                               THEN val[k * SLOTS + c] ELSE @[c]]]

WriteBlock(w, k, val) == IF w.ok THEN PutCells(FindBlock(w, k), k, val) ELSE w

\* write_inode_data: block by block, and the inode in memory grows if all of it was
\* written.
Grow(w, size) == IF w.ok /\ size > w.ino.size THEN [w EXCEPT !.ino.size = size] ELSE w
WriteInodeData(s, ino, val) ==
    LET first == Min(DOMAIN val) \div SLOTS
        last  == Max(DOMAIN val) \div SLOTS
        Upto[k \in first..last] ==
            WriteBlock(IF k = first THEN Writing(s, ino) ELSE Upto[k - 1], k, val)
    IN Grow(Upto[last], Max(DOMAIN val) + 1)

\* The outcome of an operation: out of space, done, or refused.
Full(s)      == [s |-> s, ok |-> FALSE, full |-> TRUE]
Done(s)      == [s |-> s, ok |-> TRUE, full |-> FALSE]
Error(s)     == [s |-> s, ok |-> FALSE, full |-> FALSE]

\* The inode of a write goes to disk if all went well.
PutInode(w, i) == IF w.ok THEN Done([w.s EXCEPT !.inodes[i] = w.ino]) ELSE Full(w.s)

\* Mutant: the indirect block and what it points to are forgotten.
FreeInodeBlocksDirect(s, ino) == FreeBlocks(s, ino.direct)

\* free_inode_blocks: all direct blocks, all the indirect block points to, itself.
FreeInodeBlocks(s, ino) == FreeBlocks(s, Pointers(s, ino))

\* The index of the last block of a file of this size, 0 for an empty one.
LastBlock(size) == IF size = 0 THEN 0 ELSE (size - 1) \div SLOTS

\* The blocks of index lo..hi that an inode loses when it is cut to this size.
CutRange(ino, size, lo, hi) ==
    {k \in lo..hi : LastBlock(size) < k /\ k <= LastBlock(ino.size)}

\* truncate_inode, shrinking: the direct blocks beyond the new last one.
CutDirect(w, size) ==
    LET gone == CutRange(w.ino, size, 0, DIRECT_PTRS - 1)
    IN [w EXCEPT !.s = FreeBlocks(w.s, Restrict(w.ino.direct, gone)),
                 !.ino.direct = [k \in 0..(DIRECT_PTRS - 1) |-> IF k \in gone THEN 0 ELSE @[k]]]

\* Mutant: only direct blocks are cut.
CutIndirectSkipped(w, size) == w

\* truncate_inode, shrinking: the indirect blocks.  Below the indirect range all of
\* them go; within it the ones cut off are freed, and the indirect block still points
\* to them.
CutIndirect(w, size) ==
    LET gone == CutRange(w.ino, size, DIRECT_PTRS, Limit - 1)
        ptrs == Pointers(w.s, w.ino)
    IN IF w.ino.indirect = 0 THEN w
       ELSE IF LastBlock(size) < DIRECT_PTRS
         THEN [w EXCEPT !.s = FreeBlocks(w.s, Restrict(ptrs, gone \cup {Limit})),
                        !.ino.indirect = 0]
         ELSE [w EXCEPT !.s = FreeBlocks(w.s, Restrict(ptrs, gone))]

\* truncate_inode
SetSize(w, size) == [w EXCEPT !.ino.size = size]
TruncateInode(w, size) ==
    IF size >= w.ino.size THEN SetSize(w, size)
    ELSE SetSize(CutIndirect(CutDirect(w, size), size), size)

-----------------------------------------------------------------------------
(* Directories *)

\* The places of a directory that a search sees: it stops at a missing block.
Places(s, d) ==
    {p \in 0..(s.inodes[d].size - 1) :
        \A k \in 0..(p \div SLOTS) : BlockAt(s, s.inodes[d], k) # 0}
CellAt(s, ino, p) == s.blocks[BlockAt(s, ino, p \div SLOTS)][p % SLOTS]
Used(s, d)  == {p \in Places(s, d) : CellAt(s, s.inodes[d], p) # Zero}
Holding(s, d, n) == {p \in Used(s, d) : CellAt(s, s.inodes[d], p)[2] = n}
IsDir(s, i) == s.inodes[i].type = "dir"

\* dir_lookup
Exists(s, d, n) == IsDir(s, d) /\ Holding(s, d, n) # {}
Lookup(s, d, n) == CellAt(s, s.inodes[d], Min(Holding(s, d, n)))[3]

\* Write one cell of a directory that has a block there.
SetCell(s, d, p, cell) ==
    [s EXCEPT !.blocks[BlockAt(s, s.inodes[d], p \div SLOTS)][p % SLOTS] = cell]

\* dir_add_entry, no unused slot: append.  write_inode_data has already set the size
\* past the entry; the size is then advanced again, which leaves one unused slot.
EntryAt(p, n, i) == [q \in {p} |-> Entry(n, i)]
Advance(w) == IF w.ok THEN [w EXCEPT !.ino.size = @ + 1] ELSE w
AppendEntry(s, d, n, i) ==
    PutInode(Advance(WriteInodeData(s, s.inodes[d], EntryAt(s.inodes[d].size, n, i))), d)

\* dir_add_entry
Unused(s, d) == Places(s, d) \ Used(s, d)
AddEntry(s, d, n, i) ==
    IF ~IsDir(s, d) \/ Exists(s, d, n) THEN Error(s)
    ELSE IF Unused(s, d) = {} THEN AppendEntry(s, d, n, i)
    ELSE Done(SetCell(s, d, Min(Unused(s, d)), Entry(n, i)))

\* dir_remove_entry, with an entry of that name.
RemoveEntry(s, d, n) == SetCell(s, d, Min(Holding(s, d, n)), Zero)

\* create_file.  The rollback leaves the inode on disk as it is.
UndoInode(r, i) == IF r.ok THEN r ELSE [r EXCEPT !.s = ReleaseInode(r.s, i)]
AddFile(s, d, n, i) ==
    UndoInode(AddEntry([s EXCEPT !.inodes[i] = NewFile], d, n, i), i)
CreateFile(s, d, n) ==
    IF HasInode(s) THEN AddFile(AllocInode(s), d, n, NextInode(s)) ELSE Full(s)

\* create_dir.  Without a free block the inode stays allocated; the rollback leaves
\* the inode on disk as it is.
UndoBlock(r, b) == IF r.ok THEN r ELSE [r EXCEPT !.s = FreeBlocks(r.s, [k \in {0} |-> b])]
AddDir(s, d, n, i, b) ==
    UndoInode(UndoBlock(AddEntry([s EXCEPT !.blocks[b] = DirBlock(i, d), !.inodes[i] = NewDir(b)],
                                 d, n, i), b), i)
AddDirTo(s, d, n, i) ==
    IF HasBlock(s) THEN AddDir(AllocBlock(s), d, n, i, NextBlock(s)) ELSE Full(s)
CreateDir(s, d, n) ==
    IF HasInode(s) THEN AddDirTo(AllocInode(s), d, n, NextInode(s)) ELSE Full(s)

\* unlink and rmdir, once the entry is gone.
Erase(s, i) ==
    ReleaseInode([FreeInodeBlocks(s, s.inodes[i]) EXCEPT !.inodes[i] = FreeInode], i)

Refuse(r) == [r EXCEPT !.ok = FALSE]

\* Mutant: the file goes, its entry stays.
UnlinkInodeKept(s, d, n, i) ==
    IF s.inodes[i].type = "file" THEN Done(Erase(s, i))
    ELSE Refuse(AddEntry(RemoveEntry(s, d, n), d, n, i))

\* unlink: the entry of a directory is put back.
UnlinkInode(s, d, n, i) ==
    IF s.inodes[i].type = "file" THEN Done(Erase(RemoveEntry(s, d, n), i))
    ELSE Refuse(AddEntry(RemoveEntry(s, d, n), d, n, i))
Unlink(s, d, n) ==
    IF Exists(s, d, n) THEN UnlinkInode(s, d, n, Lookup(s, d, n)) ELSE Error(s)

\* rmdir: empty is to have no entries but "." and "..".
RmdirInode(s, d, n, i) ==
    IF ~IsDir(s, i) \/ Cardinality(Used(s, i)) > 2 THEN Error(s)
    ELSE Done(Erase(RemoveEntry(s, d, n), i))
Rmdir(s, d, n) ==
    IF Exists(s, d, n) THEN RmdirInode(s, d, n, Lookup(s, d, n)) ELSE Error(s)

\* truncate
Truncate(s, i, size) ==
    IF s.inodes[i].type # "file" THEN Error(s)
    ELSE PutInode(TruncateInode(Writing(s, s.inodes[i]), size), i)

\* What a write of len units for file f puts at place off.
Payload(f, off, len) == [p \in off..(off + len - 1) |-> Data(f, p)]

\* write (vfs.rs), the inode being a file or a directory: the inode goes to disk only if all of it fits.
WriteAt(s, i, f, off, len) ==
    PutInode(WriteInodeData(s, s.inodes[i], Payload(f, off, len)), i)

\* write_file: cut to 0 in memory, write, and only then put the inode on disk.
Rewrite(w, i, f, len) == PutInode(WriteInodeData(w.s, w.ino, Payload(f, 0, len)), i)
WriteFile(s, i, f, len) == Rewrite(TruncateInode(Writing(s, s.inodes[i]), 0), i, f, len)

-----------------------------------------------------------------------------
(* What the operations are applied to, and what becomes of their outcome *)

\* The inodes that the entries of d name.
Kids(s, d) ==
    IF IsDir(s, d) THEN Inodes \cap {CellAt(s, s.inodes[d], p)[3] : p \in Used(s, d)} ELSE {}

\* The inodes that a path can name: L[n] has those at a depth of at most n.
LinkedIn(s) ==
    LET L[n \in 0..INODES] == IF n = 0 THEN {ROOT_INODE}
                              ELSE LET above == L[n - 1]
                                   IN above \cup UNION {Kids(s, d) : d \in above}
    IN L[INODES - 2]
Linked == LinkedIn(State)

\* No path is followed once harm is done.
NoHarm  == harm = "none"
Reached == IF NoHarm THEN Linked ELSE {}

\* A program's call resolves the path, lets go of the lock and takes it again: the
\* inode it has found may have been removed by then, and used again.
Resolved == {i \in Inodes : NoHarm /\ (i \in Linked \/ ~IsDir(State, i))}

\* The blocks in use.
Owned(s) == UNION {BlocksOf(s, s.inodes[i]) : i \in LinkedIn(s)}

Apply(r) == inodes' = r.s.inodes /\ blocks' = r.s.blocks /\ fs' = r.s.fs

\* sync: the shell's commands end with it if they succeed, the calls of programs
\* never do.  inode_bitmap is rebuilt from the inode table at the next mount.
Header(m) == [bitmap |-> m.bitmap, free_blocks |-> m.free_blocks, free_inodes |-> m.free_inodes]
Finish(r, shell) ==
    /\ Apply(r)
    /\ synced' = IF shell /\ r.ok THEN Header(r.s.fs) ELSE synced
    /\ failed' = (failed \/ r.full)
    /\ ops' = ops + 1
    /\ UNCHANGED rebooted

\* A block that is in use is free: the allocator will hand it out a second time.  What
\* comes of that is not followed.
FreeInUse(s, bitmap) == bitmap \cap Owned(s) # {}

\* write_file frees the blocks that the inode on disk still has if it then fails.
LosesPtrs(ino) == TruncateInode(Writing(State, ino), 0).ino # [ino EXCEPT !.size = 0]

MayGoOn == NoHarm /\ ops < MaxOps

\* A new file in inode i, with these places written.
StartFile(i, places) ==
    /\ files' = files + 1
    /\ file' = [file EXCEPT ![i] = files + 1]
    /\ written' = [written EXCEPT ![i] = places]
    /\ UNCHANGED stale
NoFileChange == UNCHANGED <<file, written, files, stale>>

-----------------------------------------------------------------------------
(* The calls of programs and the shell's commands *)

\* open with O_CREAT of a name that was not there when the path was resolved.
Opened(r, i) ==
    /\ Finish(r, FALSE)
    /\ IF r.ok THEN StartFile(i, {}) ELSE NoFileChange
OpenCreate(d, n) ==
    /\ MayGoOn
    /\ Opened(CreateFile(State, d, n), NextInode(State))
    /\ UNCHANGED harm

\* truncate, nxtruncate, and open with O_CREAT and O_TRUNC of a name that is there.
HasCut(r, shell) ==
    /\ Finish(r, shell)
    /\ harm' = IF FreeInUse(r.s, r.s.fs.bitmap) THEN "truncate" ELSE "none"
CutFile(i, size, shell) ==
    /\ MayGoOn /\ inodes[i].type = "file"
    /\ HasCut(Truncate(State, i, size), shell)
    /\ written' = [written EXCEPT ![i] = {p \in @ : p < size}]
    /\ UNCHANGED <<file, files, stale>>

\* The descriptors programs may hold, each with the file it was opened on: of whatever
\* a path names, a directory too, and of what has been removed since.
Descriptors == {<<i, file[i]>> : i \in Reached} \cup stale

\* write through a descriptor, at any place (lseek).  Nothing tells whether the inode
\* still is what was opened: only an inode that is free on disk is refused.  A file that
\* somebody else's descriptor has written to is number 0 from then on.
HasWritten(r, i, f, places) ==
    /\ Finish(r, FALSE)
    /\ written' = IF r.ok THEN [written EXCEPT ![i] = @ \cup places] ELSE written
    /\ file' = IF f = file[i] THEN file ELSE [file EXCEPT ![i] = 0]
    /\ harm' = IF i \in Linked /\ inodes[i].type = "file" THEN "none" ELSE "descriptor"
SysWrite(i, f, off, len) ==
    /\ MayGoOn /\ inodes[i].type # "free"
    /\ HasWritten(WriteAt(State, i, f, off, len), i, f, off..(off + len - 1))
    /\ UNCHANGED <<files, stale>>

\* NotFile: the inode has been removed and not used again.
WriteRefused(i) ==
    /\ MayGoOn /\ inodes[i].type = "free"
    /\ Finish(Error(State), FALSE)
    /\ UNCHANGED <<file, written, files, stale, harm>>

\* nxwrite of a file that exists.
HasRewritten(r, i, places) ==
    /\ Finish(r, TRUE)
    /\ written' = IF r.ok THEN [written EXCEPT ![i] = places] ELSE written
    /\ harm' = IF ~r.ok /\ LosesPtrs(inodes[i]) THEN "write_file" ELSE "none"
RewriteInode(i, len) ==
    /\ inodes[i].type = "file"
    /\ HasRewritten(WriteFile(State, i, file[i], len), i, 0..(len - 1))
ShellRewrite(d, n, len) ==
    /\ MayGoOn /\ Exists(State, d, n)
    /\ RewriteInode(Lookup(State, d, n), len)
    /\ UNCHANGED <<file, files, stale>>

\* nxwrite of a new file.
FirstWrite(r, i, places) ==
    /\ Finish(r, TRUE)
    /\ StartFile(i, IF r.ok THEN places ELSE {})
WriteNew(c, i, len) ==
    \/ ~c.ok /\ Finish(c, TRUE) /\ NoFileChange
    \/ c.ok /\ FirstWrite(WriteFile(c.s, i, files + 1, len), i, 0..(len - 1))
ShellWriteNew(d, n, len) ==
    /\ MayGoOn
    /\ IsDir(State, d) /\ ~Exists(State, d, n)
    /\ WriteNew(CreateFile(State, d, n), NextInode(State), len)
    /\ UNCHANGED harm

\* mkdir and nxmkdir.  If the parent is gone and its inode is the next free one, the
\* new directory becomes its own parent, and nothing else leads to it.
HasMade(r, d, shell) ==
    /\ Finish(r, shell)
    /\ harm' = IF r.ok /\ d \notin Linked THEN "mkdir" ELSE "none"
MakeDir(d, n, shell) ==
    /\ MayGoOn
    /\ HasMade(CreateDir(State, d, n), d, shell)
    /\ NoFileChange

\* What is removed may be open.
HasRemoved(r, i, shell) ==
    /\ Finish(r, shell)
    /\ stale' = IF r.ok THEN stale \cup {<<i, file[i]>>} ELSE stale
    /\ UNCHANGED <<file, written, files, harm>>

\* unlink and nxrm
RemoveFile(d, n, shell) ==
    /\ MayGoOn /\ Exists(State, d, n)
    /\ HasRemoved(Unlink(State, d, n), Lookup(State, d, n), shell)

\* rmdir and nxrmdir
RemoveDir(d, n, shell) ==
    /\ MayGoOn /\ Exists(State, d, n)
    /\ HasRemoved(Rmdir(State, d, n), Lookup(State, d, n), shell)

\* nxchmod and nxchown: their effect here is the sync at the end.
ShellChmod ==
    /\ MayGoOn
    /\ Finish(Done(State), TRUE)
    /\ UNCHANGED harm /\ NoFileChange

\* The machine is switched off and mounts the disk again: what was not synced is
\* gone, the descriptors too, and the inode bitmap is rebuilt from the table.
Reboot ==
    /\ MayGoOn
    /\ ops' = ops + 1 /\ rebooted' = TRUE /\ stale' = {}
    /\ fs' = [bitmap       |-> synced.bitmap,
              free_blocks  |-> synced.free_blocks,
              free_inodes  |-> synced.free_inodes,
              inode_bitmap |-> {i \in Inodes : inodes[i].type # "free"}]
    /\ harm' = IF FreeInUse(State, synced.bitmap) THEN "reboot" ELSE "none"
    /\ UNCHANGED <<inodes, blocks, synced, file, written, files, failed>>

\* Harm has been done, or the bound is reached.
Stop == ~MayGoOn /\ UNCHANGED vars

\* format and mount: the root directory has the first data block.
Init ==
    /\ inodes = [i \in Inodes |-> IF i = ROOT_INODE THEN NewDir(1) ELSE FreeInode]
    /\ blocks = [b \in Blocks |-> IF b = 1 THEN DirBlock(ROOT_INODE, ROOT_INODE) ELSE ZeroBlock]
    /\ fs = [bitmap |-> Blocks \ {1}, free_blocks |-> BLOCKS - 1,
             inode_bitmap |-> {ROOT_INODE}, free_inodes |-> INODES - 1]
    /\ synced = Header(fs)
    /\ file = [i \in Inodes |-> 0] /\ written = [i \in Inodes |-> {}] /\ files = 0
    /\ stale = {}
    /\ failed = FALSE /\ harm = "none" /\ rebooted = FALSE /\ ops = 0

ProgramStep ==
    \/ \E d \in Resolved, n \in Names : OpenCreate(d, n) \/ MakeDir(d, n, FALSE)
    \/ \E e \in Descriptors, off \in Offsets, len \in Lengths : SysWrite(e[1], e[2], off, len)
    \/ \E e \in stale : WriteRefused(e[1])

ShellStep ==
    \/ ShellChmod
    \/ \E d \in Reached, n \in Names : MakeDir(d, n, TRUE)
    \/ \E d \in Reached, n \in Names, len \in Lengths :
          ShellRewrite(d, n, len) \/ ShellWriteNew(d, n, len)

SharedStep ==
    \E shell \in BOOLEAN :
        \/ \E d \in Reached, n \in Names :
              RemoveFile(d, n, shell) \/ RemoveDir(d, n, shell)
        \/ \E i \in Reached, size \in Sizes : CutFile(i, size, shell)

Next == ProgramStep \/ ShellStep \/ SharedStep \/ Reboot \/ Stop

Spec == Init /\ [][Next]_vars

-----------------------------------------------------------------------------
(* Properties *)

\* The type of the inode table, the blocks and the mounted header.
TypeOK ==
    /\ \A i \in Inodes :
          /\ inodes[i].type \in {"free", "file", "dir"}
          /\ inodes[i].size \in 0..(Limit * SLOTS)
          /\ inodes[i].direct \in [0..(DIRECT_PTRS - 1) -> {0} \cup Blocks]
          /\ inodes[i].indirect \in {0} \cup Blocks
    /\ DOMAIN blocks = Blocks /\ \A b \in Blocks : DOMAIN blocks[b] = Cells
    /\ fs.bitmap \subseteq Blocks /\ fs.free_blocks \in 0..BLOCKS
    /\ fs.inode_bitmap \subseteq Inodes /\ fs.free_inodes \in Nat

\* While no harm is done, the allocator and the inodes agree: a block in use is in
\* use once and is not free, and free_blocks counts the free ones.
BlocksOwnedOnce ==
    NoHarm =>
        /\ \A i, j \in Linked, k, m \in 0..Limit :
              LET b == Pointers(State, inodes[i])[k]
              IN b # 0 /\ b = Pointers(State, inodes[j])[m] => i = j /\ k = m
        /\ ~FreeInUse(State, fs.bitmap)
        /\ fs.free_blocks = Cardinality(fs.bitmap)

\* Every block is free or in use as long as no harm is done, no call ran out of space
\* and the machine was not switched off: unlink, rmdir, truncate and the rollbacks give
\* back all that was taken.
NoLeak ==
    NoHarm /\ ~failed /\ ~rebooted => Owned(State) \cup fs.bitmap = Blocks

\* The entries of the directories form a tree over inodes that are in use: every
\* inode but the root has one entry, its own "." and its parent as "..".  A search
\* sees all of a directory: it never stops early at a missing block although the
\* size runs ahead of the entries.
TreeSound ==
    NoHarm =>
        LET live == Linked
            Children(d) == {p \in Used(State, d) : CellAt(State, inodes[d], p)[2] \in Names}
            Edges == UNION {{<<d, p>> : p \in Children(d)} : d \in {e \in live : IsDir(State, e)}}
            Child(e) == CellAt(State, inodes[e[1]], e[2])[3]
        IN /\ \A i \in live : i \in fs.inode_bitmap /\ inodes[i].type # "free"
           /\ \A d \in live : IsDir(State, d) => Places(State, d) = 0..(inodes[d].size - 1)
           /\ \A i \in live \ {ROOT_INODE} : Cardinality({e \in Edges : Child(e) = i}) = 1
           /\ \A e \in Edges : IsDir(State, Child(e)) =>
                 /\ Exists(State, Child(e), ".") /\ Lookup(State, Child(e), ".") = Child(e)
                 /\ Exists(State, Child(e), "..") /\ Lookup(State, Child(e), "..") = e[1]

\* What a file reads as at place p: missing blocks are zeros.
ReadUnit(i, p) ==
    IF BlockAt(State, inodes[i], p \div SLOTS) = 0 THEN Zero ELSE CellAt(State, inodes[i], p)

\* A file reads back what was written to it, and elsewhere zeros or what it once
\* had there: never the data of another file, unless that was written to it through a
\* descriptor that had outlived the other file.
ReadBack ==
    NoHarm => \A i \in Linked : inodes[i].type = "file" /\ file[i] # 0 =>
        \A p \in 0..(inodes[i].size - 1) :
            \/ ReadUnit(i, p) = Data(file[i], p)
            \/ ReadUnit(i, p) = Zero /\ p \notin written[i]

\* truncate computes old_last_block - DIRECT_PTRS + 1 whenever there is an indirect
\* block: an inode that has one is larger than its direct blocks.
IndirectNeeded ==
    NoHarm => \A i \in Linked :
        inodes[i].indirect # 0 => inodes[i].size > DIRECT_PTRS * SLOTS

\* truncate: "Truncate a file to a specific size, freeing blocks beyond the new size"
\* (nextfs.rs): it frees no block that an inode still has.
TruncateFreesUnused == harm # "truncate"
=============================================================================
