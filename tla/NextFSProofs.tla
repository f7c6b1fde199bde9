---------------------------- MODULE NextFSProofs ----------------------------
(***************************************************************************)
(* Proofs about NextFS for every number of blocks and inodes, every size of *)
(* blocks and indirect blocks, and any names, offsets, lengths and sizes.   *)
(***************************************************************************)
EXTENDS NextFS, FiniteSetTheorems, WellFoundedInduction, TLAPS

-----------------------------------------------------------------------------
(* Numbers and sets *)

\* A non-empty set of natural numbers has its Min as a member.
LEMMA MinIn ==
    ASSUME NEW S \in SUBSET Nat, S # {}
    PROVE  Min(S) \in S /\ \A k \in S : Min(S) <= k
<1>1. \E m \in S : \A k \in S : ~ (<<k, m>> \in OpToRel(<, Nat))
  BY NatLessThanWellFounded, WFMin
<1>2. \A m, k \in S : ~ (<<k, m>> \in OpToRel(<, Nat)) => m <= k
  BY DEF OpToRel
<1>3. \E m \in S : \A k \in S : m <= k
  BY <1>1, <1>2
<1>. QED
  BY <1>3 DEF Min

\* The ends of an interval.
LEMMA MinMaxInterval ==
    ASSUME NEW a \in Nat, NEW b \in Nat, a <= b
    PROVE  Min(a..b) = a /\ Max(a..b) = b
<1>1. \A x \in a..b : (\A y \in a..b : x <= y) <=> x = a
  OBVIOUS
<1>2. \A x \in a..b : (\A y \in a..b : x >= y) <=> x = b
  OBVIOUS
<1>3. Min(a..b) = a
  BY <1>1 DEF Min
<1>4. Max(a..b) = b
  BY <1>2 DEF Max
<1>. QED  BY <1>3, <1>4

\* A place of a file is in one cell of one block.
LEMMA PlaceOfCell ==
    ASSUME NEW S \in Nat \ {0}, NEW q \in Nat, NEW c \in 0..(S - 1)
    PROVE  (q * S + c) \div S = q /\ (q * S + c) % S = c /\ q * S + c \in Nat
<1>1. q * S + c \in Nat
  OBVIOUS
<1>. QED  BY <1>1, SMTT(30)

LEMMA CellOfPlace ==
    ASSUME NEW S \in Nat \ {0}, NEW p \in Nat
    PROVE  /\ p \div S \in Nat /\ p % S \in 0..(S - 1)
           /\ p = (p \div S) * S + (p % S)
  OBVIOUS

-----------------------------------------------------------------------------
(* Types *)

PtrValues   == {0} \cup Blocks
CellValues  == {Zero} \cup {Entry(n, i) : n \in Names \cup {".", ".."}, i \in Inodes}
                      \cup {Ptr(b) : b \in Blocks} \cup {Data(f, p) : f \in Nat, p \in Nat}
InodeRecs   == [type : {"free", "file", "dir"}, size : 0..(Limit * SLOTS),
                direct : [0..(DIRECT_PTRS - 1) -> PtrValues], indirect : PtrValues]
Headers     == [bitmap : SUBSET Blocks, free_blocks : Nat, free_inodes : Nat]
Mounts      == [bitmap : SUBSET Blocks, free_blocks : Nat, inode_bitmap : SUBSET Inodes,
                free_inodes : Nat]
Stores      == [inodes : [Inodes -> InodeRecs], blocks : [Blocks -> [Cells -> CellValues]],
                fs : Mounts]
Writes      == [s : Stores, ino : InodeRecs, b : PtrValues, ok : BOOLEAN]

LEMMA Constants ==
    /\ BLOCKS \in Nat \ {0} /\ INODES \in Nat /\ INODES > 1 /\ SLOTS \in Nat \ {0}
    /\ SLOTS >= 2 /\ DIRECT_PTRS \in Nat \ {0} /\ PTRS \in Nat \ {0}
    /\ Limit \in Nat /\ Limit = DIRECT_PTRS + PTRS /\ Limit * SLOTS \in Nat
    /\ Blocks = 1..BLOCKS /\ Inodes = 1..(INODES - 1) /\ ROOT_INODE = 1 /\ ROOT_INODE \in Inodes
    /\ 0 \notin Blocks /\ Inodes \in SUBSET Nat /\ Blocks \in SUBSET Nat
    /\ 0..(SLOTS - 1) \in SUBSET Cells /\ 0..(PTRS - 1) \in SUBSET Cells
    /\ 0 \in Cells /\ 1 \in Cells /\ IsFiniteSet(Blocks) /\ IsFiniteSet(Inodes)
    /\ Cardinality(Blocks) = BLOCKS /\ Cardinality(Inodes) = INODES - 1
    /\ Names \cap {".", ".."} = {}
<1>1. SLOTS >= 2
  BY NextFSAssumption
<1>2. Limit \in Nat /\ Limit = DIRECT_PTRS + PTRS
  BY NextFSAssumption DEF Limit
<1>3. Limit * SLOTS \in Nat
  BY <1>2, NextFSAssumption
<1>4. Blocks = 1..BLOCKS /\ Inodes = 1..(INODES - 1)
  BY DEF Blocks, Inodes, ROOT_INODE
<1>5. \A n \in Nat : IsFiniteSet(1..n) /\ Cardinality(1..n) = IF 1 > n THEN 0 ELSE n - 1 + 1
  BY FS_Interval
<1>6. INODES - 1 \in Nat /\ BLOCKS \in Nat /\ ~(1 > INODES - 1) /\ ~(1 > BLOCKS)
  BY NextFSAssumption
<1>7. IsFiniteSet(1..BLOCKS) /\ Cardinality(1..BLOCKS) = BLOCKS
  BY <1>5, <1>6
<1>8. IsFiniteSet(1..(INODES - 1)) /\ Cardinality(1..(INODES - 1)) = INODES - 1
  <2>. DEFINE m == INODES - 1
  <2>1. m \in Nat /\ ~(1 > m)  BY <1>6
  <2>. HIDE DEF m
  <2>2. IsFiniteSet(1..m) /\ Cardinality(1..m) = m  BY <1>5, <2>1
  <2>. QED  BY <2>2 DEF m
<1>. QED  BY <1>1, <1>2, <1>3, <1>4, <1>7, <1>8, NextFSAssumption DEF ROOT_INODE, Cells

\* The kinds of cells are told apart, and a cell gives back what was put in it.
LEMMA CellFacts ==
    /\ \A n, i : Entry(n, i) # Zero /\ Entry(n, i)[2] = n /\ Entry(n, i)[3] = i
    /\ \A f, p : Data(f, p) # Zero
    /\ \A f, p, n, i : Data(f, p) # Entry(n, i)
    /\ \A n, i, m, j : Entry(n, i) = Entry(m, j) => n = m /\ i = j
    /\ \A b \in PtrValues : PtrOf(Ptr(b)) = b
    /\ PtrOf(Zero) = 0
    /\ Zero \in CellValues
    /\ \A b \in PtrValues : Ptr(b) \in CellValues
    /\ \A n \in Names \cup {".", ".."}, i \in Inodes : Entry(n, i) \in CellValues
    /\ \A f, p \in Nat : Data(f, p) \in CellValues
<1>1. \A n, i : Entry(n, i) # Zero /\ Entry(n, i)[2] = n /\ Entry(n, i)[3] = i
  BY DEF Entry, Zero
<1>2. \A f, p : Data(f, p) # Zero
  BY DEF Data, Zero
<1>3. \A f, p, n, i : Data(f, p) # Entry(n, i)
  <2>. SUFFICES ASSUME NEW f, NEW p, NEW n, NEW i, Data(f, p) = Entry(n, i)  PROVE FALSE
    OBVIOUS
  <2>1. Data(f, p)[1] = "data" /\ Entry(n, i)[1] = "entry"
    BY DEF Data, Entry
  <2>. QED  BY <2>1
<1>4. \A n, i, m, j : Entry(n, i) = Entry(m, j) => n = m /\ i = j
  BY DEF Entry
<1>5. \A b \in PtrValues : PtrOf(Ptr(b)) = b
  <2>1. \A b : <<"ptr", b>> # <<"zero">>
    OBVIOUS
  <2>. QED  BY <2>1 DEF PtrOf, Ptr, Zero
<1>6. PtrOf(Zero) = 0
  BY DEF PtrOf
<1>7. Zero \in CellValues
  BY DEF CellValues
<1>8. \A b \in PtrValues : Ptr(b) \in CellValues
  <2>1. Ptr(0) = Zero
    BY DEF Ptr
  <2>. QED  BY <2>1 DEF CellValues, PtrValues
<1>9. \A n \in Names \cup {".", ".."}, i \in Inodes : Entry(n, i) \in CellValues
  BY DEF CellValues
<1>10. \A f, p \in Nat : Data(f, p) \in CellValues
  BY DEF CellValues
<1>. QED  BY <1>1, <1>2, <1>3, <1>4, <1>5, <1>6, <1>7, <1>8, <1>9, <1>10

LEMMA ZeroBlockType == ZeroBlock \in [Cells -> CellValues] /\ \A c \in Cells : ZeroBlock[c] = Zero
  BY CellFacts DEF ZeroBlock

\* What is known of a store and of a write, field by field.
LEMMA StoreFields ==
    ASSUME NEW s \in Stores
    PROVE  /\ s.inodes \in [Inodes -> InodeRecs] /\ s.blocks \in [Blocks -> [Cells -> CellValues]]
           /\ s.fs \in Mounts /\ s.fs.bitmap \in SUBSET Blocks /\ s.fs.free_blocks \in Nat
           /\ s.fs.inode_bitmap \in SUBSET Inodes /\ s.fs.free_inodes \in Nat
           /\ IsFiniteSet(s.fs.bitmap) /\ Cardinality(s.fs.bitmap) \in Nat
           /\ Cardinality(s.fs.bitmap) <= BLOCKS
<1>1. /\ s.inodes \in [Inodes -> InodeRecs] /\ s.blocks \in [Blocks -> [Cells -> CellValues]]
      /\ s.fs \in Mounts
  BY DEF Stores
<1>2. /\ s.fs.bitmap \in SUBSET Blocks /\ s.fs.free_blocks \in Nat
      /\ s.fs.inode_bitmap \in SUBSET Inodes /\ s.fs.free_inodes \in Nat
  BY <1>1 DEF Mounts
<1>3. IsFiniteSet(s.fs.bitmap) /\ Cardinality(s.fs.bitmap) <= BLOCKS
  BY <1>2, Constants, FS_Subset
<1>4. Cardinality(s.fs.bitmap) \in Nat
  BY <1>3, FS_CardinalityType
<1>. QED  BY <1>1, <1>2, <1>3, <1>4

LEMMA WriteFields ==
    ASSUME NEW w \in Writes
    PROVE  w.s \in Stores /\ w.ino \in InodeRecs /\ w.b \in PtrValues /\ w.ok \in BOOLEAN
  BY DEF Writes

-----------------------------------------------------------------------------
(* Allocation *)

\* alloc_block takes a free block and counts it.
LEMMA AllocBlockFacts ==
    ASSUME NEW s \in Stores, HasBlock(s)
    PROVE  /\ AllocBlock(s) \in Stores
           /\ NextBlock(s) \in s.fs.bitmap /\ NextBlock(s) \in Blocks
           /\ AllocBlock(s).inodes = s.inodes /\ AllocBlock(s).blocks = s.blocks
           /\ AllocBlock(s).fs.bitmap = s.fs.bitmap \ {NextBlock(s)}
           /\ AllocBlock(s).fs.free_blocks = s.fs.free_blocks - 1
           /\ AllocBlock(s).fs.inode_bitmap = s.fs.inode_bitmap
           /\ AllocBlock(s).fs.free_inodes = s.fs.free_inodes
           /\ s.fs.free_blocks = Cardinality(s.fs.bitmap) =>
                AllocBlock(s).fs.free_blocks = Cardinality(AllocBlock(s).fs.bitmap)
<1>0. s.fs.bitmap \in SUBSET Nat /\ s.fs.bitmap # {} /\ s.fs.free_blocks > 0
  BY StoreFields, Constants DEF HasBlock
<1>1. NextBlock(s) \in s.fs.bitmap
  BY <1>0, MinIn DEF NextBlock
<1>2. PICK b \in Blocks : b = NextBlock(s) /\ b = Min(s.fs.bitmap)
  BY <1>1, StoreFields DEF NextBlock
<1>3. AllocBlock(s) = [s EXCEPT !.fs = [s.fs EXCEPT !.bitmap = s.fs.bitmap \ {b},
                                                  !.free_blocks = s.fs.free_blocks - 1]]
  BY <1>2, StoreFields DEF AllocBlock, Stores, Mounts
<1>4. PICK m \in Mounts : /\ m.bitmap = s.fs.bitmap \ {b} /\ m.free_blocks = s.fs.free_blocks - 1
                          /\ m.inode_bitmap = s.fs.inode_bitmap /\ m.free_inodes = s.fs.free_inodes
                          /\ m = [s.fs EXCEPT !.bitmap = s.fs.bitmap \ {b},
                                              !.free_blocks = s.fs.free_blocks - 1]
  <2>. DEFINE m == [s.fs EXCEPT !.bitmap = s.fs.bitmap \ {b}, !.free_blocks = s.fs.free_blocks - 1]
  <2>0. s.fs.free_blocks - 1 \in Nat /\ s.fs.bitmap \ {b} \in SUBSET Blocks /\ s.fs \in Mounts
    BY <1>0, StoreFields
  <2>1. m \in Mounts /\ m.bitmap = s.fs.bitmap \ {b} /\ m.free_blocks = s.fs.free_blocks - 1
        /\ m.inode_bitmap = s.fs.inode_bitmap /\ m.free_inodes = s.fs.free_inodes
    BY <2>0 DEF Mounts
  <2>. QED  BY <2>1
<1>5. AllocBlock(s) \in Stores /\ AllocBlock(s).fs = m
      /\ AllocBlock(s).inodes = s.inodes /\ AllocBlock(s).blocks = s.blocks
  BY <1>3, <1>4, StoreFields DEF Stores
<1>6. Cardinality(s.fs.bitmap \ {b}) = Cardinality(s.fs.bitmap) - 1
  <2>1. \A S, x : IsFiniteSet(S) /\ x \in S => Cardinality(S \ {x}) = Cardinality(S) - 1
    BY FS_RemoveElement
  <2>. QED  BY <1>1, <1>2, <2>1, StoreFields
<1>. QED  BY <1>1, <1>2, <1>4, <1>5, <1>6

\* free_block for blocks that are not free, each once: they are free then, and counted.
LEMMA FreeBlocksFacts ==
    ASSUME NEW s \in Stores, NEW K, NEW ptrs \in [K -> PtrValues], IsFiniteSet(K),
           \A k, m \in K : ptrs[k] = ptrs[m] /\ ptrs[k] # 0 => k = m,
           \A k \in K : ptrs[k] \notin s.fs.bitmap
    PROVE  /\ FreeBlocks(s, ptrs) \in Stores
           /\ FreeBlocks(s, ptrs).inodes = s.inodes /\ FreeBlocks(s, ptrs).blocks = s.blocks
           /\ FreeBlocks(s, ptrs).fs.bitmap = s.fs.bitmap \cup ({ptrs[k] : k \in K} \ {0})
           /\ FreeBlocks(s, ptrs).fs.inode_bitmap = s.fs.inode_bitmap
           /\ FreeBlocks(s, ptrs).fs.free_inodes = s.fs.free_inodes
           /\ s.fs.free_blocks = Cardinality(s.fs.bitmap) =>
                FreeBlocks(s, ptrs).fs.free_blocks = Cardinality(FreeBlocks(s, ptrs).fs.bitmap)
<1>. DEFINE freed == {k \in K : ptrs[k] # 0}
            V     == {ptrs[k] : k \in freed}
            B     == s.fs.bitmap \cup V
            n     == s.fs.free_blocks + Cardinality(freed)
<1>1. freed \in SUBSET K /\ IsFiniteSet(freed) /\ Cardinality(freed) \in Nat
  BY FS_Subset, FS_CardinalityType
<1>2. V = {ptrs[k] : k \in K} \ {0} /\ V \in SUBSET Blocks
  BY Constants DEF PtrValues
<1>3. IsFiniteSet(V) /\ Cardinality(V) = Cardinality(freed)
  <2>. DEFINE f == [k \in freed |-> ptrs[k]]
  <2>1. f \in Bijection(freed, V)
    <3>1. f \in [freed -> V]  OBVIOUS
    <3>2. \A k, m \in freed : f[k] = f[m] => k = m  BY <1>1
    <3>3. \A v \in V : \E k \in freed : f[k] = v  OBVIOUS
    <3>. HIDE DEF f, freed, V
    <3>. QED  BY <3>1, <3>2, <3>3 DEF Bijection, Injection, Surjection, IsInjective
  <2>2. ExistsBijection(freed, V)
    BY <2>1 DEF ExistsBijection
  <2>. QED  BY <1>1, <2>2, FS_Bijection
<1>4. s.fs.bitmap \cap V = {}
  OBVIOUS
<1>5. Cardinality(B) = Cardinality(s.fs.bitmap) + Cardinality(freed)
  <2>1. \A S, T : IsFiniteSet(S) /\ IsFiniteSet(T) /\ S \cap T = {} =>
                    Cardinality(S \cup T) = Cardinality(S) + Cardinality(T) - Cardinality({})
    BY FS_Union
  <2>2. Cardinality({}) = 0
    BY FS_EmptySet
  <2>3. Cardinality(s.fs.bitmap) \in Nat /\ IsFiniteSet(s.fs.bitmap)
    BY StoreFields
  <2>. HIDE DEF V, freed
  <2>4. Cardinality(B) = Cardinality(s.fs.bitmap) + Cardinality(V) - 0
    BY <1>3, <1>4, <2>1, <2>2, <2>3
  <2>. QED  BY <1>1, <1>3, <2>3, <2>4
<1>6. B \in SUBSET Blocks /\ n \in Nat
  BY <1>1, <1>2, StoreFields
<1>7. FreeBlocks(s, ptrs) = [s EXCEPT !.fs = [s.fs EXCEPT !.bitmap = B, !.free_blocks = n]]
  BY StoreFields DEF FreeBlocks, Stores, Mounts
<1>. HIDE DEF freed, V, B, n
<1>8. PICK m \in Mounts : /\ m.bitmap = B /\ m.free_blocks = n
                          /\ m.inode_bitmap = s.fs.inode_bitmap /\ m.free_inodes = s.fs.free_inodes
                          /\ m = [s.fs EXCEPT !.bitmap = B, !.free_blocks = n]
  <2>. DEFINE m == [s.fs EXCEPT !.bitmap = B, !.free_blocks = n]
  <2>1. m \in Mounts /\ m.bitmap = B /\ m.free_blocks = n
        /\ m.inode_bitmap = s.fs.inode_bitmap /\ m.free_inodes = s.fs.free_inodes
    BY <1>6, StoreFields DEF Mounts
  <2>. QED  BY <2>1
<1>9. FreeBlocks(s, ptrs) \in Stores /\ FreeBlocks(s, ptrs).fs = m
      /\ FreeBlocks(s, ptrs).inodes = s.inodes /\ FreeBlocks(s, ptrs).blocks = s.blocks
  BY <1>7, <1>8, StoreFields DEF Stores
<1>10. B = s.fs.bitmap \cup ({ptrs[k] : k \in K} \ {0})
  BY <1>2 DEF B
<1>. QED  BY <1>5, <1>8, <1>9, <1>10 DEF n

\* alloc_inode takes a free inode; free_inode gives one back.
LEMMA AllocInodeFacts ==
    ASSUME NEW s \in Stores, HasInode(s)
    PROVE  /\ NextInode(s) \in Inodes /\ NextInode(s) \notin s.fs.inode_bitmap
           /\ AllocInode(s) \in Stores
           /\ AllocInode(s).inodes = s.inodes /\ AllocInode(s).blocks = s.blocks
           /\ AllocInode(s).fs.bitmap = s.fs.bitmap
           /\ AllocInode(s).fs.free_blocks = s.fs.free_blocks
           /\ AllocInode(s).fs.inode_bitmap = s.fs.inode_bitmap \cup {NextInode(s)}
<1>0. Inodes \ s.fs.inode_bitmap \in SUBSET Nat /\ Inodes \ s.fs.inode_bitmap # {}
      /\ s.fs.free_inodes > 0
  BY Constants DEF HasInode
<1>1. NextInode(s) \in Inodes \ s.fs.inode_bitmap
  BY <1>0, MinIn DEF NextInode
<1>2. PICK i \in Inodes : i = NextInode(s)
  BY <1>1
<1>. DEFINE B == s.fs.inode_bitmap \cup {i}
            n == s.fs.free_inodes - 1
<1>3. B \in SUBSET Inodes /\ n \in Nat
  BY <1>0, StoreFields
<1>4. AllocInode(s) = [s EXCEPT !.fs = [s.fs EXCEPT !.inode_bitmap = B, !.free_inodes = n]]
  BY <1>2, StoreFields DEF AllocInode, Stores, Mounts
<1>5. B = s.fs.inode_bitmap \cup {NextInode(s)}
  BY <1>2
<1>. HIDE DEF B, n
<1>6. PICK m \in Mounts : /\ m.bitmap = s.fs.bitmap /\ m.free_blocks = s.fs.free_blocks
                          /\ m.inode_bitmap = B
                          /\ m = [s.fs EXCEPT !.inode_bitmap = B, !.free_inodes = n]
  <2>. DEFINE m == [s.fs EXCEPT !.inode_bitmap = B, !.free_inodes = n]
  <2>1. m \in Mounts /\ m.bitmap = s.fs.bitmap /\ m.free_blocks = s.fs.free_blocks
        /\ m.inode_bitmap = B
    BY <1>3, StoreFields DEF Mounts
  <2>. QED  BY <2>1
<1>7. AllocInode(s) \in Stores /\ AllocInode(s).fs = m
      /\ AllocInode(s).inodes = s.inodes /\ AllocInode(s).blocks = s.blocks
  BY <1>4, <1>6, StoreFields DEF Stores
<1>. QED  BY <1>1, <1>5, <1>6, <1>7

LEMMA ReleaseInodeFacts ==
    ASSUME NEW s \in Stores, NEW i \in Inodes
    PROVE  /\ ReleaseInode(s, i) \in Stores
           /\ ReleaseInode(s, i).inodes = s.inodes /\ ReleaseInode(s, i).blocks = s.blocks
           /\ ReleaseInode(s, i).fs.bitmap = s.fs.bitmap
           /\ ReleaseInode(s, i).fs.free_blocks = s.fs.free_blocks
           /\ ReleaseInode(s, i).fs.inode_bitmap = s.fs.inode_bitmap \ {i}
<1>. DEFINE B == s.fs.inode_bitmap \ {i}
            n == s.fs.free_inodes + 1
<1>3. B \in SUBSET Inodes /\ n \in Nat
  BY StoreFields
<1>4. ReleaseInode(s, i) = [s EXCEPT !.fs = [s.fs EXCEPT !.inode_bitmap = B, !.free_inodes = n]]
  BY StoreFields DEF ReleaseInode, Stores, Mounts
<1>5. B = s.fs.inode_bitmap \ {i}
  OBVIOUS
<1>. HIDE DEF B, n
<1>6. PICK m \in Mounts : /\ m.bitmap = s.fs.bitmap /\ m.free_blocks = s.fs.free_blocks
                          /\ m.inode_bitmap = B
                          /\ m = [s.fs EXCEPT !.inode_bitmap = B, !.free_inodes = n]
  <2>. DEFINE m == [s.fs EXCEPT !.inode_bitmap = B, !.free_inodes = n]
  <2>1. m \in Mounts /\ m.bitmap = s.fs.bitmap /\ m.free_blocks = s.fs.free_blocks
        /\ m.inode_bitmap = B
    BY <1>3, StoreFields DEF Mounts
  <2>. QED  BY <2>1
<1>7. ReleaseInode(s, i) \in Stores /\ ReleaseInode(s, i).fs = m
      /\ ReleaseInode(s, i).inodes = s.inodes /\ ReleaseInode(s, i).blocks = s.blocks
  BY <1>4, <1>6, StoreFields DEF Stores
<1>. QED  BY <1>5, <1>6, <1>7

-----------------------------------------------------------------------------
(* The blocks of an inode *)

\* Every pointer of the inode is to a block, and no two are to the same.
GoodInode(s, ino) ==
    /\ \A k \in 0..Limit : Pointers(s, ino)[k] \in PtrValues
    /\ \A k, m \in 0..Limit :
          Pointers(s, ino)[k] = Pointers(s, ino)[m] /\ Pointers(s, ino)[k] # 0 => k = m

\* What cell c of block q of the file holds; a missing block reads as zeros.
Unit(s, ino, q, c) ==
    IF Pointers(s, ino)[q] = 0 THEN Zero ELSE s.blocks[Pointers(s, ino)[q]][c]

LEMMA PointersFacts ==
    ASSUME NEW s, NEW ino
    PROVE  /\ DOMAIN Pointers(s, ino) = 0..Limit
           /\ \A k \in 0..(DIRECT_PTRS - 1) : Pointers(s, ino)[k] = ino.direct[k]
           /\ \A k \in DIRECT_PTRS..(Limit - 1) :
                Pointers(s, ino)[k] = IF ino.indirect = 0 THEN 0
                                      ELSE PtrOf(s.blocks[ino.indirect][k - DIRECT_PTRS])
           /\ Pointers(s, ino)[Limit] = ino.indirect
           /\ \A k \in 0..(Limit - 1) : BlockAt(s, ino, k) = Pointers(s, ino)[k]
           /\ \A k \in Nat : k >= Limit => BlockAt(s, ino, k) = 0
           /\ BlocksOf(s, ino) = {Pointers(s, ino)[k] : k \in 0..Limit} \ {0}
<1>0. DIRECT_PTRS \in Nat \ {0} /\ PTRS \in Nat \ {0} /\ Limit = DIRECT_PTRS + PTRS /\ Limit \in Nat
  BY Constants
<1>1. DOMAIN Pointers(s, ino) = 0..Limit
  BY DEF Pointers
<1>2. \A k \in 0..Limit : Pointers(s, ino)[k] = IF k = Limit THEN ino.indirect ELSE BlockAt(s, ino, k)
  BY DEF Pointers
<1>3. \A k \in 0..(DIRECT_PTRS - 1) : k \in 0..(Limit - 1) /\ BlockAt(s, ino, k) = ino.direct[k]
  BY <1>0 DEF BlockAt
<1>4. \A k \in DIRECT_PTRS..(Limit - 1) : k \in 0..(Limit - 1) /\
        BlockAt(s, ino, k) = IF ino.indirect = 0 THEN 0
                             ELSE PtrOf(s.blocks[ino.indirect][k - DIRECT_PTRS])
  BY <1>0 DEF BlockAt
<1>5. \A k \in 0..(Limit - 1) : k \in 0..Limit /\ k # Limit
  BY <1>0
<1>6. Limit \in 0..Limit
  BY <1>0
<1>7. \A k \in Nat : k >= Limit => BlockAt(s, ino, k) = 0
  BY <1>0 DEF BlockAt
<1>8. BlocksOf(s, ino) = {Pointers(s, ino)[k] : k \in 0..Limit} \ {0}
  BY <1>1 DEF BlocksOf, Range
<1>9. \A k \in 0..(Limit - 1) : BlockAt(s, ino, k) = Pointers(s, ino)[k]
  BY <1>2, <1>5
<1>10. \A k \in 0..(DIRECT_PTRS - 1) : Pointers(s, ino)[k] = ino.direct[k]
  BY <1>3, <1>9
<1>11. \A k \in DIRECT_PTRS..(Limit - 1) :
         Pointers(s, ino)[k] = IF ino.indirect = 0 THEN 0
                               ELSE PtrOf(s.blocks[ino.indirect][k - DIRECT_PTRS])
  BY <1>4, <1>9
<1>. QED  BY <1>1, <1>2, <1>6, <1>7, <1>8, <1>9, <1>10, <1>11

\* A pointer index is a direct one, one of the indirect block, or that of the indirect block.
LEMMA IndexCases ==
    /\ 0..Limit = 0..(DIRECT_PTRS - 1) \cup DIRECT_PTRS..(Limit - 1) \cup {Limit}
    /\ \A k \in DIRECT_PTRS..(Limit - 1) : k - DIRECT_PTRS \in 0..(PTRS - 1) /\ k - DIRECT_PTRS \in Cells
    /\ 0..(Limit - 1) = 0..(DIRECT_PTRS - 1) \cup DIRECT_PTRS..(Limit - 1)
    /\ 0..(Limit - 1) \in SUBSET (0..Limit)
    /\ Limit \in 0..Limit /\ Limit \notin 0..(Limit - 1)
<1>1. DIRECT_PTRS \in Nat \ {0} /\ PTRS \in Nat \ {0} /\ Limit = DIRECT_PTRS + PTRS /\ Limit \in Nat
  BY Constants
<1>2. \A k \in DIRECT_PTRS..(Limit - 1) : k - DIRECT_PTRS \in 0..(PTRS - 1)
  BY <1>1
<1>. QED  BY <1>1, <1>2, Constants

\* The pointers depend on the inode and the content of its indirect block only.
LEMMA SamePointers ==
    ASSUME NEW s, NEW t, NEW ino, NEW jno,
           ino.direct = jno.direct, ino.indirect = jno.indirect,
           ino.indirect # 0 => s.blocks[ino.indirect] = t.blocks[ino.indirect]
    PROVE  Pointers(t, jno) = Pointers(s, ino)
<1>1. \A k \in 0..Limit : BlockAt(s, ino, k) = BlockAt(t, jno, k)
  BY DEF BlockAt
<1>. QED  BY <1>1 DEF Pointers

\* A store with one inode or one block replaced.
WithInode(s, i, ino) == [s EXCEPT !.inodes[i] = ino]
WithBlock(s, b, new) == [s EXCEPT !.blocks[b] = new]

LEMMA SetInodeFacts ==
    ASSUME NEW s \in Stores, NEW i \in Inodes, NEW ino \in InodeRecs
    PROVE  /\ WithInode(s, i, ino) \in Stores
           /\ WithInode(s, i, ino).inodes = [s.inodes EXCEPT ![i] = ino]
           /\ WithInode(s, i, ino).blocks = s.blocks
           /\ WithInode(s, i, ino).fs = s.fs
<1>1. [s.inodes EXCEPT ![i] = ino] \in [Inodes -> InodeRecs]
  BY StoreFields
<1>. QED  BY <1>1 DEF Stores, WithInode

LEMMA SetBlockFacts ==
    ASSUME NEW s \in Stores, NEW b \in Blocks, NEW new \in [Cells -> CellValues]
    PROVE  /\ WithBlock(s, b, new) \in Stores
           /\ WithBlock(s, b, new).blocks = [s.blocks EXCEPT ![b] = new]
           /\ WithBlock(s, b, new).inodes = s.inodes
           /\ WithBlock(s, b, new).fs = s.fs
<1>1. [s.blocks EXCEPT ![b] = new] \in [Blocks -> [Cells -> CellValues]]
  BY StoreFields
<1>. QED  BY <1>1 DEF Stores, WithBlock

-----------------------------------------------------------------------------
(* Writing: what one write may do to the filesystem and the inode in memory *)

\* An inode that a write can start from: its blocks are its own, none is free, and the
\* free ones are counted.
Pair(s, ino) ==
    /\ s \in Stores /\ ino \in InodeRecs /\ GoodInode(s, ino)
    /\ BlocksOf(s, ino) \cap s.fs.bitmap = {}
    /\ s.fs.free_blocks = Cardinality(s.fs.bitmap)

\* From s with ino to t with jno a write has taken free blocks for the inode and for
\* nothing else, kept all pointers it had, left other blocks alone, and every place
\* holds what it held or what was to be written there.  New blocks have index hi at most.
Extends(s, ino, t, jno, val, hi) ==
    /\ Pair(t, jno)
    /\ t.inodes = s.inodes /\ t.fs.inode_bitmap = s.fs.inode_bitmap
    /\ jno.type = ino.type /\ jno.size = ino.size
    /\ t.fs.bitmap \subseteq s.fs.bitmap
    /\ BlocksOf(t, jno) = BlocksOf(s, ino) \cup (s.fs.bitmap \ t.fs.bitmap)
    /\ \A k \in 0..Limit :
          Pointers(s, ino)[k] # 0 => Pointers(t, jno)[k] = Pointers(s, ino)[k]
    /\ \A b \in Blocks : b \notin BlocksOf(s, ino) /\ b \notin s.fs.bitmap =>
          t.blocks[b] = s.blocks[b]
    /\ \A q \in 0..(Limit - 1), c \in 0..(SLOTS - 1) :
          \/ Unit(t, jno, q, c) = Unit(s, ino, q, c)
          \/ q * SLOTS + c \in DOMAIN val /\ Unit(t, jno, q, c) = val[q * SLOTS + c]
    /\ \A q \in 0..(Limit - 1) : Pointers(s, ino)[q] = 0 /\ Pointers(t, jno)[q] # 0 => q <= hi
    /\ Pointers(s, ino)[Limit] = 0 /\ Pointers(t, jno)[Limit] # 0 => hi >= DIRECT_PTRS

LEMMA ExtendsRefl ==
    ASSUME NEW s, NEW ino, Pair(s, ino), NEW val, NEW hi
    PROVE  Extends(s, ino, s, ino, val, hi)
  BY DEF Extends

LEMMA ExtendsTrans ==
    ASSUME NEW s, NEW ino, NEW t, NEW jno, NEW u, NEW lno, NEW val, NEW hi \in Nat, NEW top \in Nat,
           Pair(s, ino), hi <= top,
           Extends(s, ino, t, jno, val, hi), Extends(t, jno, u, lno, val, top)
    PROVE  Extends(s, ino, u, lno, val, top)
<1>1. Pair(u, lno)
  BY DEF Extends
<1>2. u.inodes = s.inodes /\ u.fs.inode_bitmap = s.fs.inode_bitmap
      /\ lno.type = ino.type /\ lno.size = ino.size
  BY DEF Extends
<1>3. u.fs.bitmap \subseteq s.fs.bitmap /\ u.fs.bitmap \subseteq t.fs.bitmap
      /\ t.fs.bitmap \subseteq s.fs.bitmap
  BY DEF Extends
<1>4. BlocksOf(u, lno) = BlocksOf(s, ino) \cup (s.fs.bitmap \ u.fs.bitmap)
  <2>1. BlocksOf(t, jno) = BlocksOf(s, ino) \cup (s.fs.bitmap \ t.fs.bitmap)
        /\ BlocksOf(u, lno) = BlocksOf(t, jno) \cup (t.fs.bitmap \ u.fs.bitmap)
    BY DEF Extends
  <2>. QED  BY <1>3, <2>1
<1>5. \A k \in 0..Limit : Pointers(s, ino)[k] # 0 => Pointers(u, lno)[k] = Pointers(s, ino)[k]
  BY DEF Extends
<1>6. \A b \in Blocks : b \notin BlocksOf(s, ino) /\ b \notin s.fs.bitmap =>
          u.blocks[b] = s.blocks[b]
  <2>1. \A b \in Blocks : b \notin BlocksOf(s, ino) /\ b \notin s.fs.bitmap =>
          b \notin BlocksOf(t, jno) /\ b \notin t.fs.bitmap
    BY DEF Extends
  <2>. QED  BY <2>1 DEF Extends
<1>7. \A q \in 0..(Limit - 1), c \in 0..(SLOTS - 1) :
          \/ Unit(u, lno, q, c) = Unit(s, ino, q, c)
          \/ q * SLOTS + c \in DOMAIN val /\ Unit(u, lno, q, c) = val[q * SLOTS + c]
  BY DEF Extends
<1>8. \A q \in 0..(Limit - 1) : Pointers(s, ino)[q] = 0 /\ Pointers(u, lno)[q] # 0 => q <= top
  <2>1. \A q \in 0..(Limit - 1) : q <= hi => q <= top
    BY Constants
  <2>2. \A q \in 0..(Limit - 1) : Pointers(s, ino)[q] = 0 /\ Pointers(t, jno)[q] # 0 => q <= hi
    BY DEF Extends
  <2>3. \A q \in 0..(Limit - 1) : Pointers(t, jno)[q] = 0 /\ Pointers(u, lno)[q] # 0 => q <= top
    BY DEF Extends
  <2>. QED  BY <2>1, <2>2, <2>3
<1>9. Pointers(s, ino)[Limit] = 0 /\ Pointers(u, lno)[Limit] # 0 => top >= DIRECT_PTRS
  <2>1. hi >= DIRECT_PTRS => top >= DIRECT_PTRS
    BY Constants
  <2>2. Pointers(s, ino)[Limit] = 0 /\ Pointers(t, jno)[Limit] # 0 => hi >= DIRECT_PTRS
    BY DEF Extends
  <2>3. Pointers(t, jno)[Limit] = 0 /\ Pointers(u, lno)[Limit] # 0 => top >= DIRECT_PTRS
    BY DEF Extends
  <2>. QED  BY <2>1, <2>2, <2>3
<1>. QED  BY <1>1, <1>2, <1>3, <1>4, <1>5, <1>6, <1>7, <1>8, <1>9 DEF Extends

\* A free block, zeroed, becomes the pointer of index k that was missing.
PointerAdded(s, ino, t, jno, k, b) ==
    /\ b \in s.fs.bitmap
    /\ Pointers(s, ino)[k] = 0 /\ Pointers(t, jno)[k] = b
    /\ \A m \in 0..Limit : m # k => Pointers(t, jno)[m] = Pointers(s, ino)[m]
    /\ t.inodes = s.inodes /\ t.fs.inode_bitmap = s.fs.inode_bitmap
    /\ jno.type = ino.type /\ jno.size = ino.size
    /\ t.fs.bitmap = s.fs.bitmap \ {b} /\ t.fs.free_blocks = Cardinality(t.fs.bitmap)
    /\ t.blocks[b] = ZeroBlock
    /\ \A x \in Blocks : x # b /\ x # Pointers(s, ino)[Limit] => t.blocks[x] = s.blocks[x]

LEMMA AddPointer ==
    ASSUME NEW s, NEW ino, Pair(s, ino), NEW t \in Stores, NEW jno \in InodeRecs,
           NEW val, NEW hi \in Nat, NEW k \in 0..Limit, NEW b, PointerAdded(s, ino, t, jno, k, b),
           k = Limit => hi >= DIRECT_PTRS, k # Limit => k <= hi
    PROVE  Extends(s, ino, t, jno, val, hi)
<1>. USE DEF PointerAdded
<1>. DEFINE P == Pointers(s, ino)
            Q == Pointers(t, jno)
<1>0. b \in Blocks /\ b # 0 /\ 0 \notin Blocks /\ s.fs.bitmap \in SUBSET Blocks
  BY StoreFields, Constants DEF Pair
<1>1. /\ \A m \in 0..Limit : P[m] \in PtrValues
      /\ \A m, n \in 0..Limit : P[m] = P[n] /\ P[m] # 0 => m = n
      /\ \A m \in 0..Limit : P[m] # b
  <2>1. /\ \A m \in 0..Limit : P[m] \in PtrValues
        /\ \A m, n \in 0..Limit : P[m] = P[n] /\ P[m] # 0 => m = n
    BY DEF Pair, GoodInode
  <2>2. BlocksOf(s, ino) = {P[m] : m \in 0..Limit} \ {0}
    BY PointersFacts
  <2>3. b \notin BlocksOf(s, ino)
    BY DEF Pair
  <2>. HIDE DEF P
  <2>4. \A m \in 0..Limit : P[m] # b
    BY <1>0, <2>2, <2>3
  <2>. QED  BY <2>1, <2>4 DEF P
<1>2. Q[k] = b /\ \A m \in 0..Limit : m # k => Q[m] = P[m]
  OBVIOUS
<1>3. BlocksOf(s, ino) = {P[m] : m \in 0..Limit} \ {0} /\ BlocksOf(t, jno) = {Q[m] : m \in 0..Limit} \ {0}
  BY PointersFacts
<1>. HIDE DEF P, Q
<1>4. BlocksOf(t, jno) = BlocksOf(s, ino) \cup {b}
  BY <1>0, <1>2, <1>3 DEF P
<1>5. s.fs.bitmap \ t.fs.bitmap = {b}
  OBVIOUS
<1>6. GoodInode(t, jno)
  <2>1. \A m \in 0..Limit : Q[m] \in PtrValues
    BY <1>0, <1>1, <1>2 DEF PtrValues
  <2>2. \A m, n \in 0..Limit : Q[m] = Q[n] /\ Q[m] # 0 => m = n
    BY <1>1, <1>2
  <2>. QED  BY <2>1, <2>2 DEF GoodInode, Q
<1>7. BlocksOf(t, jno) \cap t.fs.bitmap = {}
  BY <1>4 DEF Pair
<1>8. \A q \in 0..(Limit - 1), c \in 0..(SLOTS - 1) : Unit(t, jno, q, c) = Unit(s, ino, q, c)
  <2>. SUFFICES ASSUME NEW q \in 0..(Limit - 1), NEW c \in 0..(SLOTS - 1)
                PROVE  Unit(t, jno, q, c) = Unit(s, ino, q, c)
    OBVIOUS
  <2>0. q \in 0..Limit /\ q # Limit /\ Limit \in 0..Limit /\ c \in Cells
    BY IndexCases, Constants
  <2>1. CASE q = k
    BY <1>0, <1>2, <2>0, <2>1, ZeroBlockType DEF Unit, P, Q
  <2>2. CASE q # k /\ P[q] = 0
    BY <1>2, <2>0, <2>2 DEF Unit, P, Q
  <2>3. CASE q # k /\ P[q] # 0
    <3>1. Q[q] = P[q] /\ P[q] # b /\ P[q] # P[Limit] /\ P[q] \in Blocks
      BY <1>1, <1>2, <2>0, <2>3 DEF PtrValues
    <3>2. t.blocks[P[q]] = s.blocks[P[q]]
      BY <3>1 DEF P
    <3>. QED  BY <2>3, <3>1, <3>2 DEF Unit, P, Q
  <2>. QED  BY <2>1, <2>2, <2>3
<1>9. \A x \in Blocks : x \notin BlocksOf(s, ino) /\ x \notin s.fs.bitmap => t.blocks[x] = s.blocks[x]
  <2>1. \A x \in Blocks : x \notin BlocksOf(s, ino) => x # P[Limit]
    BY <1>0, <1>3, IndexCases
  <2>. QED  BY <2>1 DEF P
<1>10. \A m \in 0..Limit : P[m] # 0 => Q[m] = P[m]
  BY <1>2 DEF P
<1>11. \A q \in 0..(Limit - 1) : P[q] = 0 /\ Q[q] # 0 => q <= hi
  BY <1>2, IndexCases
<1>12. P[Limit] = 0 /\ Q[Limit] # 0 => hi >= DIRECT_PTRS
  BY <1>2, IndexCases
<1>13. Pair(t, jno)
  BY <1>6, <1>7 DEF Pair
<1>. QED  BY <1>4, <1>5, <1>8, <1>9, <1>10, <1>11, <1>12, <1>13 DEF Extends, P, Q

\* The steps of a write, field by field.
LEMMA TakeBlockFacts ==
    ASSUME NEW w \in Writes, w.ok
    PROVE  /\ TakeBlock(w) \in Writes /\ TakeBlock(w).ino = w.ino
           /\ TakeBlock(w).ok <=> HasBlock(w.s)
           /\ ~HasBlock(w.s) => TakeBlock(w).s = w.s
           /\ HasBlock(w.s) => TakeBlock(w).s = AllocBlock(w.s) /\ TakeBlock(w).b = NextBlock(w.s)
<1>1. CASE ~HasBlock(w.s)
  <2>1. TakeBlock(w) = [w EXCEPT !.ok = FALSE]
    BY <1>1 DEF TakeBlock, NoSpace
  <2>2. TakeBlock(w) \in Writes /\ TakeBlock(w).ino = w.ino /\ ~TakeBlock(w).ok /\ TakeBlock(w).s = w.s
    BY <2>1 DEF Writes
  <2>. QED  BY <1>1, <2>2
<1>2. CASE HasBlock(w.s)
  <2>1. AllocBlock(w.s) \in Stores /\ NextBlock(w.s) \in PtrValues
    BY <1>2, WriteFields, AllocBlockFacts DEF PtrValues
  <2>2. TakeBlock(w) = [w EXCEPT !.s = AllocBlock(w.s), !.b = NextBlock(w.s)]
    BY <1>2 DEF TakeBlock
  <2>3. /\ TakeBlock(w) \in Writes /\ TakeBlock(w).ino = w.ino /\ TakeBlock(w).ok
        /\ TakeBlock(w).s = AllocBlock(w.s) /\ TakeBlock(w).b = NextBlock(w.s)
    BY <2>1, <2>2 DEF Writes
  <2>. QED  BY <1>2, <2>3
<1>. QED  BY <1>1, <1>2

LEMMA ZeroTakenFacts ==
    ASSUME NEW w \in Writes, w.ok, w.b \in Blocks
    PROVE  /\ ZeroTaken(w) \in Writes /\ ZeroTaken(w).ok /\ ZeroTaken(w).ino = w.ino
           /\ ZeroTaken(w).b = w.b
           /\ ZeroTaken(w).s = WithBlock(w.s, w.b, ZeroBlock)
<1>1. WithBlock(w.s, w.b, ZeroBlock) \in Stores
  BY WriteFields, SetBlockFacts, ZeroBlockType
<1>2. ZeroTaken(w) = [w EXCEPT !.s = WithBlock(w.s, w.b, ZeroBlock)]
  BY DEF ZeroTaken, Writes, Stores, WithBlock
<1>. QED  BY <1>1, <1>2 DEF Writes

LEMMA SetDirectFacts ==
    ASSUME NEW w \in Writes, w.ok, NEW k \in 0..(DIRECT_PTRS - 1)
    PROVE  /\ SetDirect(w, k) \in Writes /\ SetDirect(w, k).ok /\ SetDirect(w, k).s = w.s
           /\ SetDirect(w, k).b = w.b
           /\ SetDirect(w, k).ino \in InodeRecs
           /\ SetDirect(w, k).ino.direct = [w.ino.direct EXCEPT ![k] = w.b]
           /\ SetDirect(w, k).ino.indirect = w.ino.indirect
           /\ SetDirect(w, k).ino.type = w.ino.type /\ SetDirect(w, k).ino.size = w.ino.size
<1>1. [w.ino.direct EXCEPT ![k] = w.b] \in [0..(DIRECT_PTRS - 1) -> PtrValues]
  BY WriteFields DEF InodeRecs
<1>2. PICK ino \in InodeRecs : /\ ino = [w.ino EXCEPT !.direct = [w.ino.direct EXCEPT ![k] = w.b]]
                               /\ ino.direct = [w.ino.direct EXCEPT ![k] = w.b]
                               /\ ino.indirect = w.ino.indirect
                               /\ ino.type = w.ino.type /\ ino.size = w.ino.size
  <2>. DEFINE new == [w.ino EXCEPT !.direct = [w.ino.direct EXCEPT ![k] = w.b]]
  <2>1. /\ new \in InodeRecs /\ new.direct = [w.ino.direct EXCEPT ![k] = w.b]
        /\ new.indirect = w.ino.indirect /\ new.type = w.ino.type /\ new.size = w.ino.size
    BY <1>1, WriteFields DEF InodeRecs
  <2>. QED  BY <2>1
<1>3. SetDirect(w, k) = [w EXCEPT !.ino = ino]
  BY <1>2 DEF SetDirect, Writes, InodeRecs
<1>. QED  BY <1>2, <1>3 DEF Writes

LEMMA SetIndirectFacts ==
    ASSUME NEW w \in Writes, w.ok
    PROVE  /\ SetIndirect(w) \in Writes /\ SetIndirect(w).ok /\ SetIndirect(w).s = w.s
           /\ SetIndirect(w).b = w.b
           /\ SetIndirect(w).ino \in InodeRecs
           /\ SetIndirect(w).ino.direct = w.ino.direct
           /\ SetIndirect(w).ino.indirect = w.b
           /\ SetIndirect(w).ino.type = w.ino.type /\ SetIndirect(w).ino.size = w.ino.size
<1>1. PICK ino \in InodeRecs : /\ ino = [w.ino EXCEPT !.indirect = w.b]
                               /\ ino.direct = w.ino.direct /\ ino.indirect = w.b
                               /\ ino.type = w.ino.type /\ ino.size = w.ino.size
  <2>. DEFINE new == [w.ino EXCEPT !.indirect = w.b]
  <2>1. /\ new \in InodeRecs /\ new.direct = w.ino.direct
        /\ new.indirect = w.b /\ new.type = w.ino.type /\ new.size = w.ino.size
    BY WriteFields DEF InodeRecs
  <2>. QED  BY <2>1
<1>2. SetIndirect(w) = [w EXCEPT !.ino = ino]
  BY <1>1 DEF SetIndirect, Writes, InodeRecs
<1>. QED  BY <1>1, <1>2 DEF Writes

LEMMA SetPtrFacts ==
    ASSUME NEW w \in Writes, w.ok, w.ino.indirect \in Blocks, NEW k \in 0..(PTRS - 1)
    PROVE  /\ SetPtr(w, k) \in Writes /\ SetPtr(w, k).ok /\ SetPtr(w, k).ino = w.ino
           /\ SetPtr(w, k).b = w.b
           /\ SetPtr(w, k).s.inodes = w.s.inodes /\ SetPtr(w, k).s.fs = w.s.fs
           /\ SetPtr(w, k).s.blocks =
                [w.s.blocks EXCEPT ![w.ino.indirect] = [w.s.blocks[w.ino.indirect] EXCEPT ![k] = Ptr(w.b)]]
<1>0. k \in Cells /\ Ptr(w.b) \in CellValues
  BY Constants, WriteFields, CellFacts
<1>. DEFINE new == [w.s.blocks[w.ino.indirect] EXCEPT ![k] = Ptr(w.b)]
            t   == WithBlock(w.s, w.ino.indirect, new)
<1>1. new \in [Cells -> CellValues]
  BY <1>0, WriteFields, StoreFields
<1>. HIDE DEF new
<1>2. /\ t \in Stores /\ t.blocks = [w.s.blocks EXCEPT ![w.ino.indirect] = new]
      /\ t.inodes = w.s.inodes /\ t.fs = w.s.fs
  BY <1>1, WriteFields, SetBlockFacts
<1>3. SetPtr(w, k) = [w EXCEPT !.s = t]
  BY DEF SetPtr, Writes, Stores, new, WithBlock
<1>. HIDE DEF t
<1>. QED  BY <1>2, <1>3 DEF Writes, new

\* A write of part of a block of the inode.
LEMMA PutCellsFacts ==
    ASSUME NEW w \in Writes, w.ok, Pair(w.s, w.ino), NEW k \in 0..(Limit - 1),
           w.b = Pointers(w.s, w.ino)[k], w.b # 0,
           NEW val, \A p \in DOMAIN val : val[p] \in CellValues, NEW hi
    PROVE  /\ PutCells(w, k, val) \in Writes /\ PutCells(w, k, val).ok
           /\ Extends(w.s, w.ino, PutCells(w, k, val).s, PutCells(w, k, val).ino, val, hi)
           /\ \A c \in 0..(SLOTS - 1) : k * SLOTS + c \in DOMAIN val =>
                Unit(PutCells(w, k, val).s, PutCells(w, k, val).ino, k, c) = val[k * SLOTS + c]
<1>. DEFINE P   == Pointers(w.s, w.ino)
            new == [c \in Cells |-> IF c < SLOTS /\ k * SLOTS + c \in DOMAIN val
                                      THEN val[k * SLOTS + c] ELSE w.s.blocks[w.b][c]]
            t   == WithBlock(w.s, w.b, new)
<1>0. k \in 0..Limit /\ k # Limit /\ Limit \in 0..Limit
  BY IndexCases
<1>1. w.b \in Blocks
  BY <1>0 DEF Pair, GoodInode, PtrValues
<1>2. w.s.blocks[w.b] \in [Cells -> CellValues]
  BY <1>1, WriteFields, StoreFields
<1>3. new \in [Cells -> CellValues]
  BY <1>2
<1>4. \A c \in 0..(SLOTS - 1) :
        new[c] = IF k * SLOTS + c \in DOMAIN val THEN val[k * SLOTS + c] ELSE w.s.blocks[w.b][c]
  BY Constants
<1>5. PutCells(w, k, val) = [w EXCEPT !.s = t]
  BY <1>1, WriteFields, StoreFields DEF PutCells, Writes, Stores, WithBlock
<1>. HIDE DEF new
<1>6. t \in Stores /\ t.blocks = [w.s.blocks EXCEPT ![w.b] = new] /\ t.inodes = w.s.inodes /\ t.fs = w.s.fs
  BY <1>1, <1>3, WriteFields, SetBlockFacts
<1>. HIDE DEF t
<1>7. PutCells(w, k, val) \in Writes /\ PutCells(w, k, val).ok /\ PutCells(w, k, val).s = t
      /\ PutCells(w, k, val).ino = w.ino
  BY <1>5, <1>6 DEF Writes
<1>8. /\ t.blocks[w.b] = new
      /\ \A b \in Blocks : b # w.b => t.blocks[b] = w.s.blocks[b]
  BY <1>1, <1>6, WriteFields, StoreFields
<1>9. \A m \in 0..Limit : P[m] = w.b => m = k
  BY <1>0 DEF Pair, GoodInode
<1>10. w.ino.indirect = P[Limit] /\ (w.ino.indirect # 0 => w.ino.indirect \in Blocks /\ w.ino.indirect # w.b)
  BY <1>0, <1>9, PointersFacts, WriteFields DEF InodeRecs, PtrValues
<1>11. Pointers(t, w.ino) = P
  BY <1>8, <1>10, SamePointers
<1>12. BlocksOf(t, w.ino) = BlocksOf(w.s, w.ino)
  BY <1>11 DEF BlocksOf
<1>13. Pair(t, w.ino)
  BY <1>6, <1>11, <1>12 DEF Pair, GoodInode
<1>14. \A c \in 0..(SLOTS - 1) : Unit(t, w.ino, k, c) = new[c] /\ Unit(w.s, w.ino, k, c) = w.s.blocks[w.b][c]
  BY <1>8, <1>11 DEF Unit
<1>15. \A q \in 0..(Limit - 1), c \in 0..(SLOTS - 1) :
          \/ Unit(t, w.ino, q, c) = Unit(w.s, w.ino, q, c)
          \/ q * SLOTS + c \in DOMAIN val /\ Unit(t, w.ino, q, c) = val[q * SLOTS + c]
  <2>. SUFFICES ASSUME NEW q \in 0..(Limit - 1), NEW c \in 0..(SLOTS - 1)
                PROVE  \/ Unit(t, w.ino, q, c) = Unit(w.s, w.ino, q, c)
                       \/ q * SLOTS + c \in DOMAIN val /\ Unit(t, w.ino, q, c) = val[q * SLOTS + c]
    OBVIOUS
  <2>1. CASE q = k
    BY <1>4, <1>14, <2>1
  <2>2. CASE q # k
    <3>1. q \in 0..Limit
      BY IndexCases
    <3>2. P[q] # w.b /\ (P[q] = 0 \/ P[q] \in Blocks)
      BY <1>9, <2>2, <3>1 DEF Pair, GoodInode, PtrValues
    <3>. QED  BY <1>8, <1>11, <3>2 DEF Unit
  <2>. QED  BY <2>1, <2>2
<1>16. w.b \in BlocksOf(w.s, w.ino)
  BY <1>0, PointersFacts
<1>17. \A b \in Blocks : b \notin BlocksOf(w.s, w.ino) /\ b \notin w.s.fs.bitmap =>
          t.blocks[b] = w.s.blocks[b]
  BY <1>8, <1>16
<1>18. Extends(w.s, w.ino, t, w.ino, val, hi)
  BY <1>6, <1>11, <1>12, <1>13, <1>15, <1>17 DEF Extends
<1>. QED  BY <1>4, <1>7, <1>14, <1>18

\* Once a step has failed the others do nothing.
LEMMA FailedSteps ==
    ASSUME NEW w \in Writes, ~w.ok, NEW k
    PROVE  /\ TakeBlock(w) \in Writes /\ ~TakeBlock(w).ok
           /\ TakeBlock(w).s = w.s /\ TakeBlock(w).ino = w.ino
           /\ ZeroTaken(w) = w /\ SetDirect(w, k) = w /\ SetIndirect(w) = w /\ SetPtr(w, k) = w
<1>1. TakeBlock(w) = [w EXCEPT !.ok = FALSE]
  BY DEF TakeBlock, NoSpace
<1>2. /\ TakeBlock(w) \in Writes /\ ~TakeBlock(w).ok
      /\ TakeBlock(w).s = w.s /\ TakeBlock(w).ino = w.ino
  BY <1>1 DEF Writes
<1>3. ZeroTaken(w) = w /\ SetDirect(w, k) = w /\ SetIndirect(w) = w /\ SetPtr(w, k) = w
  BY DEF ZeroTaken, SetDirect, SetIndirect, SetPtr
<1>. QED  BY <1>2, <1>3

\* A new direct block.
LEMMA FindDirect ==
    ASSUME NEW w \in Writes, w.ok, Pair(w.s, w.ino), NEW k \in 0..(DIRECT_PTRS - 1),
           Pointers(w.s, w.ino)[k] = 0, NEW val, NEW v, v = ZeroTaken(SetDirect(TakeBlock(w), k))
    PROVE  /\ v \in Writes /\ Extends(w.s, w.ino, v.s, v.ino, val, k)
           /\ v.ok => v.b = Pointers(v.s, v.ino)[k] /\ v.b # 0
<1>. DEFINE u == TakeBlock(w)
<1>1. u \in Writes /\ u.ino = w.ino /\ (u.ok <=> HasBlock(w.s))
  BY TakeBlockFacts
<1>2. CASE ~HasBlock(w.s)
  <2>1. v = u /\ u.s = w.s /\ ~v.ok
    BY <1>1, <1>2, FailedSteps, TakeBlockFacts
  <2>. QED  BY <1>1, <2>1, ExtendsRefl
<1>3. CASE HasBlock(w.s)
  <2>1. PICK b \in w.s.fs.bitmap :
          /\ b = u.b /\ b \in Blocks /\ u.ok /\ u.s \in Stores
          /\ u.s.inodes = w.s.inodes /\ u.s.blocks = w.s.blocks
          /\ u.s.fs.bitmap = w.s.fs.bitmap \ {b} /\ u.s.fs.inode_bitmap = w.s.fs.inode_bitmap
          /\ u.s.fs.free_blocks = Cardinality(u.s.fs.bitmap)
    <3>1. u.s = AllocBlock(w.s) /\ u.b = NextBlock(w.s)
      BY <1>3, TakeBlockFacts
    <3>. HIDE DEF u
    <3>2. w.s \in Stores /\ w.s.fs.free_blocks = Cardinality(w.s.fs.bitmap)
      BY DEF Pair
    <3>. QED  BY <1>1, <1>3, <3>1, <3>2, AllocBlockFacts
  <2>2. PICK x \in Writes : /\ x = SetDirect(u, k) /\ x.ok /\ x.s = u.s /\ x.b = b
                            /\ x.ino \in InodeRecs
                            /\ x.ino.direct = [w.ino.direct EXCEPT ![k] = b]
                            /\ x.ino.indirect = w.ino.indirect
                            /\ x.ino.type = w.ino.type /\ x.ino.size = w.ino.size
    <3>. HIDE DEF u
    <3>. QED  BY <1>1, <2>1, SetDirectFacts
  <2>3. v \in Writes /\ v.ok /\ v.ino = x.ino /\ v.b = b /\ v.s = WithBlock(x.s, b, ZeroBlock)
    BY <2>1, <2>2, ZeroTakenFacts
  <2>4. /\ v.s \in Stores /\ v.s.blocks = [w.s.blocks EXCEPT ![b] = ZeroBlock]
        /\ v.s.inodes = w.s.inodes /\ v.s.fs = u.s.fs
    BY <2>1, <2>2, <2>3, SetBlockFacts, ZeroBlockType
  <2>5. v.s.blocks[b] = ZeroBlock /\ \A y \in Blocks : y # b => v.s.blocks[y] = w.s.blocks[y]
    BY <2>1, <2>4, WriteFields, StoreFields
  <2>6. w.ino.indirect # 0 => w.ino.indirect \in Blocks /\ w.ino.indirect # b
    <3>1. w.ino.indirect # 0 => w.ino.indirect \in BlocksOf(w.s, w.ino)
      BY PointersFacts, IndexCases
    <3>. QED  BY <3>1, WriteFields DEF Pair, InodeRecs, PtrValues
  <2>7. \A m \in DIRECT_PTRS..(Limit - 1) : Pointers(v.s, v.ino)[m] = Pointers(w.s, w.ino)[m]
    <3>. SUFFICES ASSUME NEW m \in DIRECT_PTRS..(Limit - 1)
                  PROVE  Pointers(v.s, v.ino)[m] = Pointers(w.s, w.ino)[m]
      OBVIOUS
    <3>1. v.ino.indirect = w.ino.indirect
      BY <2>2, <2>3
    <3>2. w.ino.indirect # 0 => v.s.blocks[w.ino.indirect] = w.s.blocks[w.ino.indirect]
      BY <2>5, <2>6
    <3>. QED  BY <3>1, <3>2, PointersFacts
  <2>8. \A m \in 0..(DIRECT_PTRS - 1) :
           Pointers(v.s, v.ino)[m] = IF m = k THEN b ELSE Pointers(w.s, w.ino)[m]
    <3>1. w.ino.direct \in [0..(DIRECT_PTRS - 1) -> PtrValues]
      BY WriteFields DEF InodeRecs
    <3>2. \A m \in 0..(DIRECT_PTRS - 1) : v.ino.direct[m] = IF m = k THEN b ELSE w.ino.direct[m]
      <4>1. v.ino.direct = [w.ino.direct EXCEPT ![k] = b]
        BY <2>2, <2>3
      <4>. QED  BY <3>1, <4>1
    <3>3. \A m \in 0..(DIRECT_PTRS - 1) : Pointers(v.s, v.ino)[m] = v.ino.direct[m]
                                         /\ Pointers(w.s, w.ino)[m] = w.ino.direct[m]
      BY PointersFacts
    <3>. QED  BY <3>2, <3>3
  <2>9. Pointers(v.s, v.ino)[Limit] = Pointers(w.s, w.ino)[Limit]
    BY <2>2, <2>3, PointersFacts
  <2>10. k \in 0..Limit /\ k # Limit /\ k \in Nat
    BY IndexCases, Constants
  <2>11. Pointers(v.s, v.ino)[k] = b
    BY <2>8
  <2>12. \A m \in 0..Limit : m # k => Pointers(v.s, v.ino)[m] = Pointers(w.s, w.ino)[m]
    BY <2>7, <2>8, <2>9, IndexCases
  <2>13. v.ino \in InodeRecs /\ v.ino.type = w.ino.type /\ v.ino.size = w.ino.size
    BY <2>2, <2>3
  <2>14. v.s.fs.bitmap = w.s.fs.bitmap \ {b} /\ v.s.fs.free_blocks = Cardinality(v.s.fs.bitmap)
         /\ v.s.fs.inode_bitmap = w.s.fs.inode_bitmap
    BY <2>1, <2>4
  <2>15. Extends(w.s, w.ino, v.s, v.ino, val, k)
    <3>1. PointerAdded(w.s, w.ino, v.s, v.ino, k, b)
      BY <2>1, <2>4, <2>5, <2>11, <2>12, <2>13, <2>14 DEF PointerAdded
    <3>. QED  BY <2>4, <2>10, <2>13, <3>1, AddPointer
  <2>. QED  BY <2>1, <2>3, <2>11, <2>15, Constants
<1>. QED  BY <1>2, <1>3

\* A new indirect block, if there is none.
LEMMA EnsureIndirectFacts ==
    ASSUME NEW w \in Writes, w.ok, Pair(w.s, w.ino), NEW hi \in Nat, hi >= DIRECT_PTRS,
           NEW val, NEW v, v = EnsureIndirect(w)
    PROVE  /\ v \in Writes /\ Extends(w.s, w.ino, v.s, v.ino, val, hi)
           /\ v.ok => v.ino.indirect \in Blocks
           /\ \A m \in 0..(Limit - 1) : Pointers(v.s, v.ino)[m] = Pointers(w.s, w.ino)[m]
<1>. DEFINE u == TakeBlock(w)
<1>1. u \in Writes /\ u.ino = w.ino /\ (u.ok <=> HasBlock(w.s))
  BY TakeBlockFacts
<1>2. CASE w.ino.indirect # 0
  <2>1. v = w /\ w.ino.indirect \in Blocks
    BY <1>2, WriteFields DEF EnsureIndirect, InodeRecs, PtrValues
  <2>. QED  BY <2>1, ExtendsRefl
<1>3. CASE w.ino.indirect = 0 /\ ~HasBlock(w.s)
  <2>1. v = u /\ u.s = w.s /\ ~v.ok
    BY <1>1, <1>3, FailedSteps, TakeBlockFacts DEF EnsureIndirect
  <2>. QED  BY <1>1, <2>1, ExtendsRefl
<1>4. CASE w.ino.indirect = 0 /\ HasBlock(w.s)
  <2>1. PICK b \in w.s.fs.bitmap :
          /\ b = u.b /\ b \in Blocks /\ u.ok /\ u.s \in Stores
          /\ u.s.inodes = w.s.inodes /\ u.s.blocks = w.s.blocks
          /\ u.s.fs.bitmap = w.s.fs.bitmap \ {b} /\ u.s.fs.inode_bitmap = w.s.fs.inode_bitmap
          /\ u.s.fs.free_blocks = Cardinality(u.s.fs.bitmap)
    <3>1. u.s = AllocBlock(w.s) /\ u.b = NextBlock(w.s)
      BY <1>4, TakeBlockFacts
    <3>. HIDE DEF u
    <3>2. w.s \in Stores /\ w.s.fs.free_blocks = Cardinality(w.s.fs.bitmap)
      BY DEF Pair
    <3>. QED  BY <1>1, <1>4, <3>1, <3>2, AllocBlockFacts
  <2>2. PICK x \in Writes : /\ x = ZeroTaken(u) /\ x.ok /\ x.ino = w.ino /\ x.b = b
                            /\ x.s = WithBlock(u.s, b, ZeroBlock)
    <3>. HIDE DEF u
    <3>. QED  BY <1>1, <2>1, ZeroTakenFacts
  <2>3. v = SetIndirect(x)
    BY <1>4, <2>2 DEF EnsureIndirect
  <2>4. /\ v \in Writes /\ v.ok /\ v.s = x.s /\ v.ino \in InodeRecs
        /\ v.ino.direct = w.ino.direct /\ v.ino.indirect = b
        /\ v.ino.type = w.ino.type /\ v.ino.size = w.ino.size
    BY <2>2, <2>3, SetIndirectFacts
  <2>5. /\ v.s \in Stores /\ v.s.blocks = [w.s.blocks EXCEPT ![b] = ZeroBlock]
        /\ v.s.inodes = w.s.inodes /\ v.s.fs = u.s.fs
    BY <2>1, <2>2, <2>4, SetBlockFacts, ZeroBlockType
  <2>6. v.s.blocks[b] = ZeroBlock /\ \A y \in Blocks : y # b => v.s.blocks[y] = w.s.blocks[y]
    BY <2>1, <2>5, WriteFields, StoreFields
  <2>7. \A m \in DIRECT_PTRS..(Limit - 1) : Pointers(v.s, v.ino)[m] = Pointers(w.s, w.ino)[m]
    <3>. SUFFICES ASSUME NEW m \in DIRECT_PTRS..(Limit - 1)
                  PROVE  Pointers(v.s, v.ino)[m] = Pointers(w.s, w.ino)[m]
      OBVIOUS
    <3>1. Pointers(w.s, w.ino)[m] = 0
      BY <1>4, PointersFacts
    <3>2. v.ino.indirect # 0
      BY <2>1, <2>4, Constants
    <3>3. Pointers(v.s, v.ino)[m] = PtrOf(ZeroBlock[m - DIRECT_PTRS])
      BY <2>4, <2>6, <3>2, PointersFacts
    <3>4. m - DIRECT_PTRS \in Cells
      BY IndexCases
    <3>. QED  BY <3>1, <3>3, <3>4, ZeroBlockType, CellFacts
  <2>8. \A m \in 0..(DIRECT_PTRS - 1) : Pointers(v.s, v.ino)[m] = Pointers(w.s, w.ino)[m]
    BY <2>4, PointersFacts
  <2>9. Pointers(v.s, v.ino)[Limit] = b /\ Pointers(w.s, w.ino)[Limit] = 0
    BY <1>4, <2>4, PointersFacts
  <2>10. \A m \in 0..(Limit - 1) : Pointers(v.s, v.ino)[m] = Pointers(w.s, w.ino)[m]
    BY <2>7, <2>8, IndexCases
  <2>11. \A m \in 0..Limit : m # Limit => Pointers(v.s, v.ino)[m] = Pointers(w.s, w.ino)[m]
    BY <2>7, <2>8, IndexCases
  <2>12. v.s.fs.bitmap = w.s.fs.bitmap \ {b} /\ v.s.fs.free_blocks = Cardinality(v.s.fs.bitmap)
         /\ v.s.fs.inode_bitmap = w.s.fs.inode_bitmap
    BY <2>1, <2>5
  <2>13. Extends(w.s, w.ino, v.s, v.ino, val, hi)
    <3>1. PointerAdded(w.s, w.ino, v.s, v.ino, Limit, b)
      BY <2>1, <2>4, <2>5, <2>6, <2>9, <2>11, <2>12 DEF PointerAdded
    <3>. QED  BY <2>4, <2>5, <3>1, IndexCases, AddPointer
  <2>. QED  BY <2>1, <2>4, <2>10, <2>13
<1>. QED  BY <1>2, <1>3, <1>4

\* A new block in an indirect block that is there.
LEMMA FindThroughIndirect ==
    ASSUME NEW w \in Writes, w.ok, Pair(w.s, w.ino), w.ino.indirect \in Blocks,
           NEW k \in DIRECT_PTRS..(Limit - 1), Pointers(w.s, w.ino)[k] = 0,
           NEW val, NEW v, v = ZeroTaken(SetPtr(TakeBlock(w), k - DIRECT_PTRS))
    PROVE  /\ v \in Writes /\ Extends(w.s, w.ino, v.s, v.ino, val, k)
           /\ v.ok => v.b = Pointers(v.s, v.ino)[k] /\ v.b # 0
<1>. DEFINE u == TakeBlock(w)
            j == k - DIRECT_PTRS
<1>1. u \in Writes /\ u.ino = w.ino /\ (u.ok <=> HasBlock(w.s))
  BY TakeBlockFacts
<1>2. CASE ~HasBlock(w.s)
  <2>0. ~u.ok /\ u.s = w.s
    BY <1>1, <1>2, TakeBlockFacts
  <2>1. v = u /\ u.s = w.s /\ ~v.ok
    BY <2>0 DEF SetPtr, ZeroTaken
  <2>. QED  BY <1>1, <2>1, ExtendsRefl
<1>3. CASE HasBlock(w.s)
  <2>0. j \in 0..(PTRS - 1) /\ j \in Cells
    BY IndexCases
  <2>1. PICK b \in w.s.fs.bitmap :
          /\ b = u.b /\ b \in Blocks /\ u.ok /\ u.s \in Stores
          /\ u.s.inodes = w.s.inodes /\ u.s.blocks = w.s.blocks
          /\ u.s.fs.bitmap = w.s.fs.bitmap \ {b} /\ u.s.fs.inode_bitmap = w.s.fs.inode_bitmap
          /\ u.s.fs.free_blocks = Cardinality(u.s.fs.bitmap)
    <3>1. u.s = AllocBlock(w.s) /\ u.b = NextBlock(w.s)
      BY <1>3, TakeBlockFacts
    <3>. HIDE DEF u
    <3>2. w.s \in Stores /\ w.s.fs.free_blocks = Cardinality(w.s.fs.bitmap)
      BY DEF Pair
    <3>. QED  BY <1>1, <1>3, <3>1, <3>2, AllocBlockFacts
  <2>2. PICK a \in Blocks : a = w.ino.indirect /\ a # b /\ a # 0
    <3>1. w.ino.indirect \in BlocksOf(w.s, w.ino)
      <4>1. w.ino.indirect # 0
        BY Constants
      <4>2. w.ino.indirect = Pointers(w.s, w.ino)[Limit] /\ Limit \in 0..Limit
        BY PointersFacts, IndexCases
      <4>3. BlocksOf(w.s, w.ino) = {Pointers(w.s, w.ino)[m] : m \in 0..Limit} \ {0}
        BY PointersFacts
      <4>. QED  BY <4>1, <4>2, <4>3
    <3>. QED  BY <3>1, Constants DEF Pair
  <2>. HIDE DEF u, j
  <2>3. PICK x \in Writes : /\ x = SetPtr(u, j) /\ x.ok /\ x.ino = w.ino /\ x.b = b
                            /\ x.s.inodes = w.s.inodes /\ x.s.fs = u.s.fs
                            /\ x.s.blocks = [w.s.blocks EXCEPT ![a] = [w.s.blocks[a] EXCEPT ![j] = Ptr(b)]]
    <3>1. u.ino.indirect = a
      BY <1>1, <2>2
    <3>. QED  BY <1>1, <2>0, <2>1, <2>2, <3>1, SetPtrFacts, SMTT(60)
  <2>4. v \in Writes /\ v.ok /\ v.ino = w.ino /\ v.b = b /\ v.s = WithBlock(x.s, b, ZeroBlock)
    BY <2>1, <2>3, ZeroTakenFacts DEF u, j
  <2>5. /\ v.s \in Stores /\ v.s.blocks = [x.s.blocks EXCEPT ![b] = ZeroBlock]
        /\ v.s.inodes = w.s.inodes /\ v.s.fs = u.s.fs
    <3>1. PICK y \in Stores : y = x.s
      BY <2>3, WriteFields
    <3>2. /\ v.s \in Stores /\ v.s.blocks = [y.blocks EXCEPT ![b] = ZeroBlock]
          /\ v.s.inodes = y.inodes /\ v.s.fs = y.fs
      <4>1. v.s = WithBlock(y, b, ZeroBlock)
        BY <2>4, <3>1
      <4>2. ZeroBlock \in [Cells -> CellValues] /\ b \in Blocks
        BY <2>1, ZeroBlockType
      <4>. QED  BY <4>1, <4>2, SetBlockFacts
    <3>. QED  BY <2>3, <3>1, <3>2
  <2>6. /\ x.s.blocks \in [Blocks -> [Cells -> CellValues]]
        /\ w.s.blocks \in [Blocks -> [Cells -> CellValues]]
    BY <2>3, WriteFields, StoreFields
  <2>7. /\ v.s.blocks[b] = ZeroBlock
        /\ \A y \in Blocks : y # b => v.s.blocks[y] = x.s.blocks[y]
    BY <2>1, <2>5, <2>6
  <2>8. /\ x.s.blocks[a] = [w.s.blocks[a] EXCEPT ![j] = Ptr(b)]
        /\ \A y \in Blocks : y # a => x.s.blocks[y] = w.s.blocks[y]
    BY <2>2, <2>3, <2>6
  <2>9. \A y \in Blocks : y # b /\ y # a => v.s.blocks[y] = w.s.blocks[y]
    BY <2>7, <2>8
  <2>10. v.s.blocks[a] = [w.s.blocks[a] EXCEPT ![j] = Ptr(b)]
    BY <2>2, <2>7, <2>8
  <2>11. \A c \in Cells : v.s.blocks[a][c] = IF c = j THEN Ptr(b) ELSE w.s.blocks[a][c]
    BY <2>0, <2>2, <2>6, <2>10
  <2>12. \A m \in DIRECT_PTRS..(Limit - 1) :
           Pointers(v.s, v.ino)[m] = IF m = k THEN b ELSE Pointers(w.s, w.ino)[m]
    <3>. SUFFICES ASSUME NEW m \in DIRECT_PTRS..(Limit - 1)
                  PROVE  Pointers(v.s, v.ino)[m] = IF m = k THEN b ELSE Pointers(w.s, w.ino)[m]
      OBVIOUS
    <3>1. m - DIRECT_PTRS \in Cells /\ (m - DIRECT_PTRS = j <=> m = k)
      BY IndexCases, Constants DEF j
    <3>2. Pointers(v.s, v.ino)[m] = PtrOf(v.s.blocks[a][m - DIRECT_PTRS])
          /\ Pointers(w.s, w.ino)[m] = PtrOf(w.s.blocks[a][m - DIRECT_PTRS])
      BY <2>2, <2>4, PointersFacts
    <3>3. PtrOf(Ptr(b)) = b
      BY <2>1, CellFacts DEF PtrValues
    <3>. QED  BY <2>11, <3>1, <3>2, <3>3
  <2>13. /\ \A m \in 0..(DIRECT_PTRS - 1) : Pointers(v.s, v.ino)[m] = Pointers(w.s, w.ino)[m]
         /\ Pointers(v.s, v.ino)[Limit] = Pointers(w.s, w.ino)[Limit]
         /\ Pointers(w.s, w.ino)[Limit] = a
    BY <2>2, <2>4, PointersFacts
  <2>14. k \in 0..Limit /\ k # Limit /\ k \in Nat
    BY IndexCases, Constants
  <2>15. Pointers(v.s, v.ino)[k] = b
    BY <2>12
  <2>16. \A m \in 0..Limit : m # k => Pointers(v.s, v.ino)[m] = Pointers(w.s, w.ino)[m]
    BY <2>12, <2>13, IndexCases
  <2>17. v.s.fs.bitmap = w.s.fs.bitmap \ {b} /\ v.s.fs.free_blocks = Cardinality(v.s.fs.bitmap)
         /\ v.s.fs.inode_bitmap = w.s.fs.inode_bitmap
    BY <2>1, <2>5
  <2>18. PointerAdded(w.s, w.ino, v.s, v.ino, k, b)
    BY <2>1, <2>4, <2>5, <2>7, <2>9, <2>13, <2>15, <2>16, <2>17 DEF PointerAdded
  <2>19. v.ino \in InodeRecs /\ k <= k
    BY <2>4, <2>14, WriteFields
  <2>20. Extends(w.s, w.ino, v.s, v.ino, val, k)
    BY <2>5, <2>14, <2>18, <2>19, AddPointer
  <2>. QED  BY <2>1, <2>4, <2>15, <2>20, Constants
<1>. QED  BY <1>2, <1>3

\* write_inode_data has the block of index k in hand, or there is no space.
LEMMA FindBlockFacts ==
    ASSUME NEW w \in Writes, w.ok, Pair(w.s, w.ino), NEW k \in Nat, NEW val,
           NEW v, v = FindBlock(w, k)
    PROVE  /\ v \in Writes /\ Extends(w.s, w.ino, v.s, v.ino, val, k)
           /\ v.ok => k \in 0..(Limit - 1) /\ v.b = Pointers(v.s, v.ino)[k] /\ v.b # 0
<1>0. Limit \in Nat /\ DIRECT_PTRS \in Nat /\ Limit > DIRECT_PTRS
  BY Constants
<1>1. CASE BlockAt(w.s, w.ino, k) # 0
  <2>1. k \in 0..(Limit - 1) /\ BlockAt(w.s, w.ino, k) = Pointers(w.s, w.ino)[k]
    BY <1>0, <1>1, PointersFacts
  <2>2. Pointers(w.s, w.ino)[k] \in PtrValues
    BY <2>1, IndexCases DEF Pair, GoodInode
  <2>3. v = [w EXCEPT !.b = Pointers(w.s, w.ino)[k]]
    BY <1>1, <2>1 DEF FindBlock
  <2>4. v \in Writes /\ v.s = w.s /\ v.ino = w.ino /\ v.b = Pointers(w.s, w.ino)[k]
    BY <2>2, <2>3 DEF Writes
  <2>. QED  BY <1>1, <2>1, <2>4, ExtendsRefl
<1>2. CASE BlockAt(w.s, w.ino, k) = 0 /\ k < DIRECT_PTRS
  <2>1. k \in 0..(DIRECT_PTRS - 1) /\ k \in 0..(Limit - 1) /\ Pointers(w.s, w.ino)[k] = 0
    BY <1>0, <1>2, PointersFacts
  <2>2. v = ZeroTaken(SetDirect(TakeBlock(w), k))
    BY <1>2 DEF FindBlock, AllocInodeBlock
  <2>. QED  BY <2>1, <2>2, FindDirect
<1>3. CASE k >= Limit
  <2>1. BlockAt(w.s, w.ino, k) = 0
    BY <1>0, <1>3 DEF BlockAt
  <2>2. v = ZeroTaken(NoSpace(w))
    BY <1>0, <1>3, <2>1 DEF FindBlock, AllocInodeBlock
  <2>3. NoSpace(w) \in Writes /\ ~NoSpace(w).ok /\ NoSpace(w).s = w.s /\ NoSpace(w).ino = w.ino
    BY DEF NoSpace, Writes
  <2>4. v = NoSpace(w)
    BY <2>2, <2>3 DEF ZeroTaken
  <2>. QED  BY <2>3, <2>4, ExtendsRefl
<1>4. CASE BlockAt(w.s, w.ino, k) = 0 /\ k >= DIRECT_PTRS /\ k < Limit
  <2>1. k \in DIRECT_PTRS..(Limit - 1) /\ k \in 0..(Limit - 1) /\ Pointers(w.s, w.ino)[k] = 0
    BY <1>0, <1>4, PointersFacts
  <2>2. v = ZeroTaken(SetPtr(TakeBlock(EnsureIndirect(w)), k - DIRECT_PTRS))
    BY <1>0, <1>4 DEF FindBlock, AllocInodeBlock
  <2>3. PICK u \in Writes :
          /\ u = EnsureIndirect(w) /\ Extends(w.s, w.ino, u.s, u.ino, val, k)
          /\ u.ok => u.ino.indirect \in Blocks
          /\ Pointers(u.s, u.ino)[k] = 0
    BY <1>4, <2>1, EnsureIndirectFacts
  <2>4. Pair(u.s, u.ino)
    BY <2>3 DEF Extends
  <2>5. CASE u.ok
    <3>1. v \in Writes /\ Extends(u.s, u.ino, v.s, v.ino, val, k)
          /\ (v.ok => v.b = Pointers(v.s, v.ino)[k] /\ v.b # 0)
      BY <2>1, <2>2, <2>3, <2>4, <2>5, FindThroughIndirect
    <3>2. Extends(w.s, w.ino, v.s, v.ino, val, k)
      BY <1>0, <2>3, <3>1, ExtendsTrans
    <3>. QED  BY <2>1, <3>1, <3>2
  <2>6. CASE ~u.ok
    <3>1. PICK x \in Writes : x = TakeBlock(u) /\ ~x.ok /\ x.s = u.s /\ x.ino = u.ino
      BY <2>6, FailedSteps
    <3>2. v = x
      BY <2>2, <2>3, <3>1 DEF SetPtr, ZeroTaken
    <3>. QED  BY <2>3, <3>1, <3>2
  <2>. QED  BY <2>5, <2>6
<1>. QED  BY <1>0, <1>1, <1>2, <1>3, <1>4

\* One block of a write.
LEMMA WriteBlockFacts ==
    ASSUME NEW w \in Writes, Pair(w.s, w.ino), NEW k \in Nat,
           NEW val, \A p \in DOMAIN val : val[p] \in CellValues,
           NEW v, v = WriteBlock(w, k, val)
    PROVE  /\ v \in Writes /\ Extends(w.s, w.ino, v.s, v.ino, val, k)
           /\ v.ok => /\ w.ok /\ k \in 0..(Limit - 1) /\ Pointers(v.s, v.ino)[k] # 0
                      /\ \A c \in 0..(SLOTS - 1) : k * SLOTS + c \in DOMAIN val =>
                            Unit(v.s, v.ino, k, c) = val[k * SLOTS + c]
<1>1. CASE ~w.ok
  <2>1. v = w
    BY <1>1 DEF WriteBlock
  <2>. QED  BY <1>1, <2>1, ExtendsRefl
<1>2. CASE w.ok
  <2>1. PICK u \in Writes :
          /\ u = FindBlock(w, k) /\ Extends(w.s, w.ino, u.s, u.ino, val, k)
          /\ u.ok => k \in 0..(Limit - 1) /\ u.b = Pointers(u.s, u.ino)[k] /\ u.b # 0
    BY <1>2, FindBlockFacts
  <2>2. v = PutCells(u, k, val)
    BY <1>2, <2>1 DEF WriteBlock
  <2>3. Pair(u.s, u.ino)
    BY <2>1 DEF Extends
  <2>4. CASE ~u.ok
    <3>1. v = u
      BY <2>2, <2>4 DEF PutCells
    <3>. QED  BY <2>1, <2>4, <3>1
  <2>5. CASE u.ok
    <3>1. v \in Writes /\ Extends(u.s, u.ino, v.s, v.ino, val, k)
      BY <2>1, <2>2, <2>3, <2>5, PutCellsFacts
    <3>2. \A c \in 0..(SLOTS - 1) : k * SLOTS + c \in DOMAIN val =>
            Unit(v.s, v.ino, k, c) = val[k * SLOTS + c]
      BY <2>1, <2>2, <2>3, <2>5, PutCellsFacts, ZenonT(60)
    <3>3. Extends(w.s, w.ino, v.s, v.ino, val, k)
      <4>1. k <= k
        OBVIOUS
      <4>. QED  BY <2>1, <3>1, <4>1, ExtendsTrans
    <3>4. Pointers(v.s, v.ino)[k] # 0
      BY <2>1, <2>5, <3>1, IndexCases DEF Extends
    <3>. QED  BY <1>2, <2>1, <2>5, <3>1, <3>2, <3>3, <3>4
  <2>. QED  BY <2>4, <2>5
<1>. QED  BY <1>1, <1>2

\* The results of the loop of write_inode_data after each of the blocks first..last.
IsLoop(f, s, ino, val, first, last) ==
    f = [k \in first..last |->
           WriteBlock(IF k = first THEN Writing(s, ino) ELSE f[k - 1], k, val)]

LEMMA LoopExists ==
    ASSUME NEW s, NEW ino, NEW val, NEW first \in Nat, NEW last \in Nat, first <= last
    PROVE  \E f : IsLoop(f, s, ino, val, first, last)
<1>. DEFINE Bad == {m \in Nat : first <= m /\ ~ \E f : IsLoop(f, s, ino, val, first, m)}
<1>1. SUFFICES Bad = {}
  OBVIOUS
<1>2. SUFFICES ASSUME Bad # {}  PROVE FALSE
  OBVIOUS
<1>3. Min(Bad) \in Bad /\ \A m \in Bad : Min(Bad) <= m
  <2>1. Bad \in SUBSET Nat
    OBVIOUS
  <2>. HIDE DEF Bad
  <2>. QED  BY <1>2, <2>1, MinIn
<1>4. PICK m \in Nat : m \in Bad /\ \A x \in Bad : m <= x
  BY <1>3
<1>5. CASE m = first
  <2>. DEFINE g == [k \in first..m |-> WriteBlock(Writing(s, ino), k, val)]
  <2>1. g = [k \in first..m |-> WriteBlock(IF k = first THEN Writing(s, ino) ELSE g[k - 1], k, val)]
    <3>1. \A k \in first..m : k = first
      BY <1>5
    <3>. QED  BY <3>1
  <2>. HIDE DEF g
  <2>2. IsLoop(g, s, ino, val, first, m)
    BY <2>1 DEF IsLoop
  <2>. QED  BY <1>4, <2>2
<1>6. CASE m # first
  <2>1. m - 1 \in Nat /\ first <= m - 1 /\ m - 1 \notin Bad
    BY <1>4, <1>6
  <2>2. PICK f : IsLoop(f, s, ino, val, first, m - 1)
    BY <2>1
  <2>3. /\ \A k \in first..(m - 1) :
             f[k] = WriteBlock(IF k = first THEN Writing(s, ino) ELSE f[k - 1], k, val)
    BY <2>2 DEF IsLoop
  <2>. DEFINE g == [k \in first..m |-> IF k = m THEN WriteBlock(f[m - 1], m, val) ELSE f[k]]
  <2>4. \A k \in first..m :
          g[k] = WriteBlock(IF k = first THEN Writing(s, ino) ELSE g[k - 1], k, val)
    <3>. SUFFICES ASSUME NEW k \in first..m
                  PROVE  g[k] = WriteBlock(IF k = first THEN Writing(s, ino) ELSE g[k - 1], k, val)
      OBVIOUS
    <3>1. CASE k = m
      <4>1. m - 1 \in first..m /\ m - 1 # m
        BY <2>1
      <4>2. g[m - 1] = f[m - 1]
        BY <4>1
      <4>. QED  BY <1>6, <3>1, <4>2
    <3>2. CASE k # m
      <4>1. k \in first..(m - 1) /\ (k # first => k - 1 \in first..m /\ k - 1 # m)
        BY <3>2
      <4>2. g[k] = f[k] /\ (k # first => g[k - 1] = f[k - 1])
        BY <3>2, <4>1
      <4>. QED  BY <2>3, <4>1, <4>2
    <3>. QED  BY <3>1, <3>2
  <2>5. g = [k \in first..m |-> g[k]]
    OBVIOUS
  <2>. HIDE DEF g
  <2>6. IsLoop(g, s, ino, val, first, m)
    BY <2>4, <2>5 DEF IsLoop
  <2>. QED  BY <1>4, <2>6
<1>. QED  BY <1>5, <1>6

\* write_inode_data is the last of them, and grows the inode.
LEMMA WriteInodeDataLoop ==
    ASSUME NEW s, NEW ino, NEW val, NEW lo \in Nat, NEW hi \in Nat, lo <= hi, DOMAIN val = lo..hi
    PROVE  \E f : /\ IsLoop(f, s, ino, val, lo \div SLOTS, hi \div SLOTS)
                  /\ WriteInodeData(s, ino, val) = Grow(f[hi \div SLOTS], hi + 1)
<1>1. Min(DOMAIN val) = lo /\ Max(DOMAIN val) = hi
  BY MinMaxInterval
<1>. DEFINE first == lo \div SLOTS
            last  == hi \div SLOTS
            f     == CHOOSE f : IsLoop(f, s, ino, val, first, last)
<1>2. first \in Nat /\ last \in Nat /\ first <= last
  <2>1. /\ first \in Nat /\ lo % SLOTS \in 0..(SLOTS - 1) /\ lo = first * SLOTS + (lo % SLOTS)
        /\ last \in Nat /\ hi % SLOTS \in 0..(SLOTS - 1) /\ hi = last * SLOTS + (hi % SLOTS)
    BY Constants, CellOfPlace
  <2>2. \A S \in Nat \ {0}, a, b, c, d \in Nat : c < S /\ d < S /\ a * S + c <= b * S + d => a <= b
    BY SMTT(30)
  <2>3. lo % SLOTS \in Nat /\ hi % SLOTS \in Nat /\ lo % SLOTS < SLOTS /\ hi % SLOTS < SLOTS
    BY <2>1, Constants
  <2>. HIDE DEF first, last
  <2>. QED  BY <2>1, <2>2, <2>3, Constants
<1>3. \E g : IsLoop(g, s, ino, val, first, last)
  <2>. HIDE DEF first, last
  <2>. QED  BY <1>2, LoopExists
<1>4. IsLoop(f, s, ino, val, first, last)
  BY <1>3
<1>5. WriteInodeData(s, ino, val) = Grow(f[last], hi + 1)
  BY <1>1 DEF WriteInodeData, IsLoop
<1>. QED  BY <1>4, <1>5

\* The blocks first..k hold what was to be written to them.
BlocksDone(w, val, first, k) ==
    \A q \in first..k :
        /\ q \in 0..(Limit - 1) /\ Pointers(w.s, w.ino)[q] # 0
        /\ \A c \in 0..(SLOTS - 1) : q * SLOTS + c \in DOMAIN val =>
              Unit(w.s, w.ino, q, c) = val[q * SLOTS + c]

LEMMA LoopStep ==
    ASSUME NEW s, NEW ino, Pair(s, ino), NEW val, \A p \in DOMAIN val : val[p] \in CellValues,
           NEW first \in Nat, NEW k \in Nat, first < k, NEW w \in Writes,
           Extends(s, ino, w.s, w.ino, val, k - 1), w.ok => BlocksDone(w, val, first, k - 1),
           NEW v, v = WriteBlock(w, k, val)
    PROVE  v \in Writes /\ Extends(s, ino, v.s, v.ino, val, k) /\ (v.ok => BlocksDone(v, val, first, k))
<1>0. k - 1 \in Nat /\ k - 1 <= k
  OBVIOUS
<1>1. Pair(w.s, w.ino)
  BY DEF Extends
<1>2. /\ v \in Writes /\ Extends(w.s, w.ino, v.s, v.ino, val, k)
      /\ v.ok => /\ w.ok /\ k \in 0..(Limit - 1) /\ Pointers(v.s, v.ino)[k] # 0
                 /\ \A c \in 0..(SLOTS - 1) : k * SLOTS + c \in DOMAIN val =>
                       Unit(v.s, v.ino, k, c) = val[k * SLOTS + c]
  BY <1>1, WriteBlockFacts
<1>3. Extends(s, ino, v.s, v.ino, val, k)
  BY <1>0, <1>2, ExtendsTrans
<1>4. ASSUME v.ok  PROVE BlocksDone(v, val, first, k)
  <2>. SUFFICES ASSUME NEW q \in first..k
                PROVE  /\ q \in 0..(Limit - 1) /\ Pointers(v.s, v.ino)[q] # 0
                       /\ \A c \in 0..(SLOTS - 1) : q * SLOTS + c \in DOMAIN val =>
                             Unit(v.s, v.ino, q, c) = val[q * SLOTS + c]
    BY DEF BlocksDone
  <2>1. CASE q = k
    BY <1>2, <1>4, <2>1
  <2>2. CASE q # k
    <3>1. q \in first..(k - 1)
      BY <2>2
    <3>2. /\ q \in 0..(Limit - 1) /\ Pointers(w.s, w.ino)[q] # 0
          /\ \A c \in 0..(SLOTS - 1) : q * SLOTS + c \in DOMAIN val =>
                Unit(w.s, w.ino, q, c) = val[q * SLOTS + c]
      BY <1>2, <1>4, <3>1 DEF BlocksDone
    <3>3. Pointers(v.s, v.ino)[q] # 0
      BY <1>2, <3>2, IndexCases DEF Extends
    <3>4. \A c \in 0..(SLOTS - 1) : q * SLOTS + c \in DOMAIN val =>
             Unit(v.s, v.ino, q, c) = val[q * SLOTS + c]
      <4>1. \A c \in 0..(SLOTS - 1) :
              \/ Unit(v.s, v.ino, q, c) = Unit(w.s, w.ino, q, c)
              \/ q * SLOTS + c \in DOMAIN val /\ Unit(v.s, v.ino, q, c) = val[q * SLOTS + c]
        BY <1>2, <3>2 DEF Extends
      <4>. QED  BY <3>2, <4>1
    <3>. QED  BY <3>2, <3>3, <3>4
  <2>. QED  BY <2>1, <2>2
<1>. QED  BY <1>2, <1>3, <1>4

LEMMA LoopInvariant ==
    ASSUME NEW s, NEW ino, Pair(s, ino), NEW val, \A p \in DOMAIN val : val[p] \in CellValues,
           NEW first \in Nat, NEW last \in Nat, first <= last,
           NEW f, IsLoop(f, s, ino, val, first, last)
    PROVE  /\ f[last] \in Writes /\ Extends(s, ino, f[last].s, f[last].ino, val, last)
           /\ f[last].ok => BlocksDone(f[last], val, first, last)
<1>. DEFINE Good(k) == /\ f[k] \in Writes /\ Extends(s, ino, f[k].s, f[k].ino, val, k)
                       /\ f[k].ok => BlocksDone(f[k], val, first, k)
            Bad == {k \in first..last : ~Good(k)}
<1>0. \A k \in first..last :
        f[k] = WriteBlock(IF k = first THEN Writing(s, ino) ELSE f[k - 1], k, val)
  BY DEF IsLoop
<1>1. SUFFICES ASSUME Bad # {}  PROVE FALSE
  OBVIOUS
<1>2. Bad \in SUBSET Nat
  OBVIOUS
<1>3. PICK k \in first..last : ~Good(k) /\ \A m \in Bad : k <= m
  <2>. HIDE DEF Bad
  <2>1. Min(Bad) \in Bad /\ \A m \in Bad : Min(Bad) <= m
    BY <1>1, <1>2, MinIn
  <2>. QED  BY <2>1 DEF Bad
<1>4. k \in Nat
  OBVIOUS
<1>5. CASE k = first
  <2>1. PICK w \in Writes : w = Writing(s, ino) /\ w.s = s /\ w.ino = ino /\ w.ok
    <3>. DEFINE w == Writing(s, ino)
    <3>1. w \in Writes /\ w.s = s /\ w.ino = ino /\ w.ok
      BY DEF Writing, Writes, Pair, PtrValues
    <3>. QED  BY <3>1
  <2>2. f[k] = WriteBlock(w, k, val)
    BY <1>0, <1>5, <2>1
  <2>3. /\ f[k] \in Writes /\ Extends(s, ino, f[k].s, f[k].ino, val, k)
        /\ f[k].ok => /\ k \in 0..(Limit - 1) /\ Pointers(f[k].s, f[k].ino)[k] # 0
                      /\ \A c \in 0..(SLOTS - 1) : k * SLOTS + c \in DOMAIN val =>
                           Unit(f[k].s, f[k].ino, k, c) = val[k * SLOTS + c]
    BY <1>4, <2>1, <2>2, WriteBlockFacts
  <2>4. \A q \in first..k : q = k
    BY <1>5
  <2>5. f[k].ok => BlocksDone(f[k], val, first, k)
    BY <2>3, <2>4 DEF BlocksDone
  <2>. QED  BY <1>3, <2>3, <2>5
<1>6. CASE k # first
  <2>1. k - 1 \in first..last /\ k - 1 \in Nat /\ first < k /\ ~(k <= k - 1)
    BY <1>6
  <2>2. Good(k - 1)
    BY <1>3, <2>1
  <2>3. PICK w \in Writes : /\ w = f[k - 1] /\ Extends(s, ino, w.s, w.ino, val, k - 1)
                            /\ w.ok => BlocksDone(w, val, first, k - 1)
    BY <2>2
  <2>4. f[k] = WriteBlock(w, k, val)
    BY <1>0, <1>6, <2>3
  <2>. HIDE DEF Good
  <2>5. f[k] \in Writes /\ Extends(s, ino, f[k].s, f[k].ino, val, k)
        /\ (f[k].ok => BlocksDone(f[k], val, first, k))
    BY <1>4, <2>1, <2>3, <2>4, LoopStep
  <2>. QED  BY <1>3, <2>5 DEF Good
<1>. QED  BY <1>5, <1>6

\* write_inode_data, as a whole: what it does before the inode grows, and that all of
\* it was written if it succeeds.
LEMMA WriteInodeDataFacts ==
    ASSUME NEW s, NEW ino, Pair(s, ino), NEW lo \in Nat, NEW hi \in Nat, lo <= hi,
           NEW val, DOMAIN val = lo..hi, \A p \in lo..hi : val[p] \in CellValues
    PROVE  \E u \in Writes :
             /\ WriteInodeData(s, ino, val) = Grow(u, hi + 1)
             /\ Extends(s, ino, u.s, u.ino, val, hi \div SLOTS)
             /\ u.ok => /\ hi + 1 <= Limit * SLOTS
                        /\ \A q \in 0..(Limit - 1), c \in 0..(SLOTS - 1) : q * SLOTS + c \in lo..hi =>
                              /\ Pointers(u.s, u.ino)[q] # 0
                              /\ Unit(u.s, u.ino, q, c) = val[q * SLOTS + c]
<1>. DEFINE first == lo \div SLOTS
            last  == hi \div SLOTS
<1>1. PICK f : IsLoop(f, s, ino, val, first, last) /\ WriteInodeData(s, ino, val) = Grow(f[last], hi + 1)
  BY WriteInodeDataLoop
<1>2. /\ first \in Nat /\ lo % SLOTS \in 0..(SLOTS - 1) /\ lo = first * SLOTS + (lo % SLOTS)
      /\ last \in Nat /\ hi % SLOTS \in 0..(SLOTS - 1) /\ hi = last * SLOTS + (hi % SLOTS)
  BY Constants, CellOfPlace
<1>3. \A S \in Nat \ {0}, a, b, c, d \in Nat : c < S /\ d < S /\ a * S + c <= b * S + d => a <= b
  BY SMTT(30)
<1>4. lo % SLOTS \in Nat /\ hi % SLOTS \in Nat /\ lo % SLOTS < SLOTS /\ hi % SLOTS < SLOTS
  BY <1>2, Constants
<1>. HIDE DEF first, last
<1>5. first <= last
  BY <1>2, <1>3, <1>4, Constants
<1>6. /\ f[last] \in Writes /\ Extends(s, ino, f[last].s, f[last].ino, val, last)
      /\ f[last].ok => BlocksDone(f[last], val, first, last)
  BY <1>1, <1>2, <1>5, LoopInvariant
<1>7. PICK u \in Writes : u = f[last]
  BY <1>6
<1>8. ASSUME u.ok  PROVE /\ hi + 1 <= Limit * SLOTS
                         /\ \A q \in 0..(Limit - 1), c \in 0..(SLOTS - 1) : q * SLOTS + c \in lo..hi =>
                               /\ Pointers(u.s, u.ino)[q] # 0
                               /\ Unit(u.s, u.ino, q, c) = val[q * SLOTS + c]
  <2>1. BlocksDone(u, val, first, last)
    BY <1>6, <1>7, <1>8
  <2>2. last \in first..last
    BY <1>2, <1>5
  <2>3. last \in 0..(Limit - 1)
    BY <2>1, <2>2 DEF BlocksDone
  <2>4. hi + 1 <= Limit * SLOTS
    <3>1. \A L, S, q, c \in Nat : q < L /\ c < S => q * S + c + 1 <= L * S
      BY SMTT(30)
    <3>2. last < Limit
      BY <1>2, <2>3, Constants
    <3>. QED  BY <1>2, <1>4, <3>1, <3>2, Constants
  <2>5. ASSUME NEW q \in 0..(Limit - 1), NEW c \in 0..(SLOTS - 1), q * SLOTS + c \in lo..hi
        PROVE  q \in first..last
    <3>1. q \in Nat /\ c \in Nat /\ c < SLOTS /\ SLOTS \in Nat \ {0}
      BY Constants
    <3>2. first * SLOTS + (lo % SLOTS) <= q * SLOTS + c /\ q * SLOTS + c <= last * SLOTS + (hi % SLOTS)
      BY <1>2, <2>5
    <3>3. first <= q /\ q <= last
      BY <1>2, <1>3, <1>4, <3>1, <3>2
    <3>. QED  BY <1>2, <3>1, <3>3
  <2>. QED  BY <2>1, <2>4, <2>5 DEF BlocksDone
<1>. QED  BY <1>1, <1>6, <1>7, <1>8 DEF last

\* A directory's append that fails has written nothing.
LEMMA OneBlockFails ==
    ASSUME NEW s, NEW ino, Pair(s, ino), NEW p \in Nat,
           NEW val, DOMAIN val = p..p, val[p] \in CellValues, ~WriteInodeData(s, ino, val).ok
    PROVE  \E u \in Writes : /\ WriteInodeData(s, ino, val) = u
                             /\ Extends(s, ino, u.s, u.ino, <<>>, p \div SLOTS)
<1>. DEFINE k == p \div SLOTS
<1>0. PICK hi \in Nat : hi = p
  OBVIOUS
<1>1. PICK f : IsLoop(f, s, ino, val, k, k) /\ WriteInodeData(s, ino, val) = Grow(f[k], p + 1)
  <2>1. p <= hi /\ DOMAIN val = p..hi
    BY <1>0
  <2>2. \E f : /\ IsLoop(f, s, ino, val, p \div SLOTS, hi \div SLOTS)
               /\ WriteInodeData(s, ino, val) = Grow(f[hi \div SLOTS], hi + 1)
    BY <2>1, WriteInodeDataLoop
  <2>. QED  BY <1>0, <2>2
<1>2. k \in Nat
  BY Constants, CellOfPlace
<1>. HIDE DEF k
<1>3. PICK w \in Writes : w = Writing(s, ino) /\ w.s = s /\ w.ino = ino /\ w.ok
  <2>. DEFINE w == Writing(s, ino)
  <2>1. w \in Writes /\ w.s = s /\ w.ino = ino /\ w.ok
    BY DEF Writing, Writes, Pair, PtrValues
  <2>. QED  BY <2>1
<1>4. f[k] = WriteBlock(w, k, val)
  BY <1>1, <1>2, <1>3 DEF IsLoop
<1>5. f[k] \in Writes
  <2>1. \A q \in DOMAIN val : val[q] \in CellValues
    OBVIOUS
  <2>. QED  BY <1>2, <1>3, <1>4, <2>1, WriteBlockFacts
<1>6. ~f[k].ok
  <2>1. Grow(f[k], p + 1) \in {f[k], [f[k] EXCEPT !.ino.size = p + 1]}
    BY DEF Grow
  <2>. QED  BY <1>1, <1>5, <2>1 DEF Writes
<1>7. WriteInodeData(s, ino, val) = f[k]
  BY <1>1, <1>6 DEF Grow
<1>8. PICK u \in Writes : /\ u = FindBlock(w, k) /\ Extends(s, ino, u.s, u.ino, <<>>, k)
                          /\ u.ok => k \in 0..(Limit - 1) /\ u.b = Pointers(u.s, u.ino)[k] /\ u.b # 0
  <2>. DEFINE u == FindBlock(w, k)
  <2>1. u \in Writes /\ (u.ok => k \in 0..(Limit - 1) /\ u.b = Pointers(u.s, u.ino)[k] /\ u.b # 0)
    BY <1>2, <1>3, FindBlockFacts
  <2>2. \A e : Extends(w.s, w.ino, u.s, u.ino, e, k)
    BY <1>2, <1>3, FindBlockFacts
  <2>. QED  BY <1>3, <2>1, <2>2
<1>9. f[k] = PutCells(u, k, val)
  BY <1>3, <1>4, <1>8 DEF WriteBlock
<1>10. ~u.ok
  <2>1. SUFFICES ASSUME u.ok  PROVE FALSE
    OBVIOUS
  <2>2. Pair(u.s, u.ino) /\ \A q \in DOMAIN val : val[q] \in CellValues
    BY <1>8 DEF Extends
  <2>3. PutCells(u, k, val).ok
    BY <1>8, <2>1, <2>2, PutCellsFacts
  <2>. QED  BY <1>6, <1>9, <2>3
<1>11. f[k] = u
  BY <1>9, <1>10 DEF PutCells
<1>. QED  BY <1>7, <1>8, <1>11 DEF k

\* After a write that failed the inode on disk is the old one; what it then has in its
\* indirect block is still its own.
LEMMA OldInode ==
    ASSUME NEW s, NEW ino, Pair(s, ino), NEW t, NEW jno, NEW val, NEW hi,
           Extends(s, ino, t, jno, val, hi)
    PROVE  /\ Pair(t, ino)
           /\ BlocksOf(t, ino) \subseteq BlocksOf(s, ino) \cup (s.fs.bitmap \ t.fs.bitmap)
           /\ \A k \in 0..Limit : Pointers(s, ino)[k] # 0 => Pointers(t, ino)[k] = Pointers(s, ino)[k]
           /\ \A q \in 0..(Limit - 1), c \in 0..(SLOTS - 1) :
                 \/ Unit(t, ino, q, c) = Unit(s, ino, q, c)
                 \/ q * SLOTS + c \in DOMAIN val /\ Unit(t, ino, q, c) = val[q * SLOTS + c]
<1>. DEFINE P == Pointers(s, ino)
            Q == Pointers(t, jno)
            R == Pointers(t, ino)
<1>1. \A k \in 0..Limit : P[k] # 0 => Q[k] = P[k]
  BY DEF Extends
<1>2. \A k \in 0..(DIRECT_PTRS - 1) : R[k] = P[k]
  BY PointersFacts
<1>3. R[Limit] = P[Limit] /\ P[Limit] = ino.indirect /\ Q[Limit] = jno.indirect /\ Limit \in 0..Limit
  BY PointersFacts, IndexCases
<1>4. \A k \in DIRECT_PTRS..(Limit - 1) : (ino.indirect = 0 => R[k] = 0 /\ P[k] = 0)
                                       /\ (ino.indirect # 0 => R[k] = Q[k])
  <2>1. ino.indirect # 0 => jno.indirect = ino.indirect
    BY <1>1, <1>3
  <2>. QED  BY <2>1, PointersFacts
<1>. HIDE DEF P, Q, R
<1>5. \A k \in 0..Limit : R[k] \in {0, Q[k]}
  BY <1>1, <1>2, <1>3, <1>4, IndexCases
<1>6. \A k \in 0..Limit : P[k] # 0 => R[k] = P[k]
  BY <1>1, <1>2, <1>3, <1>4, IndexCases
<1>7. Pair(t, jno) /\ t \in Stores /\ t.fs.free_blocks = Cardinality(t.fs.bitmap)
  BY DEF Extends, Pair
<1>8. GoodInode(t, ino)
  <2>1. /\ \A k \in 0..Limit : Q[k] \in PtrValues
        /\ \A k, m \in 0..Limit : Q[k] = Q[m] /\ Q[k] # 0 => k = m
    BY <1>7 DEF Pair, GoodInode, Q
  <2>2. \A k \in 0..Limit : R[k] \in PtrValues
    BY <1>5, <2>1 DEF PtrValues
  <2>3. \A k, m \in 0..Limit : R[k] = R[m] /\ R[k] # 0 => k = m
    BY <1>5, <2>1
  <2>. QED  BY <2>2, <2>3 DEF GoodInode, R
<1>9. BlocksOf(t, ino) \subseteq BlocksOf(t, jno)
  <2>1. BlocksOf(t, ino) = {R[k] : k \in 0..Limit} \ {0} /\ BlocksOf(t, jno) = {Q[k] : k \in 0..Limit} \ {0}
    BY PointersFacts DEF R, Q
  <2>. QED  BY <1>5, <2>1
<1>10. BlocksOf(t, jno) = BlocksOf(s, ino) \cup (s.fs.bitmap \ t.fs.bitmap)
  BY DEF Extends
<1>11. Pair(t, ino)
  BY <1>7, <1>8, <1>9 DEF Pair
<1>12. \A q \in 0..(Limit - 1), c \in 0..(SLOTS - 1) :
                 \/ Unit(t, ino, q, c) = Unit(s, ino, q, c)
                 \/ q * SLOTS + c \in DOMAIN val /\ Unit(t, ino, q, c) = val[q * SLOTS + c]
  <2>. SUFFICES ASSUME NEW q \in 0..(Limit - 1), NEW c \in 0..(SLOTS - 1)
                PROVE  \/ Unit(t, ino, q, c) = Unit(s, ino, q, c)
                       \/ q * SLOTS + c \in DOMAIN val /\ Unit(t, ino, q, c) = val[q * SLOTS + c]
    OBVIOUS
  <2>0. q \in 0..Limit
    BY IndexCases
  <2>1. CASE R[q] = 0
    <3>1. P[q] = 0
      BY <1>6, <2>0, <2>1
    <3>. QED  BY <2>1, <3>1 DEF Unit, P, R
  <2>2. CASE R[q] # 0
    <3>1. R[q] = Q[q]
      BY <1>5, <2>0, <2>2
    <3>2. Unit(t, ino, q, c) = Unit(t, jno, q, c)
      BY <3>1 DEF Unit, Q, R
    <3>. QED  BY <3>2 DEF Extends
  <2>. QED  BY <2>1, <2>2
<1>. QED  BY <1>6, <1>9, <1>10, <1>11, <1>12 DEF P, R

-----------------------------------------------------------------------------
(* The live inodes and their blocks *)

\* A file by its places instead of its blocks and cells.
FilePlaces == 0..(Limit * SLOTS - 1)
Slots(s, ino) == [p \in FilePlaces |-> Unit(s, ino, p \div SLOTS, p % SLOTS)]

LEMMA PlaceCells ==
    /\ FilePlaces \in SUBSET Nat
    /\ \A p \in FilePlaces : /\ p \div SLOTS \in 0..(Limit - 1) /\ p % SLOTS \in 0..(SLOTS - 1)
                             /\ p = (p \div SLOTS) * SLOTS + (p % SLOTS)
    /\ \A q \in 0..(Limit - 1), c \in 0..(SLOTS - 1) :
          /\ q * SLOTS + c \in FilePlaces
          /\ (q * SLOTS + c) \div SLOTS = q /\ (q * SLOTS + c) % SLOTS = c
<1>0. SLOTS \in Nat \ {0} /\ Limit \in Nat /\ Limit * SLOTS \in Nat
  BY Constants
<1>1. FilePlaces \in SUBSET Nat
  BY <1>0 DEF FilePlaces
<1>2. ASSUME NEW p \in FilePlaces
      PROVE  /\ p \div SLOTS \in 0..(Limit - 1) /\ p % SLOTS \in 0..(SLOTS - 1)
             /\ p = (p \div SLOTS) * SLOTS + (p % SLOTS)
  <2>1. p \in Nat /\ p < Limit * SLOTS
    BY <1>0 DEF FilePlaces
  <2>2. p \div SLOTS \in Nat /\ p % SLOTS \in 0..(SLOTS - 1) /\ p = (p \div SLOTS) * SLOTS + (p % SLOTS)
    BY <1>0, <2>1, CellOfPlace
  <2>3. \A q, c, S, L \in Nat : q * S + c < L * S => q < L
    BY SMTT(30)
  <2>4. p \div SLOTS < Limit
    <3>1. p % SLOTS \in Nat
      BY <1>0, <2>2
    <3>. QED  BY <1>0, <2>1, <2>2, <2>3, <3>1
  <2>. QED  BY <1>0, <2>2, <2>4
<1>3. ASSUME NEW q \in 0..(Limit - 1), NEW c \in 0..(SLOTS - 1)
      PROVE  /\ q * SLOTS + c \in FilePlaces
             /\ (q * SLOTS + c) \div SLOTS = q /\ (q * SLOTS + c) % SLOTS = c
  <2>1. (q * SLOTS + c) \div SLOTS = q /\ (q * SLOTS + c) % SLOTS = c /\ q * SLOTS + c \in Nat
    BY <1>0, PlaceOfCell
  <2>2. \A x, y, S, L \in Nat : x < L /\ y < S => x * S + y < L * S
    BY SMTT(30)
  <2>3. q * SLOTS + c < Limit * SLOTS
    BY <1>0, <2>2
  <2>. QED  BY <1>0, <2>1, <2>3 DEF FilePlaces
<1>. QED  BY <1>1, <1>2, <1>3

LEMMA SlotsFacts ==
    ASSUME NEW s, NEW ino
    PROVE  /\ DOMAIN Slots(s, ino) = FilePlaces
           /\ \A p \in FilePlaces : Slots(s, ino)[p] = Unit(s, ino, p \div SLOTS, p % SLOTS)
           /\ \A q \in 0..(Limit - 1), c \in 0..(SLOTS - 1) :
                 Slots(s, ino)[q * SLOTS + c] = Unit(s, ino, q, c)
<1>1. \A p \in FilePlaces : Slots(s, ino)[p] = Unit(s, ino, p \div SLOTS, p % SLOTS)
  BY DEF Slots
<1>2. \A q \in 0..(Limit - 1), c \in 0..(SLOTS - 1) : Slots(s, ino)[q * SLOTS + c] = Unit(s, ino, q, c)
  BY <1>1, PlaceCells
<1>. QED  BY <1>1, <1>2 DEF Slots

\* An inode keeps its pointers and what its file holds when its blocks are left alone.
LEMMA Untouched ==
    ASSUME NEW s, NEW t, NEW ino, \A b \in BlocksOf(s, ino) : t.blocks[b] = s.blocks[b]
    PROVE  /\ Pointers(t, ino) = Pointers(s, ino) /\ BlocksOf(t, ino) = BlocksOf(s, ino)
           /\ Slots(t, ino) = Slots(s, ino)
<1>1. \A k \in 0..Limit : Pointers(s, ino)[k] # 0 => Pointers(s, ino)[k] \in BlocksOf(s, ino)
  BY PointersFacts
<1>2. ino.indirect # 0 => s.blocks[ino.indirect] = t.blocks[ino.indirect]
  BY <1>1, PointersFacts, IndexCases
<1>3. Pointers(t, ino) = Pointers(s, ino)
  BY <1>2, SamePointers
<1>4. BlocksOf(t, ino) = BlocksOf(s, ino)
  BY <1>3 DEF BlocksOf
<1>5. \A q \in 0..(Limit - 1), c \in 0..(SLOTS - 1) : Unit(t, ino, q, c) = Unit(s, ino, q, c)
  BY <1>1, <1>3, IndexCases DEF Unit
<1>6. Slots(t, ino) = Slots(s, ino)
  BY <1>5, PlaceCells DEF Slots
<1>. QED  BY <1>3, <1>4, <1>6

\* A directory's size runs in steps of two, it has all of its blocks, and nothing is
\* stored beyond its size.
DirShape(s, ino) ==
    /\ ino.size >= 2 /\ ino.size % 2 = 0
    /\ \A k \in 0..(Limit - 1) : k <= LastBlock(ino.size) => Pointers(s, ino)[k] # 0
    /\ \A p \in FilePlaces : p >= ino.size => Slots(s, ino)[p] = Zero

InodeOK(s, i) ==
    /\ GoodInode(s, s.inodes[i]) /\ BlocksOf(s, s.inodes[i]) \cap s.fs.bitmap = {}
    /\ i \in s.fs.inode_bitmap /\ s.inodes[i].type \in {"file", "dir"}
    /\ s.inodes[i].indirect # 0 => s.inodes[i].size > DIRECT_PTRS * SLOTS
    /\ s.inodes[i].type = "dir" => DirShape(s, s.inodes[i])

\* The blocks of the inodes in X are in use once, and the free ones are counted.
Sound(s, X) ==
    /\ s \in Stores /\ X \in SUBSET Inodes
    /\ s.fs.free_blocks = Cardinality(s.fs.bitmap)
    /\ \A i \in X : InodeOK(s, i)
    /\ \A i, j \in X : i # j => BlocksOf(s, s.inodes[i]) \cap BlocksOf(s, s.inodes[j]) = {}

\* A step from s to t that works on inode i: it has that inode's blocks and the free
\* ones to itself.
Mine(s, X, i) == s.fs.bitmap \cup (IF i \in X THEN BlocksOf(s, s.inodes[i]) ELSE {})
Local(s, t, X, i) ==
    /\ t \in Stores /\ t.fs.free_blocks = Cardinality(t.fs.bitmap)
    /\ \A j \in X \ {i} : t.inodes[j] = s.inodes[j] /\ j \in t.fs.inode_bitmap
    /\ \A b \in Blocks : b \notin Mine(s, X, i) => t.blocks[b] = s.blocks[b]
    /\ t.fs.bitmap \subseteq Mine(s, X, i)

\* Inode j and its file are the same in both.
SameInode(s, t, j) ==
    /\ t.inodes[j] = s.inodes[j] /\ Pointers(t, t.inodes[j]) = Pointers(s, s.inodes[j])
    /\ BlocksOf(t, t.inodes[j]) = BlocksOf(s, s.inodes[j])
    /\ Slots(t, t.inodes[j]) = Slots(s, s.inodes[j])

LEMMA LocalOthers ==
    ASSUME NEW s, NEW X, Sound(s, X), NEW t, NEW i, Local(s, t, X, i)
    PROVE  /\ \A j \in X \ {i} : SameInode(s, t, j)
           /\ \A j \in X \ {i} : BlocksOf(s, s.inodes[j]) \cap Mine(s, X, i) = {}
           /\ Sound(t, X \ {i})
<1>1. ASSUME NEW j \in X \ {i}
      PROVE  /\ t.inodes[j] = s.inodes[j]
             /\ Pointers(t, t.inodes[j]) = Pointers(s, s.inodes[j])
             /\ BlocksOf(t, t.inodes[j]) = BlocksOf(s, s.inodes[j])
             /\ Slots(t, t.inodes[j]) = Slots(s, s.inodes[j])
             /\ BlocksOf(s, s.inodes[j]) \cap Mine(s, X, i) = {}
             /\ InodeOK(t, j)
  <2>1. t.inodes[j] = s.inodes[j] /\ j \in t.fs.inode_bitmap
    BY DEF Local
  <2>2. PICK ino : ino = s.inodes[j]
    OBVIOUS
  <2>3. InodeOK(s, j)
    BY DEF Sound
  <2>4. BlocksOf(s, ino) \cap Mine(s, X, i) = {}
    <3>1. BlocksOf(s, ino) \cap s.fs.bitmap = {}
      BY <2>2, <2>3 DEF InodeOK
    <3>2. i \in X => BlocksOf(s, ino) \cap BlocksOf(s, s.inodes[i]) = {}
      BY <2>2 DEF Sound
    <3>. QED  BY <3>1, <3>2 DEF Mine
  <2>5. BlocksOf(s, ino) \subseteq Blocks
    <3>1. \A k \in 0..Limit : Pointers(s, ino)[k] \in PtrValues
      BY <2>2, <2>3 DEF InodeOK, GoodInode
    <3>. QED  BY <3>1, PointersFacts DEF PtrValues
  <2>6. \A b \in BlocksOf(s, ino) : t.blocks[b] = s.blocks[b]
    BY <2>4, <2>5 DEF Local
  <2>7. /\ Pointers(t, ino) = Pointers(s, ino) /\ BlocksOf(t, ino) = BlocksOf(s, ino)
        /\ Slots(t, ino) = Slots(s, ino)
    BY <2>6, Untouched
  <2>8. GoodInode(t, ino)
    BY <2>2, <2>3, <2>7 DEF InodeOK, GoodInode
  <2>9. BlocksOf(t, ino) \cap t.fs.bitmap = {}
    BY <2>4, <2>7 DEF Local
  <2>10. ino.type = "dir" => DirShape(t, ino)
    BY <2>2, <2>3, <2>7 DEF InodeOK, DirShape
  <2>11. InodeOK(t, j)
    BY <2>1, <2>2, <2>3, <2>8, <2>9, <2>10 DEF InodeOK
  <2>. QED  BY <2>1, <2>2, <2>4, <2>7, <2>11
<1>2. Sound(t, X \ {i})
  <2>1. t \in Stores /\ t.fs.free_blocks = Cardinality(t.fs.bitmap) /\ X \ {i} \in SUBSET Inodes
    BY DEF Local, Sound
  <2>2. \A j, m \in X \ {i} : j # m => BlocksOf(t, t.inodes[j]) \cap BlocksOf(t, t.inodes[m]) = {}
    BY <1>1 DEF Sound
  <2>. QED  BY <1>1, <2>1, <2>2 DEF Sound
<1>. QED  BY <1>1, <1>2 DEF SameInode

LEMMA LocalOne ==
    ASSUME NEW s, NEW X, Sound(s, X), NEW t, NEW i \in Inodes, Local(s, t, X, i),
           InodeOK(t, i), BlocksOf(t, t.inodes[i]) \subseteq Mine(s, X, i)
    PROVE  Sound(t, X \cup {i})
<1>0. \A j \in X \ {i} : SameInode(s, t, j) /\ BlocksOf(s, s.inodes[j]) \cap Mine(s, X, i) = {}
  BY LocalOthers
<1>1. Sound(t, X \ {i})
  BY LocalOthers
<1>2. \A j \in X \ {i} : BlocksOf(t, t.inodes[j]) \cap BlocksOf(t, t.inodes[i]) = {}
  BY <1>0 DEF SameInode
<1>3. X \cup {i} \in SUBSET Inodes
  BY DEF Sound
<1>4. \A j, m \in X \cup {i} : j # m => BlocksOf(t, t.inodes[j]) \cap BlocksOf(t, t.inodes[m]) = {}
  BY <1>1, <1>2 DEF Sound
<1>. QED  BY <1>1, <1>3, <1>4 DEF Sound

\* No block is lost: each is free or has an inode, and none lies beyond its inode's size.
Tight(s, ino) ==
    \A k \in 0..(Limit - 1) : Pointers(s, ino)[k] # 0 => k <= LastBlock(ino.size)
NoneLost(s, X) ==
    /\ \A i \in X : Tight(s, s.inodes[i])
    /\ \A b \in Blocks : b \in s.fs.bitmap \/ \E i \in X : b \in BlocksOf(s, s.inodes[i])

LEMMA LocalNoneLost ==
    ASSUME NEW s, NEW X, Sound(s, X), NEW t, NEW i \in Inodes, Local(s, t, X, i), NoneLost(s, X)
    PROVE  /\ Mine(s, X, i) \subseteq t.fs.bitmap => NoneLost(t, X \ {i})
           /\ /\ Tight(t, t.inodes[i])
              /\ Mine(s, X, i) \subseteq t.fs.bitmap \cup BlocksOf(t, t.inodes[i])
              => NoneLost(t, X \cup {i})
<1>0. \A j \in X \ {i} : SameInode(s, t, j)
  BY LocalOthers
<1>1. \A j \in X \ {i} : BlocksOf(t, t.inodes[j]) = BlocksOf(s, s.inodes[j])
  BY <1>0 DEF SameInode
<1>2. \A j \in X \ {i} : Tight(t, t.inodes[j])
  <2>1. \A j \in X \ {i} : Pointers(t, t.inodes[j]) = Pointers(s, s.inodes[j]) /\ t.inodes[j] = s.inodes[j]
    BY <1>0 DEF SameInode
  <2>. QED  BY <2>1 DEF NoneLost, Tight
<1>3. \A b \in Blocks : b \in Mine(s, X, i) \/ \E j \in X \ {i} : b \in BlocksOf(t, t.inodes[j])
  <2>1. \A b \in Blocks : b \in s.fs.bitmap \/ \E j \in X : b \in BlocksOf(s, s.inodes[j])
    BY DEF NoneLost
  <2>. QED  BY <1>1, <2>1 DEF Mine
<1>4. ASSUME Mine(s, X, i) \subseteq t.fs.bitmap  PROVE NoneLost(t, X \ {i})
  BY <1>2, <1>3, <1>4 DEF NoneLost
<1>5. ASSUME Tight(t, t.inodes[i]), Mine(s, X, i) \subseteq t.fs.bitmap \cup BlocksOf(t, t.inodes[i])
      PROVE  NoneLost(t, X \cup {i})
  <2>1. \A b \in Blocks : b \in t.fs.bitmap \/ \E j \in X \cup {i} : b \in BlocksOf(t, t.inodes[j])
    BY <1>3, <1>5
  <2>. QED  BY <1>2, <1>5, <2>1 DEF NoneLost
<1>. QED  BY <1>4, <1>5

-----------------------------------------------------------------------------
(* Writes, as a whole *)

\* From inode ino in s to jno in t a write has kept the pointers and left the blocks of
\* others alone; every place holds what it held or what was to be written there.
Carries(s, ino, t, jno, val) ==
    /\ Pair(t, jno) /\ jno.type = ino.type
    /\ t.fs.inode_bitmap = s.fs.inode_bitmap /\ t.fs.bitmap \subseteq s.fs.bitmap
    /\ BlocksOf(t, jno) \subseteq BlocksOf(s, ino) \cup s.fs.bitmap
    /\ \A k \in 0..Limit :
          Pointers(s, ino)[k] # 0 => Pointers(t, jno)[k] = Pointers(s, ino)[k]
    /\ \A b \in Blocks : b \notin BlocksOf(s, ino) /\ b \notin s.fs.bitmap =>
          t.blocks[b] = s.blocks[b]
    /\ \A p \in FilePlaces :
          \/ Slots(t, jno)[p] = Slots(s, ino)[p]
          \/ p \in DOMAIN val /\ Slots(t, jno)[p] = val[p]

\* Nothing taken is lost, and new blocks have index hi at most.
Completes(s, ino, t, jno, hi) ==
    /\ s.fs.bitmap \cup BlocksOf(s, ino) \subseteq t.fs.bitmap \cup BlocksOf(t, jno)
    /\ \A q \in 0..(Limit - 1) : Pointers(s, ino)[q] = 0 /\ Pointers(t, jno)[q] # 0 => q <= hi
    /\ Pointers(s, ino)[Limit] = 0 /\ Pointers(t, jno)[Limit] # 0 => hi >= DIRECT_PTRS

LEMMA UnitsToSlots ==
    ASSUME NEW s, NEW ino, NEW t, NEW jno, NEW val,
           \A q \in 0..(Limit - 1), c \in 0..(SLOTS - 1) :
              \/ Unit(t, jno, q, c) = Unit(s, ino, q, c)
              \/ q * SLOTS + c \in DOMAIN val /\ Unit(t, jno, q, c) = val[q * SLOTS + c]
    PROVE  \A p \in FilePlaces :
              \/ Slots(t, jno)[p] = Slots(s, ino)[p]
              \/ p \in DOMAIN val /\ Slots(t, jno)[p] = val[p]
<1>1. SUFFICES ASSUME NEW p \in FilePlaces
               PROVE  \/ Slots(t, jno)[p] = Slots(s, ino)[p]
                      \/ p \in DOMAIN val /\ Slots(t, jno)[p] = val[p]
  OBVIOUS
<1>2. PICK q \in 0..(Limit - 1), c \in 0..(SLOTS - 1) : p = q * SLOTS + c
  BY PlaceCells
<1>3. Slots(t, jno)[p] = Unit(t, jno, q, c) /\ Slots(s, ino)[p] = Unit(s, ino, q, c)
  BY <1>2, SlotsFacts
<1>. QED  BY <1>2, <1>3

\* A write that has failed, and the inode on disk is the old one.
LEMMA FailedWrite ==
    ASSUME NEW s, NEW ino, Pair(s, ino), NEW t, NEW jno, NEW val, NEW hi,
           Extends(s, ino, t, jno, val, hi)
    PROVE  Carries(s, ino, t, ino, val) /\ t.inodes = s.inodes
<1>1. Pair(t, ino) /\ BlocksOf(t, ino) \subseteq BlocksOf(s, ino) \cup s.fs.bitmap
  BY OldInode
<1>2. \A k \in 0..Limit : Pointers(s, ino)[k] # 0 => Pointers(t, ino)[k] = Pointers(s, ino)[k]
  BY OldInode
<1>3. \A q \in 0..(Limit - 1), c \in 0..(SLOTS - 1) :
         \/ Unit(t, ino, q, c) = Unit(s, ino, q, c)
         \/ q * SLOTS + c \in DOMAIN val /\ Unit(t, ino, q, c) = val[q * SLOTS + c]
  BY OldInode
<1>4. \A p \in FilePlaces :
         \/ Slots(t, ino)[p] = Slots(s, ino)[p]
         \/ p \in DOMAIN val /\ Slots(t, ino)[p] = val[p]
  BY <1>3, UnitsToSlots
<1>. QED  BY <1>1, <1>2, <1>4 DEF Extends, Carries

\* A write that has succeeded: the inode goes to disk with its new size.
LEMMA FinishedWrite ==
    ASSUME NEW s, NEW ino, Pair(s, ino), NEW u, NEW uno, NEW val, NEW hi,
           Extends(s, ino, u, uno, val, hi), NEW i \in Inodes, NEW jno \in InodeRecs,
           jno.direct = uno.direct, jno.indirect = uno.indirect, jno.type = uno.type
    PROVE  /\ Carries(s, ino, WithInode(u, i, jno), jno, val)
           /\ Completes(s, ino, WithInode(u, i, jno), jno, hi)
           /\ Pointers(WithInode(u, i, jno), jno) = Pointers(u, uno)
           /\ Slots(WithInode(u, i, jno), jno) = Slots(u, uno)
           /\ WithInode(u, i, jno).inodes = [s.inodes EXCEPT ![i] = jno]
<1>1. u \in Stores /\ Pair(u, uno)
  BY DEF Extends, Pair
<1>2. PICK t \in Stores : /\ t = WithInode(u, i, jno) /\ t.inodes = [u.inodes EXCEPT ![i] = jno]
                          /\ t.blocks = u.blocks /\ t.fs = u.fs
  BY <1>1, SetInodeFacts
<1>3. Pointers(t, jno) = Pointers(u, uno)
  BY <1>2, SamePointers
<1>4. BlocksOf(t, jno) = BlocksOf(u, uno)
  BY <1>3 DEF BlocksOf
<1>5. \A q, c : Unit(t, jno, q, c) = Unit(u, uno, q, c)
  BY <1>2, <1>3 DEF Unit
<1>6. Slots(t, jno) = Slots(u, uno)
  BY <1>5 DEF Slots
<1>7. Pair(t, jno)
  BY <1>1, <1>2, <1>3, <1>4 DEF Pair, GoodInode
<1>8. \A p \in FilePlaces :
         \/ Slots(u, uno)[p] = Slots(s, ino)[p]
         \/ p \in DOMAIN val /\ Slots(u, uno)[p] = val[p]
  BY UnitsToSlots DEF Extends
<1>9. Carries(s, ino, t, jno, val)
  BY <1>2, <1>3, <1>4, <1>6, <1>7, <1>8 DEF Carries, Extends
<1>10. Completes(s, ino, t, jno, hi)
  BY <1>2, <1>3, <1>4 DEF Completes, Extends
<1>. QED  BY <1>2, <1>3, <1>6, <1>9, <1>10 DEF Extends

\* A write of val, on places lo..hi, to inode i that starts from ino in memory.
WriteOutcome(s, ino, i, r, val, lo, hi) ==
    /\ r.ok \in BOOLEAN /\ r.full = ~r.ok
    /\ ~r.ok => Carries(s, ino, r.s, ino, val) /\ r.s.inodes = s.inodes
    /\ r.ok => /\ Carries(s, ino, r.s, r.s.inodes[i], val)
               /\ Completes(s, ino, r.s, r.s.inodes[i], hi \div SLOTS)
               /\ r.s.inodes[i] \in InodeRecs
               /\ r.s.inodes = [s.inodes EXCEPT ![i] = r.s.inodes[i]]
               /\ hi + 1 <= Limit * SLOTS
               /\ r.s.inodes[i].size = IF hi + 1 > ino.size THEN hi + 1 ELSE ino.size
               /\ \A p \in lo..hi : Slots(r.s, r.s.inodes[i])[p] = val[p]

LEMMA PutInodeFacts ==
    ASSUME NEW w \in Writes, NEW i \in Inodes
    PROVE  /\ w.ok => /\ PutInode(w, i).s = WithInode(w.s, i, w.ino)
                      /\ PutInode(w, i).ok = TRUE /\ PutInode(w, i).full = FALSE
           /\ ~w.ok => /\ PutInode(w, i).s = w.s
                       /\ PutInode(w, i).ok = FALSE /\ PutInode(w, i).full = TRUE
<1>1. w.ok => PutInode(w, i) = Done(WithInode(w.s, i, w.ino))
  BY DEF PutInode, WithInode
<1>2. ~w.ok => PutInode(w, i) = Full(w.s)
  BY DEF PutInode
<1>. QED  BY <1>1, <1>2 DEF Done, Full

LEMMA WriteOutcomeFacts ==
    ASSUME NEW s, NEW ino, Pair(s, ino), NEW i \in Inodes, NEW lo \in Nat, NEW hi \in Nat, lo <= hi,
           NEW val, DOMAIN val = lo..hi, \A p \in lo..hi : val[p] \in CellValues
    PROVE  WriteOutcome(s, ino, i, PutInode(WriteInodeData(s, ino, val), i), val, lo, hi)
<1>1. PICK u \in Writes :
             /\ WriteInodeData(s, ino, val) = Grow(u, hi + 1)
             /\ Extends(s, ino, u.s, u.ino, val, hi \div SLOTS)
             /\ u.ok => /\ hi + 1 <= Limit * SLOTS
                        /\ \A q \in 0..(Limit - 1), c \in 0..(SLOTS - 1) : q * SLOTS + c \in lo..hi =>
                              /\ Pointers(u.s, u.ino)[q] # 0
                              /\ Unit(u.s, u.ino, q, c) = val[q * SLOTS + c]
  BY WriteInodeDataFacts
<1>2. PICK r : r = PutInode(WriteInodeData(s, ino, val), i)
  OBVIOUS
<1>3. u.s \in Stores /\ u.ino \in InodeRecs /\ u.ok \in BOOLEAN
  BY WriteFields
<1>4. CASE ~u.ok
  <2>1. Grow(u, hi + 1) = u
    BY <1>4 DEF Grow
  <2>2. r.s = u.s /\ r.ok = FALSE /\ r.full = TRUE
    <3>1. r = PutInode(u, i)
      BY <1>1, <1>2, <2>1
    <3>. QED  BY <1>4, <3>1, PutInodeFacts
  <2>3. Carries(s, ino, u.s, ino, val) /\ u.s.inodes = s.inodes
    BY <1>1, FailedWrite
  <2>. QED  BY <1>2, <2>2, <2>3 DEF WriteOutcome
<1>5. CASE u.ok
  <2>. DEFINE size == IF hi + 1 > u.ino.size THEN hi + 1 ELSE u.ino.size
  <2>1. PICK jno \in InodeRecs : /\ jno.direct = u.ino.direct /\ jno.indirect = u.ino.indirect
                                 /\ jno.type = u.ino.type /\ jno.size = size
                                 /\ jno = [u.ino EXCEPT !.size = size]
    <3>. DEFINE new == [u.ino EXCEPT !.size = size]
    <3>1. size \in 0..(Limit * SLOTS)
      BY <1>1, <1>3, <1>5, Constants DEF InodeRecs
    <3>. HIDE DEF size
    <3>2. /\ new \in InodeRecs /\ new.direct = u.ino.direct /\ new.indirect = u.ino.indirect
          /\ new.type = u.ino.type /\ new.size = size
      BY <1>3, <3>1 DEF InodeRecs
    <3>. QED  BY <3>2
  <2>2. PICK w \in Writes : w = Grow(u, hi + 1) /\ w.ok /\ w.s = u.s /\ w.ino = jno
    <3>. DEFINE w == Grow(u, hi + 1)
    <3>1. CASE hi + 1 > u.ino.size
      <4>1. w = [u EXCEPT !.ino = jno]
        BY <1>5, <2>1, <3>1 DEF Grow, Writes
      <4>. QED  BY <1>3, <1>5, <2>1, <4>1 DEF Writes
    <3>2. CASE ~(hi + 1 > u.ino.size)
      <4>1. w = u
        BY <3>2 DEF Grow
      <4>2. jno = u.ino
        BY <1>3, <2>1, <3>2 DEF InodeRecs
      <4>. QED  BY <1>3, <1>5, <2>1, <4>1, <4>2
    <3>. QED  BY <3>1, <3>2
  <2>3. r.s = WithInode(u.s, i, jno) /\ r.ok = TRUE /\ r.full = FALSE
    <3>1. r = PutInode(w, i)
      BY <1>1, <1>2, <2>2
    <3>. QED  BY <2>2, <3>1, PutInodeFacts
  <2>4. /\ Carries(s, ino, r.s, jno, val)
        /\ Completes(s, ino, r.s, jno, hi \div SLOTS)
        /\ Pointers(r.s, jno) = Pointers(u.s, u.ino)
        /\ Slots(r.s, jno) = Slots(u.s, u.ino)
        /\ r.s.inodes = [s.inodes EXCEPT ![i] = jno]
    <3>1. PICK v \in Stores, vno \in InodeRecs : v = u.s /\ vno = u.ino
      BY <1>3
    <3>2. /\ Extends(s, ino, v, vno, val, hi \div SLOTS)
          /\ jno.direct = vno.direct /\ jno.indirect = vno.indirect /\ jno.type = vno.type
      BY <1>1, <2>1, <3>1
    <3>3. /\ Carries(s, ino, WithInode(v, i, jno), jno, val)
          /\ Completes(s, ino, WithInode(v, i, jno), jno, hi \div SLOTS)
          /\ Pointers(WithInode(v, i, jno), jno) = Pointers(v, vno)
          /\ Slots(WithInode(v, i, jno), jno) = Slots(v, vno)
          /\ WithInode(v, i, jno).inodes = [s.inodes EXCEPT ![i] = jno]
      BY <3>2, FinishedWrite
    <3>. QED  BY <2>3, <3>1, <3>3
  <2>5. r.s.inodes[i] = jno
    BY <2>4, StoreFields DEF Pair
  <2>6. u.ino.size = ino.size
    BY <1>1 DEF Extends
  <2>7. \A p \in lo..hi : Slots(r.s, jno)[p] = val[p]
    <3>1. SUFFICES ASSUME NEW p \in lo..hi  PROVE Slots(u.s, u.ino)[p] = val[p]
      BY <2>4
    <3>2. p \in FilePlaces
      BY <1>1, <1>5, Constants DEF FilePlaces
    <3>3. PICK q \in 0..(Limit - 1), c \in 0..(SLOTS - 1) : p = q * SLOTS + c
      BY <3>2, PlaceCells
    <3>4. Slots(u.s, u.ino)[p] = Unit(u.s, u.ino, q, c)
      BY <3>3, SlotsFacts
    <3>. QED  BY <1>1, <1>5, <3>3, <3>4
  <2>. QED  BY <1>1, <1>2, <1>5, <2>1, <2>3, <2>4, <2>5, <2>6, <2>7, ZenonT(60) DEF WriteOutcome
<1>. QED  BY <1>3, <1>4, <1>5

-----------------------------------------------------------------------------
(* Truncation *)

\* Freeing the pointers P[k], k in K, of one inode.
LEMMA FreeAt ==
    ASSUME NEW s \in Stores, s.fs.free_blocks = Cardinality(s.fs.bitmap),
           NEW P, \A k \in 0..Limit : P[k] \in PtrValues,
           \A k, m \in 0..Limit : P[k] = P[m] /\ P[k] # 0 => k = m,
           NEW K \in SUBSET (0..Limit), \A k \in K : P[k] \notin s.fs.bitmap,
           NEW t, t = FreeBlocks(s, Restrict(P, K))
    PROVE  /\ t \in Stores /\ t.inodes = s.inodes /\ t.blocks = s.blocks
           /\ t.fs.inode_bitmap = s.fs.inode_bitmap
           /\ t.fs.free_blocks = Cardinality(t.fs.bitmap)
           /\ t.fs.bitmap = s.fs.bitmap \cup ({P[k] : k \in K} \ {0})
<1>1. IsFiniteSet(K)
  <2>1. 0 \in Int /\ Limit \in Int
    BY Constants
  <2>2. IsFiniteSet(0..Limit)
    BY <2>1, FS_Interval
  <2>. QED  BY <2>2, FS_Subset
<1>2. PICK ptrs : ptrs = Restrict(P, K)
  OBVIOUS
<1>3. ptrs \in [K -> PtrValues] /\ \A k \in K : ptrs[k] = P[k]
  BY <1>2 DEF Restrict
<1>4. \A k, m \in K : ptrs[k] = ptrs[m] /\ ptrs[k] # 0 => k = m
  BY <1>3
<1>5. \A k \in K : ptrs[k] \notin s.fs.bitmap
  BY <1>3
<1>6. t = FreeBlocks(s, ptrs)
  BY <1>2
<1>7. {ptrs[k] : k \in K} = {P[k] : k \in K}
  BY <1>3
<1>8. /\ t \in Stores /\ t.inodes = s.inodes /\ t.blocks = s.blocks
      /\ t.fs.inode_bitmap = s.fs.inode_bitmap
      /\ t.fs.free_blocks = Cardinality(t.fs.bitmap)
      /\ t.fs.bitmap = s.fs.bitmap \cup ({ptrs[k] : k \in K} \ {0})
  <2>1. /\ FreeBlocks(s, ptrs) \in Stores
        /\ FreeBlocks(s, ptrs).inodes = s.inodes /\ FreeBlocks(s, ptrs).blocks = s.blocks
        /\ FreeBlocks(s, ptrs).fs.bitmap = s.fs.bitmap \cup ({ptrs[k] : k \in K} \ {0})
        /\ FreeBlocks(s, ptrs).fs.inode_bitmap = s.fs.inode_bitmap
        /\ FreeBlocks(s, ptrs).fs.free_blocks = Cardinality(FreeBlocks(s, ptrs).fs.bitmap)
    BY <1>1, <1>3, <1>4, <1>5, FreeBlocksFacts, ZenonT(60)
  <2>. QED  BY <1>6, <2>1
<1>. QED  BY <1>7, <1>8

\* From s with ino to t with jno the blocks of index in G have been freed; the direct
\* ones among them, and the indirect block, are no longer the inode's.
Freed(s, ino, t, jno, G) ==
    /\ t \in Stores /\ t.inodes = s.inodes /\ t.blocks = s.blocks
    /\ t.fs.inode_bitmap = s.fs.inode_bitmap
    /\ t.fs.free_blocks = Cardinality(t.fs.bitmap)
    /\ t.fs.bitmap = s.fs.bitmap \cup ({Pointers(s, ino)[k] : k \in G} \ {0})
    /\ jno \in InodeRecs /\ jno.type = ino.type
    /\ \A k \in 0..(DIRECT_PTRS - 1) : jno.direct[k] = IF k \in G THEN 0 ELSE ino.direct[k]
    /\ jno.indirect = IF Limit \in G THEN 0 ELSE ino.indirect

LEMMA CutRangeFacts ==
    ASSUME NEW ino \in InodeRecs, NEW size \in Nat, NEW lo \in Nat, NEW hi \in 0..Limit
    PROVE  /\ CutRange(ino, size, lo, hi) \in SUBSET (0..Limit)
           /\ \A k \in CutRange(ino, size, lo, hi) : lo <= k /\ k <= hi /\ LastBlock(size) < k
           /\ \A k \in lo..hi : LastBlock(size) < k /\ k <= LastBlock(ino.size) =>
                 k \in CutRange(ino, size, lo, hi)
  BY Constants DEF CutRange

LEMMA CutDirectFacts ==
    ASSUME NEW s, NEW ino, Pair(s, ino), NEW size \in Nat
    PROVE  \E w \in Writes :
             /\ w = CutDirect(Writing(s, ino), size) /\ w.ok /\ w.ino.size = ino.size
             /\ Freed(s, ino, w.s, w.ino, CutRange(ino, size, 0, DIRECT_PTRS - 1))
<1>. DEFINE G  == CutRange(ino, size, 0, DIRECT_PTRS - 1)
            P  == Pointers(s, ino)
            D  == [k \in 0..(DIRECT_PTRS - 1) |-> IF k \in G THEN 0 ELSE ino.direct[k]]
<1>1. s \in Stores /\ ino \in InodeRecs /\ s.fs.free_blocks = Cardinality(s.fs.bitmap)
      /\ ino.direct \in [0..(DIRECT_PTRS - 1) -> PtrValues]
  BY DEF Pair, InodeRecs
<1>2. G \in SUBSET (0..Limit) /\ G \in SUBSET (0..(DIRECT_PTRS - 1))
  <2>1. DIRECT_PTRS - 1 \in 0..Limit /\ 0 \in Nat
    BY Constants
  <2>2. G \in SUBSET (0..Limit)
    BY <1>1, <2>1, CutRangeFacts
  <2>. QED  BY <2>2 DEF CutRange
<1>3. /\ \A k \in 0..Limit : P[k] \in PtrValues
      /\ \A k, m \in 0..Limit : P[k] = P[m] /\ P[k] # 0 => k = m
      /\ \A k \in 0..Limit : P[k] \notin s.fs.bitmap
  <2>1. BlocksOf(s, ino) = {P[k] : k \in 0..Limit} \ {0} /\ BlocksOf(s, ino) \cap s.fs.bitmap = {}
    BY PointersFacts DEF Pair
  <2>2. 0 \notin s.fs.bitmap
    BY <1>1, StoreFields, Constants
  <2>3. \A k \in 0..Limit : P[k] \notin s.fs.bitmap
    <3>. HIDE DEF P
    <3>. QED  BY <2>1, <2>2
  <2>. QED  BY <2>3 DEF Pair, GoodInode
<1>4. Restrict(ino.direct, G) = Restrict(P, G)
  <2>1. \A k \in G : P[k] = ino.direct[k]
    BY <1>2, PointersFacts
  <2>. QED  BY <2>1 DEF Restrict
<1>. HIDE DEF P
<1>5. PICK t : t = FreeBlocks(s, Restrict(P, G))
  OBVIOUS
<1>6. /\ t \in Stores /\ t.inodes = s.inodes /\ t.blocks = s.blocks
      /\ t.fs.inode_bitmap = s.fs.inode_bitmap
      /\ t.fs.free_blocks = Cardinality(t.fs.bitmap)
      /\ t.fs.bitmap = s.fs.bitmap \cup ({P[k] : k \in G} \ {0})
  <2>. HIDE DEF G
  <2>1. PICK Q, K : Q = P /\ K = G
    OBVIOUS
  <2>2. K \in SUBSET (0..Limit) /\ s \in Stores /\ s.fs.free_blocks = Cardinality(s.fs.bitmap)
    BY <1>1, <1>2, <2>1
  <2>3. \A k \in 0..Limit : Q[k] \in PtrValues
    BY <1>3, <2>1
  <2>4. \A k, m \in 0..Limit : Q[k] = Q[m] /\ Q[k] # 0 => k = m
    BY <1>3, <2>1
  <2>5. \A k \in K : Q[k] \notin s.fs.bitmap
    BY <1>3, <2>1, <2>2
  <2>6. t = FreeBlocks(s, Restrict(Q, K))
    BY <1>5, <2>1
  <2>7. /\ t \in Stores /\ t.inodes = s.inodes /\ t.blocks = s.blocks
        /\ t.fs.inode_bitmap = s.fs.inode_bitmap
        /\ t.fs.free_blocks = Cardinality(t.fs.bitmap)
        /\ t.fs.bitmap = s.fs.bitmap \cup ({Q[k] : k \in K} \ {0})
    BY <2>2, <2>3, <2>4, <2>5, <2>6, FreeAt
  <2>. QED  BY <2>1, <2>7
<1>7. D \in [0..(DIRECT_PTRS - 1) -> PtrValues]
  BY <1>1 DEF PtrValues
<1>8. PICK jno \in InodeRecs : /\ jno.direct = D /\ jno.indirect = ino.indirect /\ jno.type = ino.type
                               /\ jno.size = ino.size /\ jno = [ino EXCEPT !.direct = D]
  <2>. DEFINE new == [ino EXCEPT !.direct = D]
  <2>. HIDE DEF D
  <2>1. /\ new \in InodeRecs /\ new.direct = D /\ new.indirect = ino.indirect /\ new.type = ino.type
        /\ new.size = ino.size
    BY <1>1, <1>7 DEF InodeRecs
  <2>. QED  BY <2>1
<1>9. PICK w : w = [s |-> t, ino |-> jno, b |-> 0, ok |-> TRUE]
  OBVIOUS
<1>10. w \in Writes /\ w.ok /\ w.s = t /\ w.ino = jno
  BY <1>6, <1>9 DEF Writes, PtrValues
<1>11. w = CutDirect(Writing(s, ino), size)
  <2>1. Writing(s, ino).ino = ino /\ Writing(s, ino).s = s
    BY DEF Writing
  <2>2. CutDirect(Writing(s, ino), size) =
          [Writing(s, ino) EXCEPT !.s = FreeBlocks(s, Restrict(ino.direct, G)),
              !.ino.direct = D]
    BY <2>1 DEF CutDirect
  <2>3. CutDirect(Writing(s, ino), size) = [Writing(s, ino) EXCEPT !.s = t, !.ino.direct = D]
    BY <1>4, <1>5, <2>2
  <2>. HIDE DEF D, G
  <2>. QED  BY <1>8, <1>9, <2>3 DEF Writing
<1>12. Freed(s, ino, t, jno, G)
  <2>1. Limit \notin G
    BY <1>2, Constants
  <2>. QED  BY <1>6, <1>8, <2>1 DEF Freed, P
<1>. QED  BY <1>8, <1>10, <1>11, <1>12

\* The blocks beyond the direct ones that a cut frees.
CutFar(ino, size) ==
    IF ino.indirect = 0 THEN {}
    ELSE CutRange(ino, size, DIRECT_PTRS, Limit - 1) \cup
            (IF LastBlock(size) < DIRECT_PTRS THEN {Limit} ELSE {})

LEMMA CutIndirectFacts ==
    ASSUME NEW s, NEW ino, Pair(s, ino), NEW size \in Nat, NEW w \in Writes, w.ok,
           w.ino.size = ino.size, NEW G \in SUBSET (0..(DIRECT_PTRS - 1)),
           Freed(s, ino, w.s, w.ino, G)
    PROVE  \E v \in Writes :
             /\ v = CutIndirect(w, size) /\ v.ok /\ v.ino.size = ino.size
             /\ Freed(s, ino, v.s, v.ino, G \cup CutFar(ino, size))
<1>. DEFINE gone == CutRange(ino, size, DIRECT_PTRS, Limit - 1)
            H    == CutFar(ino, size)
            P    == Pointers(s, ino)
            Q    == Pointers(w.s, w.ino)
<1>0. w.s \in Stores /\ w.ino \in InodeRecs /\ s \in Stores /\ ino \in InodeRecs
      /\ s.fs.bitmap \in SUBSET Blocks /\ 0 \notin Blocks
  BY WriteFields, StoreFields, Constants DEF Pair
<1>1. Limit \notin G /\ Limit \in 0..Limit /\ Limit \in Nat /\ DIRECT_PTRS \in 0..(Limit - 1)
      /\ DIRECT_PTRS \in Nat
  BY Constants
<1>2. w.ino.indirect = ino.indirect
  BY <1>1 DEF Freed
<1>3. CutRange(w.ino, size, DIRECT_PTRS, Limit - 1) = gone
  BY DEF CutRange
<1>4. /\ gone \in SUBSET (0..Limit)
      /\ gone \in SUBSET (DIRECT_PTRS..(Limit - 1))
  <2>1. Limit - 1 \in 0..Limit
    BY <1>1
  <2>2. gone \in SUBSET (0..Limit)
    BY <1>0, <1>1, <2>1, CutRangeFacts
  <2>. QED  BY <2>2 DEF CutRange
<1>5. /\ \A k \in 0..Limit : P[k] \in PtrValues
      /\ \A k, m \in 0..Limit : P[k] = P[m] /\ P[k] # 0 => k = m
      /\ \A k \in 0..Limit : P[k] \notin s.fs.bitmap
  <2>1. BlocksOf(s, ino) = {P[k] : k \in 0..Limit} \ {0} /\ BlocksOf(s, ino) \cap s.fs.bitmap = {}
    BY PointersFacts DEF Pair
  <2>2. 0 \notin s.fs.bitmap
    BY <1>0
  <2>3. \A k \in 0..Limit : P[k] \notin s.fs.bitmap
    <3>. HIDE DEF P
    <3>. QED  BY <2>1, <2>2
  <2>. QED  BY <2>3 DEF Pair, GoodInode
<1>6. \A k \in DIRECT_PTRS..(Limit - 1) \cup {Limit} : Q[k] = P[k] /\ k \in 0..Limit
  <2>1. w.s.blocks = s.blocks
    BY DEF Freed
  <2>2. \A k \in DIRECT_PTRS..(Limit - 1) : Q[k] = P[k] /\ k \in 0..Limit
    BY <1>2, <2>1, PointersFacts, IndexCases
  <2>3. Q[Limit] = P[Limit]
    BY <1>2, PointersFacts
  <2>. QED  BY <1>1, <2>2, <2>3
<1>7. CASE ino.indirect = 0
  <2>1. CutIndirect(w, size) = w
    BY <1>2, <1>7 DEF CutIndirect
  <2>2. G \cup H = G
    BY <1>7 DEF CutFar
  <2>. QED  BY <2>1, <2>2
<1>8. CASE ino.indirect # 0
  <2>1. H \in SUBSET (DIRECT_PTRS..(Limit - 1) \cup {Limit}) /\ H \in SUBSET (0..Limit)
    BY <1>1, <1>4, <1>8 DEF CutFar
  <2>2. Restrict(Q, H) = Restrict(P, H)
    <3>1. \A k \in H : Q[k] = P[k]
      BY <1>6, <2>1
    <3>. HIDE DEF P, Q, H
    <3>. QED  BY <3>1 DEF Restrict
  <2>3. PICK t : t = FreeBlocks(w.s, Restrict(P, H))
    OBVIOUS
  <2>4. /\ t \in Stores /\ t.inodes = w.s.inodes /\ t.blocks = w.s.blocks
        /\ t.fs.inode_bitmap = w.s.fs.inode_bitmap
        /\ t.fs.free_blocks = Cardinality(t.fs.bitmap)
        /\ t.fs.bitmap = w.s.fs.bitmap \cup ({P[k] : k \in H} \ {0})
    <3>1. w.s.fs.bitmap = s.fs.bitmap \cup ({P[k] : k \in G} \ {0})
          /\ w.s.fs.free_blocks = Cardinality(w.s.fs.bitmap)
      BY DEF Freed
    <3>2. \A k \in H, m \in G : k # m /\ k \in 0..Limit /\ m \in 0..Limit
      BY <2>1, Constants
    <3>. HIDE DEF P, H
    <3>3. \A k \in H : P[k] \notin w.s.fs.bitmap
      BY <1>5, <2>1, <3>1, <3>2
    <3>4. PICK u \in Stores : u = w.s
      BY <1>0
    <3>5. /\ u.fs.free_blocks = Cardinality(u.fs.bitmap) /\ \A k \in H : P[k] \notin u.fs.bitmap
          /\ t = FreeBlocks(u, Restrict(P, H))
      BY <2>3, <3>1, <3>3, <3>4
    <3>6. /\ t \in Stores /\ t.inodes = u.inodes /\ t.blocks = u.blocks
          /\ t.fs.inode_bitmap = u.fs.inode_bitmap
          /\ t.fs.free_blocks = Cardinality(t.fs.bitmap)
          /\ t.fs.bitmap = u.fs.bitmap \cup ({P[k] : k \in H} \ {0})
      BY <1>5, <2>1, <3>5, FreeAt
    <3>. QED  BY <3>4, <3>6
  <2>. DEFINE far == IF LastBlock(size) < DIRECT_PTRS THEN 0 ELSE ino.indirect
  <2>5. far \in PtrValues /\ far = IF Limit \in G \cup H THEN 0 ELSE ino.indirect
    <3>1. Limit \in H <=> LastBlock(size) < DIRECT_PTRS
      BY <1>4, <1>8, Constants DEF CutFar
    <3>. QED  BY <1>0, <1>1, <3>1 DEF InodeRecs, PtrValues
  <2>6. PICK jno \in InodeRecs : /\ jno.direct = w.ino.direct /\ jno.indirect = far
                                 /\ jno.type = w.ino.type
                                 /\ jno.size = w.ino.size /\ jno = [w.ino EXCEPT !.indirect = far]
    <3>. DEFINE new == [w.ino EXCEPT !.indirect = far]
    <3>. HIDE DEF far
    <3>1. /\ new \in InodeRecs /\ new.direct = w.ino.direct /\ new.indirect = far /\ new.type = w.ino.type
          /\ new.size = w.ino.size
      BY <1>0, <2>5 DEF InodeRecs
    <3>. QED  BY <3>1
  <2>7. PICK v : v = [w EXCEPT !.s = t, !.ino = jno]
    OBVIOUS
  <2>8. v \in Writes /\ v.ok /\ v.s = t /\ v.ino = jno
    BY <2>4, <2>7 DEF Writes
  <2>9. v = CutIndirect(w, size)
    <3>1. CASE LastBlock(size) < DIRECT_PTRS
      <4>1. H = gone \cup {Limit}
        BY <1>8, <3>1 DEF CutFar
      <4>2. CutIndirect(w, size) = [w EXCEPT !.s = FreeBlocks(w.s, Restrict(Q, H)), !.ino.indirect = 0]
        BY <1>2, <1>3, <1>8, <3>1, <4>1 DEF CutIndirect
      <4>3. CutIndirect(w, size) = [w EXCEPT !.s = t, !.ino.indirect = 0]
        BY <2>2, <2>3, <4>2
      <4>4. jno = [w.ino EXCEPT !.indirect = 0]
        BY <2>6, <3>1
      <4>. QED  BY <2>7, <4>3, <4>4 DEF Writes
    <3>2. CASE ~(LastBlock(size) < DIRECT_PTRS)
      <4>1. H = gone
        BY <1>8, <3>2 DEF CutFar
      <4>2. CutIndirect(w, size) = [w EXCEPT !.s = FreeBlocks(w.s, Restrict(Q, H))]
        BY <1>2, <1>3, <1>8, <3>2, <4>1 DEF CutIndirect
      <4>3. CutIndirect(w, size) = [w EXCEPT !.s = t]
        BY <2>2, <2>3, <4>2
      <4>4. jno = w.ino
        BY <1>0, <1>2, <2>6, <3>2 DEF InodeRecs
      <4>. QED  BY <2>7, <4>3, <4>4 DEF Writes
    <3>. QED  BY <3>1, <3>2
  <2>10. Freed(s, ino, t, jno, G \cup H)
    <3>1. \A k \in 0..(DIRECT_PTRS - 1) : k \notin H
      BY <2>1, Constants
    <3>2. {P[k] : k \in G \cup H} = {P[k] : k \in G} \cup {P[k] : k \in H}
      OBVIOUS
    <3>. HIDE DEF H, far
    <3>. QED  BY <2>4, <2>5, <2>6, <3>1, <3>2 DEF Freed
  <2>. QED  BY <2>6, <2>8, <2>9, <2>10
<1>. QED  BY <1>7, <1>8

\* What a cut to this size may do, from s with ino to t with jno.
Cut(s, ino, t, jno, size) ==
    /\ t \in Stores /\ t.inodes = s.inodes /\ t.blocks = s.blocks
    /\ t.fs.inode_bitmap = s.fs.inode_bitmap
    /\ t.fs.free_blocks = Cardinality(t.fs.bitmap)
    /\ s.fs.bitmap \subseteq t.fs.bitmap /\ t.fs.bitmap \subseteq s.fs.bitmap \cup BlocksOf(s, ino)
    /\ jno \in InodeRecs /\ jno.type = ino.type /\ jno.size = size
    /\ \A k \in 0..Limit : Pointers(t, jno)[k] \in {0, Pointers(s, ino)[k]}
    /\ \A k \in 0..(Limit - 1) : k <= LastBlock(size) => Pointers(t, jno)[k] = Pointers(s, ino)[k]
    /\ (ino.indirect # 0 => ino.size > DIRECT_PTRS * SLOTS) =>
          (jno.indirect # 0 => jno.size > DIRECT_PTRS * SLOTS)
    /\ LastBlock(size) < DIRECT_PTRS => BlocksOf(t, jno) \cap t.fs.bitmap = {}
    /\ Tight(s, ino) => s.fs.bitmap \cup BlocksOf(s, ino) \subseteq t.fs.bitmap \cup BlocksOf(t, jno)
    /\ Tight(s, ino) /\ BlocksOf(t, jno) \cap t.fs.bitmap = {} => Tight(t, jno)
    /\ LastBlock(size) < DIRECT_PTRS /\ jno.direct = ino.direct /\ jno.indirect = ino.indirect =>
          t.fs.bitmap = s.fs.bitmap

LEMMA LastBlockFacts ==
    ASSUME NEW size \in Nat
    PROVE  /\ LastBlock(size) \in Nat
           /\ LastBlock(size) >= DIRECT_PTRS => size > DIRECT_PTRS * SLOTS
           /\ size \in 0..(Limit * SLOTS) => LastBlock(size) \in 0..(Limit - 1)
           /\ \A other \in Nat : size <= other => LastBlock(size) <= LastBlock(other)
           /\ \A p \in Nat : p < size => p \div SLOTS <= LastBlock(size)
           /\ \A k \in Nat : k * SLOTS < size => k <= LastBlock(size)
<1>0. SLOTS \in Nat \ {0} /\ DIRECT_PTRS \in Nat \ {0} /\ Limit \in Nat /\ Limit > 0 /\ Limit * SLOTS \in Nat
  BY Constants
<1>1. CASE size = 0
  <2>1. LastBlock(size) = 0
    BY <1>1 DEF LastBlock
  <2>2. \A other \in Nat : LastBlock(other) \in Nat
    BY <1>0 DEF LastBlock
  <2>3. \A k \in Nat : ~(k * SLOTS < 0)
    BY <1>0
  <2>. QED  BY <1>0, <1>1, <2>1, <2>2, <2>3
<1>2. CASE size # 0
  <2>1. LastBlock(size) = (size - 1) \div SLOTS /\ size - 1 \in Nat
    BY <1>2 DEF LastBlock
  <2>2. PICK q \in Nat, c \in 0..(SLOTS - 1) : q = LastBlock(size) /\ size - 1 = q * SLOTS + c
    BY <1>0, <2>1, CellOfPlace, ZenonT(60)
  <2>3. \A S \in Nat \ {0}, x, y, a, b \in Nat : a < S /\ b < S /\ x * S + a <= y * S + b => x <= y
    BY SMTT(30)
  <2>4. c \in Nat /\ c < SLOTS
    BY <1>0
  <2>5. ASSUME NEW other \in Nat, size <= other  PROVE LastBlock(size) <= LastBlock(other)
    <3>1. LastBlock(other) = (other - 1) \div SLOTS /\ other - 1 \in Nat
      BY <1>2, <2>5 DEF LastBlock
    <3>2. PICK x \in Nat, a \in 0..(SLOTS - 1) : x = LastBlock(other) /\ other - 1 = x * SLOTS + a
      BY <1>0, <3>1, CellOfPlace, ZenonT(60)
    <3>3. a \in Nat /\ a < SLOTS /\ q * SLOTS + c <= x * SLOTS + a
      BY <1>0, <2>2, <2>5, <3>2
    <3>. QED  BY <1>0, <2>2, <2>3, <2>4, <3>2, <3>3
  <2>6. ASSUME NEW p \in Nat, p < size  PROVE p \div SLOTS <= LastBlock(size)
    <3>1. PICK x \in Nat, a \in 0..(SLOTS - 1) : x = p \div SLOTS /\ p = x * SLOTS + a
      BY <1>0, CellOfPlace
    <3>2. a \in Nat /\ a < SLOTS /\ x * SLOTS + a <= q * SLOTS + c
      BY <1>0, <2>2, <2>6, <3>1
    <3>. QED  BY <1>0, <2>2, <2>3, <2>4, <3>1, <3>2
  <2>7. ASSUME NEW k \in Nat, k * SLOTS < size  PROVE k <= LastBlock(size)
    <3>1. k * SLOTS + 0 <= q * SLOTS + c
      BY <1>0, <2>2, <2>7
    <3>. QED  BY <1>0, <2>2, <2>3, <2>4, <3>1
  <2>8. ASSUME q >= DIRECT_PTRS  PROVE size > DIRECT_PTRS * SLOTS
    <3>1. \A S, x, y \in Nat : x >= y => x * S >= y * S
      BY SMTT(30)
    <3>2. q * SLOTS >= DIRECT_PTRS * SLOTS
      BY <1>0, <2>8, <3>1
    <3>. QED  BY <1>0, <2>2, <3>2
  <2>9. ASSUME size <= Limit * SLOTS  PROVE q <= Limit - 1
    <3>1. \A S, L, x, a \in Nat : x * S + a < L * S => x < L
      BY SMTT(30)
    <3>2. q * SLOTS + c < Limit * SLOTS
      BY <1>0, <2>2, <2>9
    <3>. QED  BY <1>0, <2>2, <2>4, <3>1, <3>2
  <2>. QED  BY <1>0, <2>2, <2>5, <2>6, <2>7, <2>8, <2>9
<1>. QED  BY <1>1, <1>2

LEMMA FreedCut ==
    ASSUME NEW s, NEW ino, Pair(s, ino), NEW size \in 0..(Limit * SLOTS), NEW t, NEW jno, NEW G,
           G = CutRange(ino, size, 0, DIRECT_PTRS - 1) \cup CutFar(ino, size),
           Freed(s, ino, t, jno, G), jno.size = size
    PROVE  Cut(s, ino, t, jno, size)
<1>. DEFINE P == Pointers(s, ino)
            Q == Pointers(t, jno)
<1>0. s \in Stores /\ ino \in InodeRecs /\ s.fs.bitmap \in SUBSET Blocks /\ 0 \notin Blocks
      /\ size \in Nat
  BY StoreFields, Constants DEF Pair
<1>1. DIRECT_PTRS \in Nat \ {0} /\ Limit \in Nat /\ DIRECT_PTRS < Limit /\ LastBlock(size) \in Nat
      /\ LastBlock(size) \in 0..(Limit - 1) /\ LastBlock(ino.size) \in Nat
  <2>1. ino.size \in Nat
    BY <1>0 DEF InodeRecs
  <2>2. LastBlock(ino.size) \in Nat
    BY <2>1, LastBlockFacts
  <2>3. LastBlock(size) \in Nat /\ LastBlock(size) \in 0..(Limit - 1)
    BY <1>0, LastBlockFacts
  <2>. QED  BY <2>2, <2>3, Constants
<1>2. \A k \in 0..(DIRECT_PTRS - 1) :
         k \in G <=> LastBlock(size) < k /\ k <= LastBlock(ino.size)
  BY <1>1 DEF CutRange, CutFar
<1>3. \A k \in DIRECT_PTRS..(Limit - 1) :
         k \in G <=> ino.indirect # 0 /\ LastBlock(size) < k /\ k <= LastBlock(ino.size)
  BY <1>1 DEF CutRange, CutFar
<1>4. Limit \in G <=> ino.indirect # 0 /\ LastBlock(size) < DIRECT_PTRS
  BY <1>1 DEF CutRange, CutFar
<1>5. G \in SUBSET (0..Limit)
  BY <1>1 DEF CutRange, CutFar
<1>6. /\ \A k \in 0..Limit : P[k] \in PtrValues
      /\ \A k, m \in 0..Limit : P[k] = P[m] /\ P[k] # 0 => k = m
      /\ BlocksOf(s, ino) \cap s.fs.bitmap = {}
  BY DEF Pair, GoodInode
<1>7. /\ BlocksOf(s, ino) = {P[k] : k \in 0..Limit} \ {0}
      /\ BlocksOf(t, jno) = {Q[k] : k \in 0..Limit} \ {0}
  BY PointersFacts
<1>8. \A k \in 0..(DIRECT_PTRS - 1) : P[k] = ino.direct[k] /\ Q[k] = IF k \in G THEN 0 ELSE P[k]
  BY PointersFacts DEF Freed
<1>9. /\ Limit \in G => \A k \in DIRECT_PTRS..(Limit - 1) : Q[k] = 0
      /\ Limit \notin G => \A k \in DIRECT_PTRS..(Limit - 1) : Q[k] = P[k]
      /\ ino.indirect = 0 => \A k \in DIRECT_PTRS..(Limit - 1) : P[k] = 0
  BY PointersFacts DEF Freed
<1>10. P[Limit] = ino.indirect /\ Q[Limit] = jno.indirect
       /\ jno.indirect = IF Limit \in G THEN 0 ELSE ino.indirect
  BY PointersFacts DEF Freed
<1>11. t.fs.bitmap = s.fs.bitmap \cup ({P[k] : k \in G} \ {0})
  BY DEF Freed
<1>. HIDE DEF P, Q
<1>12. \A k \in 0..Limit : Q[k] \in {0, P[k]}
  BY <1>8, <1>9, <1>10, IndexCases
<1>13. \A k \in 0..(Limit - 1) : k <= LastBlock(size) => Q[k] = P[k]
  <2>1. \A k \in 0..(DIRECT_PTRS - 1) : k <= LastBlock(size) => k \notin G
    BY <1>1, <1>2
  <2>2. \A k \in DIRECT_PTRS..(Limit - 1) : k <= LastBlock(size) => Limit \notin G
    BY <1>1, <1>4
  <2>. QED  BY <1>8, <1>9, <2>1, <2>2, IndexCases
<1>14. jno.indirect # 0 => jno.size > DIRECT_PTRS * SLOTS
  <2>1. jno.indirect # 0 => ~(LastBlock(size) < DIRECT_PTRS)
    BY <1>4, <1>10
  <2>. QED  BY <1>0, <1>1, <2>1, LastBlockFacts
<1>15. \A k \in 0..Limit : Q[k] # 0 /\ k \notin G => Q[k] \notin t.fs.bitmap
  BY <1>5, <1>6, <1>7, <1>11, <1>12
<1>16. ASSUME LastBlock(size) < DIRECT_PTRS  PROVE BlocksOf(t, jno) \cap t.fs.bitmap = {}
  <2>1. \A k \in 0..(DIRECT_PTRS - 1) : Q[k] # 0 => k \notin G
    BY <1>8
  <2>2. \A k \in DIRECT_PTRS..(Limit - 1) : Q[k] = 0
    BY <1>4, <1>9, <1>16
  <2>3. Q[Limit] = 0
    BY <1>4, <1>10, <1>16
  <2>4. \A k \in 0..Limit : Q[k] # 0 => k \notin G
    BY <2>1, <2>2, <2>3, IndexCases
  <2>. QED  BY <1>7, <1>15, <2>4
<1>17. ASSUME Tight(s, ino)
       PROVE  s.fs.bitmap \cup BlocksOf(s, ino) \subseteq t.fs.bitmap \cup BlocksOf(t, jno)
  <2>1. \A k \in 0..(Limit - 1) : P[k] # 0 => k <= LastBlock(ino.size)
    BY <1>17 DEF Tight, P
  <2>2. ASSUME NEW k \in 0..Limit, P[k] # 0, k \notin G  PROVE Q[k] = P[k]
    <3>1. CASE k \in 0..(DIRECT_PTRS - 1)
      BY <1>8, <2>2, <3>1
    <3>2. CASE k \in DIRECT_PTRS..(Limit - 1)
      <4>1. k <= LastBlock(ino.size) /\ ino.indirect # 0
        BY <1>9, <2>1, <2>2, <3>2, IndexCases
      <4>2. ~(LastBlock(size) < k)
        BY <1>3, <2>2, <3>2, <4>1
      <4>3. Limit \notin G
        BY <1>1, <1>4, <3>2, <4>2
      <4>. QED  BY <1>9, <3>2, <4>3
    <3>3. CASE k = Limit
      BY <1>10, <2>2, <3>3
    <3>. QED  BY <3>1, <3>2, <3>3, IndexCases
  <2>3. \A k \in 0..Limit : P[k] # 0 => P[k] \in t.fs.bitmap \cup BlocksOf(t, jno)
    BY <1>7, <1>11, <2>2
  <2>. QED  BY <1>7, <1>11, <2>3
<1>18. ASSUME Tight(s, ino), BlocksOf(t, jno) \cap t.fs.bitmap = {}  PROVE Tight(t, jno)
  <2>0. \A k \in 0..(Limit - 1) : P[k] # 0 => k <= LastBlock(ino.size)
    BY <1>18 DEF Tight, P
  <2>1. SUFFICES ASSUME NEW k \in 0..(Limit - 1), Q[k] # 0  PROVE k <= LastBlock(size)
    BY DEF Tight, Q, Freed
  <2>2. k \in 0..Limit /\ Q[k] = P[k]
    BY <1>12, <2>1, IndexCases
  <2>3. k \notin G
    BY <1>7, <1>11, <1>18, <2>1, <2>2
  <2>4. k <= LastBlock(ino.size)
    BY <2>0, <2>1, <2>2
  <2>5. k \in DIRECT_PTRS..(Limit - 1) => ino.indirect # 0
    BY <1>9, <2>1, <2>2
  <2>. QED  BY <1>1, <1>2, <1>3, <2>3, <2>4, <2>5, IndexCases
<1>19. ASSUME LastBlock(size) < DIRECT_PTRS, jno.direct = ino.direct, jno.indirect = ino.indirect
       PROVE  t.fs.bitmap = s.fs.bitmap
  <2>1. \A k \in 0..(DIRECT_PTRS - 1) : k \in G => P[k] = 0
    <3>1. \A k \in 0..(DIRECT_PTRS - 1) : k \in G => jno.direct[k] = 0
      BY DEF Freed
    <3>. QED  BY <1>8, <1>19, <3>1
  <2>2. ino.indirect = 0
    BY <1>4, <1>10, <1>19
  <2>3. \A k \in G : P[k] = 0
    BY <1>5, <1>9, <1>10, <2>1, <2>2, IndexCases
  <2>. QED  BY <1>11, <2>3
<1>20. s.fs.bitmap \subseteq t.fs.bitmap /\ t.fs.bitmap \subseteq s.fs.bitmap \cup BlocksOf(s, ino)
  BY <1>5, <1>7, <1>11
<1>. QED  BY <1>12, <1>13, <1>14, <1>16, <1>17, <1>18, <1>19, <1>20 DEF Cut, Freed, P, Q

LEMMA TruncateInodeFacts ==
    ASSUME NEW s, NEW ino, Pair(s, ino), NEW size \in 0..(Limit * SLOTS)
    PROVE  \E w \in Writes : /\ w = TruncateInode(Writing(s, ino), size) /\ w.ok
                             /\ Cut(s, ino, w.s, w.ino, size)
<1>0. s \in Stores /\ ino \in InodeRecs /\ ino.size \in Nat /\ size \in Nat
      /\ s.fs.free_blocks = Cardinality(s.fs.bitmap)
  BY Constants DEF Pair, InodeRecs
<1>1. PICK x : x = Writing(s, ino)
  OBVIOUS
<1>2. x \in Writes /\ x.s = s /\ x.ino = ino /\ x.b = 0 /\ x.ok
  BY <1>0, <1>1 DEF Writing, Writes, PtrValues
<1>3. \A v \in Writes : v.ok => \E w \in Writes :
         /\ w = SetSize(v, size) /\ w.ok /\ w.s = v.s
         /\ w.ino.size = size /\ w.ino.type = v.ino.type /\ w.ino.direct = v.ino.direct
         /\ w.ino.indirect = v.ino.indirect
  <2>1. SUFFICES ASSUME NEW v \in Writes, v.ok
                 PROVE  \E w \in Writes :
                           /\ w = SetSize(v, size) /\ w.ok /\ w.s = v.s
                           /\ w.ino.size = size /\ w.ino.type = v.ino.type /\ w.ino.direct = v.ino.direct
                           /\ w.ino.indirect = v.ino.indirect
    OBVIOUS
  <2>2. PICK jno \in InodeRecs : /\ jno.size = size /\ jno.type = v.ino.type /\ jno.direct = v.ino.direct
                                 /\ jno.indirect = v.ino.indirect /\ jno = [v.ino EXCEPT !.size = size]
    <3>. DEFINE new == [v.ino EXCEPT !.size = size]
    <3>1. /\ new \in InodeRecs /\ new.size = size /\ new.type = v.ino.type /\ new.direct = v.ino.direct
          /\ new.indirect = v.ino.indirect
      BY WriteFields DEF InodeRecs
    <3>. QED  BY <3>1
  <2>3. SetSize(v, size) = [v EXCEPT !.ino = jno]
    BY <2>2 DEF SetSize, Writes
  <2>4. SetSize(v, size) \in Writes /\ SetSize(v, size).ok /\ SetSize(v, size).s = v.s
        /\ SetSize(v, size).ino = jno
    BY <2>1, <2>2, <2>3 DEF Writes
  <2>. QED  BY <2>2, <2>4
<1>4. CASE size >= ino.size
  <2>1. TruncateInode(x, size) = SetSize(x, size)
    BY <1>2, <1>4 DEF TruncateInode
  <2>2. PICK w \in Writes :
         /\ w = SetSize(x, size) /\ w.ok /\ w.s = s
         /\ w.ino.size = size /\ w.ino.type = ino.type /\ w.ino.direct = ino.direct
         /\ w.ino.indirect = ino.indirect
    BY <1>2, <1>3
  <2>3. PICK jno \in InodeRecs : jno = w.ino
    BY WriteFields
  <2>4. Pointers(s, jno) = Pointers(s, ino)
    BY <2>2, <2>3, SamePointers
  <2>5. BlocksOf(s, jno) = BlocksOf(s, ino)
    BY <2>4 DEF BlocksOf
  <2>6. BlocksOf(s, ino) \cap s.fs.bitmap = {}
    BY DEF Pair
  <2>7. Tight(s, ino) => Tight(s, jno)
    <3>1. LastBlock(ino.size) <= LastBlock(size)
      BY <1>0, <1>4, LastBlockFacts
    <3>2. LastBlock(ino.size) \in Nat
      BY <1>0, LastBlockFacts
    <3>3. LastBlock(size) \in Nat
      BY <1>0, LastBlockFacts
    <3>. QED  BY <2>2, <2>3, <2>4, <3>1, <3>2, <3>3, Constants DEF Tight
  <2>8. (ino.indirect # 0 => ino.size > DIRECT_PTRS * SLOTS) =>
          (jno.indirect # 0 => jno.size > DIRECT_PTRS * SLOTS)
    BY <1>0, <1>4, <2>2, <2>3, Constants
  <2>9. Cut(s, ino, s, jno, size)
    BY <1>0, <2>2, <2>3, <2>4, <2>5, <2>6, <2>7, <2>8 DEF Cut
  <2>. QED  BY <1>1, <2>1, <2>2, <2>3, <2>9
<1>5. CASE size < ino.size
  <2>. DEFINE G == CutRange(ino, size, 0, DIRECT_PTRS - 1)
              H == CutFar(ino, size)
  <2>1. PICK u \in Writes : /\ u = CutDirect(x, size) /\ u.ok /\ u.ino.size = ino.size
                            /\ Freed(s, ino, u.s, u.ino, G)
    BY <1>0, <1>1, CutDirectFacts
  <2>2. G \in SUBSET (0..(DIRECT_PTRS - 1))
    BY DEF CutRange
  <2>. HIDE DEF G
  <2>3. PICK v \in Writes : /\ v = CutIndirect(u, size) /\ v.ok /\ v.ino.size = ino.size
                            /\ Freed(s, ino, v.s, v.ino, G \cup H)
    BY <1>0, <2>1, <2>2, CutIndirectFacts
  <2>4. PICK w \in Writes :
         /\ w = SetSize(v, size) /\ w.ok /\ w.s = v.s
         /\ w.ino.size = size /\ w.ino.type = v.ino.type /\ w.ino.direct = v.ino.direct
         /\ w.ino.indirect = v.ino.indirect
    BY <1>3, <2>3
  <2>5. TruncateInode(x, size) = w
    <3>1. ~(size >= x.ino.size)
      BY <1>0, <1>2, <1>5
    <3>. QED  BY <2>1, <2>3, <2>4, <3>1 DEF TruncateInode
  <2>6. PICK t, jno : t = w.s /\ jno = w.ino
    OBVIOUS
  <2>7. Freed(s, ino, t, jno, G \cup H) /\ jno.size = size
    <3>1. jno \in InodeRecs
      BY <2>6, WriteFields
    <3>. QED  BY <2>3, <2>4, <2>6, <3>1 DEF Freed
  <2>8. Cut(s, ino, t, jno, size)
    BY <2>7, FreedCut DEF G
  <2>. QED  BY <1>1, <2>4, <2>5, <2>6, <2>8
<1>. QED  BY <1>0, <1>4, <1>5

-----------------------------------------------------------------------------
(* Operations on files *)

\* A file reads as file f, with the places in wr written.
FileOK(slots, f, wr) ==
    \A p \in FilePlaces : slots[p] = Data(f, p) \/ (slots[p] = Zero /\ p \notin wr)

\* A step on file i that leaves the types of all inodes, and all inodes in use, as they were.
FileStep(s, X, i, t) ==
    /\ Local(s, t, X, i) /\ Sound(t, X)
    /\ t.fs.inode_bitmap = s.fs.inode_bitmap
    /\ \A j \in Inodes : j # i => t.inodes[j] = s.inodes[j]
    /\ t.inodes[i].type = s.inodes[i].type

\* What a write to file i starts from: the filesystem and the inode in memory.
Ready(s, X, i, v, vno) ==
    /\ Pair(v, vno) /\ v.inodes = s.inodes /\ v.fs.inode_bitmap = s.fs.inode_bitmap
    /\ \A b \in Blocks : b \notin Mine(s, X, i) => v.blocks[b] = s.blocks[b]
    /\ v.fs.bitmap \cup BlocksOf(v, vno) \subseteq Mine(s, X, i)
    /\ vno.type = s.inodes[i].type
    /\ vno.indirect # 0 => vno.size > DIRECT_PTRS * SLOTS

LEMMA CarriesLocal ==
    ASSUME NEW s, NEW X, Sound(s, X), NEW i \in X, NEW v, NEW vno, Ready(s, X, i, v, vno),
           NEW t, NEW jno, NEW val, Carries(v, vno, t, jno, val),
           \A j \in Inodes : j # i => t.inodes[j] = s.inodes[j]
    PROVE  Local(s, t, X, i) /\ BlocksOf(t, jno) \subseteq Mine(s, X, i)
<1>1. t \in Stores /\ t.fs.free_blocks = Cardinality(t.fs.bitmap)
  BY DEF Carries, Pair
<1>2. \A j \in X \ {i} : t.inodes[j] = s.inodes[j] /\ j \in t.fs.inode_bitmap
  <2>1. \A j \in X : j \in Inodes /\ j \in s.fs.inode_bitmap
    BY DEF Sound, InodeOK
  <2>. QED  BY <2>1 DEF Carries, Ready
<1>3. \A b \in Blocks : b \notin Mine(s, X, i) => t.blocks[b] = s.blocks[b]
  BY DEF Carries, Ready
<1>4. t.fs.bitmap \subseteq Mine(s, X, i) /\ BlocksOf(t, jno) \subseteq Mine(s, X, i)
  BY DEF Carries, Ready
<1>. QED  BY <1>1, <1>2, <1>3, <1>4 DEF Local

LEMMA WriteOkStep ==
    ASSUME NEW s, NEW X, Sound(s, X), NEW i \in X, s.inodes[i].type = "file",
           NEW v, NEW vno, Ready(s, X, i, v, vno),
           NEW r, NEW val, NEW lo \in Nat, NEW hi \in Nat, WriteOutcome(v, vno, i, r, val, lo, hi), r.ok
    PROVE  /\ FileStep(s, X, i, r.s)
           /\ /\ NoneLost(s, X) /\ Tight(v, vno)
              /\ Mine(s, X, i) \subseteq v.fs.bitmap \cup BlocksOf(v, vno)
              => NoneLost(r.s, X)
<1>0. i \in Inodes /\ s \in Stores /\ s.inodes \in [Inodes -> InodeRecs] /\ InodeOK(s, i)
      /\ X \cup {i} = X
  BY StoreFields DEF Sound
<1>1. PICK t, jno : t = r.s /\ jno = r.s.inodes[i]
  OBVIOUS
<1>2. /\ Carries(v, vno, t, jno, val) /\ Completes(v, vno, t, jno, hi \div SLOTS)
      /\ jno \in InodeRecs /\ t.inodes = [v.inodes EXCEPT ![i] = jno]
      /\ jno.size = IF hi + 1 > vno.size THEN hi + 1 ELSE vno.size
  BY <1>1 DEF WriteOutcome
<1>3. v.inodes = s.inodes /\ vno \in InodeRecs /\ vno.size \in Nat /\ jno.size \in Nat
  BY <1>2, Constants DEF Ready, Pair, InodeRecs
<1>4. t.inodes[i] = jno /\ \A j \in Inodes : j # i => t.inodes[j] = s.inodes[j]
  BY <1>0, <1>2, <1>3
<1>5. Local(s, t, X, i) /\ BlocksOf(t, jno) \subseteq Mine(s, X, i)
  BY <1>2, <1>4, CarriesLocal
<1>6. jno.type = "file"
  BY <1>2 DEF Carries, Ready
<1>7. hi + 1 \in Nat /\ LastBlock(hi + 1) = hi \div SLOTS
  BY DEF LastBlock
<1>8. jno.indirect # 0 => jno.size > DIRECT_PTRS * SLOTS
  <2>0. DIRECT_PTRS * SLOTS \in Nat
    BY Constants
  <2>1. CASE vno.indirect # 0
    <3>1. vno.size > DIRECT_PTRS * SLOTS
      BY <2>1 DEF Ready
    <3>. QED  BY <1>2, <1>3, <1>7, <2>0, <3>1
  <2>2. CASE vno.indirect = 0 /\ jno.indirect # 0
    <3>1. hi \div SLOTS >= DIRECT_PTRS
      BY <1>2, <2>2, PointersFacts DEF Completes
    <3>2. hi + 1 > DIRECT_PTRS * SLOTS
      BY <1>7, <3>1, LastBlockFacts
    <3>. QED  BY <1>2, <1>3, <1>7, <2>0, <3>2
  <2>. QED  BY <2>1, <2>2
<1>9. InodeOK(t, i)
  <2>1. GoodInode(t, jno) /\ BlocksOf(t, jno) \cap t.fs.bitmap = {}
    BY <1>2 DEF Carries, Pair
  <2>2. i \in t.fs.inode_bitmap
    BY <1>0, <1>2 DEF InodeOK, Carries, Ready
  <2>. QED  BY <1>4, <1>6, <1>8, <2>1, <2>2 DEF InodeOK
<1>10. Sound(t, X \cup {i})
  BY <1>0, <1>4, <1>5, <1>9, LocalOne
<1>11. FileStep(s, X, i, t)
  <2>1. t.fs.inode_bitmap = s.fs.inode_bitmap
    BY <1>2 DEF Carries, Ready
  <2>. QED  BY <1>0, <1>4, <1>5, <1>6, <1>10, <2>1 DEF FileStep
<1>12. ASSUME NoneLost(s, X), Tight(v, vno), Mine(s, X, i) \subseteq v.fs.bitmap \cup BlocksOf(v, vno)
       PROVE  NoneLost(t, X)
  <2>1. Mine(s, X, i) \subseteq t.fs.bitmap \cup BlocksOf(t, t.inodes[i])
    BY <1>2, <1>4, <1>12 DEF Completes
  <2>2. Tight(t, t.inodes[i])
    <3>1. SUFFICES ASSUME NEW k \in 0..(Limit - 1), Pointers(t, jno)[k] # 0
                   PROVE  k <= LastBlock(jno.size)
      BY <1>4 DEF Tight
    <3>2. LastBlock(vno.size) \in Nat /\ LastBlock(vno.size) <= LastBlock(jno.size)
      <4>1. vno.size <= jno.size
        BY <1>2, <1>3, <1>7
      <4>. QED  BY <1>3, <4>1, LastBlockFacts
    <3>3. LastBlock(hi + 1) \in Nat /\ LastBlock(hi + 1) <= LastBlock(jno.size)
      <4>1. hi + 1 <= jno.size
        BY <1>2, <1>3, <1>7
      <4>2. \A x, y \in Nat : x <= y => LastBlock(x) <= LastBlock(y) /\ LastBlock(x) \in Nat
        BY LastBlockFacts
      <4>. QED  BY <1>3, <1>7, <4>1, <4>2
    <3>4. LastBlock(jno.size) \in Nat
      BY <1>3, LastBlockFacts
    <3>5. CASE Pointers(v, vno)[k] # 0
      <4>1. k <= LastBlock(vno.size)
        BY <1>12, <3>5 DEF Tight
      <4>. QED  BY <3>2, <3>4, <4>1, Constants
    <3>6. CASE Pointers(v, vno)[k] = 0
      <4>1. k <= LastBlock(hi + 1)
        BY <1>2, <1>7, <3>1, <3>6 DEF Completes
      <4>. QED  BY <3>3, <3>4, <4>1, Constants
    <3>. QED  BY <3>5, <3>6
  <2>3. NoneLost(t, X \cup {i})
    BY <1>0, <1>5, <1>12, <2>1, <2>2, LocalNoneLost
  <2>. QED  BY <1>0, <2>3
<1>. QED  BY <1>1, <1>11, <1>12

\* A write that fails where the inode on disk has the pointers it started from.
LEMMA WriteFailStep ==
    ASSUME NEW s, NEW X, Sound(s, X), NEW i \in X, s.inodes[i].type = "file",
           NEW v, NEW vno, Ready(s, X, i, v, vno),
           vno.direct = s.inodes[i].direct, vno.indirect = s.inodes[i].indirect,
           NEW r, NEW val, NEW lo, NEW hi, WriteOutcome(v, vno, i, r, val, lo, hi), ~r.ok
    PROVE  FileStep(s, X, i, r.s) /\ Slots(r.s, r.s.inodes[i]) = Slots(r.s, vno)
<1>0. i \in Inodes /\ s \in Stores /\ InodeOK(s, i) /\ X \cup {i} = X
  BY DEF Sound
<1>1. PICK t, jno : t = r.s /\ jno = r.s.inodes[i]
  OBVIOUS
<1>2. Carries(v, vno, t, vno, val) /\ t.inodes = s.inodes /\ jno = s.inodes[i]
  BY <1>1 DEF WriteOutcome, Ready
<1>3. Local(s, t, X, i) /\ BlocksOf(t, vno) \subseteq Mine(s, X, i)
  BY <1>2, CarriesLocal
<1>4. Pointers(t, jno) = Pointers(t, vno)
  BY <1>2, SamePointers
<1>5. BlocksOf(t, jno) = BlocksOf(t, vno)
  BY <1>4 DEF BlocksOf
<1>6. \A q, c : Unit(t, jno, q, c) = Unit(t, vno, q, c)
  BY <1>4 DEF Unit
<1>7. Slots(t, jno) = Slots(t, vno)
  BY <1>6 DEF Slots
<1>8. InodeOK(t, i)
  <2>1. GoodInode(t, jno) /\ BlocksOf(t, jno) \cap t.fs.bitmap = {}
    BY <1>2, <1>4, <1>5 DEF Carries, Pair, GoodInode
  <2>2. i \in t.fs.inode_bitmap
    BY <1>0, <1>2 DEF InodeOK, Carries, Ready
  <2>. QED  BY <1>0, <1>1, <1>2, <2>1, <2>2 DEF InodeOK
<1>9. Sound(t, X \cup {i})
  BY <1>0, <1>1, <1>3, <1>5, <1>8, LocalOne
<1>10. t.fs.inode_bitmap = s.fs.inode_bitmap
  BY <1>2 DEF Carries, Ready
<1>. QED  BY <1>0, <1>1, <1>2, <1>3, <1>7, <1>9, <1>10 DEF FileStep

LEMMA PayloadFacts ==
    ASSUME NEW f \in Nat, NEW off \in Nat, NEW len \in Nat \ {0}
    PROVE  /\ off + len - 1 \in Nat /\ off <= off + len - 1
           /\ DOMAIN Payload(f, off, len) = off..(off + len - 1)
           /\ \A p \in off..(off + len - 1) : /\ Payload(f, off, len)[p] = Data(f, p)
                                              /\ Payload(f, off, len)[p] \in CellValues
<1>1. \A p \in off..(off + len - 1) : p \in Nat
  OBVIOUS
<1>. QED  BY <1>1, CellFacts DEF Payload

\* What a file holds after a write of its own data.
LEMMA CarriesFile ==
    ASSUME NEW s, NEW ino, NEW t, NEW jno, NEW val, Carries(s, ino, t, jno, val),
           NEW f, \A p \in DOMAIN val : val[p] = Data(f, p),
           NEW wr, FileOK(Slots(s, ino), f, wr)
    PROVE  FileOK(Slots(t, jno), f, wr)
<1>1. \A p \in FilePlaces :
          \/ Slots(t, jno)[p] = Slots(s, ino)[p]
          \/ p \in DOMAIN val /\ Slots(t, jno)[p] = val[p]
  BY DEF Carries
<1>. QED  BY <1>1 DEF FileOK

LEMMA CarriesFileNew ==
    ASSUME NEW s, NEW ino, NEW t, NEW jno, NEW val, Carries(s, ino, t, jno, val),
           NEW f, \A p \in DOMAIN val : val[p] = Data(f, p),
           NEW wr, FileOK(Slots(s, ino), f, wr),
           NEW new, \A p \in new : p \in DOMAIN val /\ Slots(t, jno)[p] = val[p]
    PROVE  FileOK(Slots(t, jno), f, wr \cup new)
<1>1. FileOK(Slots(t, jno), f, wr)
  BY CarriesFile
<1>. QED  BY <1>1 DEF FileOK

LEMMA ReadyOnDisk ==
    ASSUME NEW s, NEW X, Sound(s, X), NEW i \in X
    PROVE  /\ Pair(s, s.inodes[i]) /\ Ready(s, X, i, s, s.inodes[i]) /\ i \in Inodes
           /\ Mine(s, X, i) = s.fs.bitmap \cup BlocksOf(s, s.inodes[i])
<1>1. InodeOK(s, i) /\ s \in Stores /\ i \in Inodes /\ s.inodes[i] \in InodeRecs
  BY StoreFields DEF Sound
<1>2. Pair(s, s.inodes[i])
  BY <1>1 DEF Pair, InodeOK, Sound
<1>3. Mine(s, X, i) = s.fs.bitmap \cup BlocksOf(s, s.inodes[i])
  BY DEF Mine
<1>. QED  BY <1>1, <1>2, <1>3 DEF Ready, InodeOK

LEMMA WriteAtFacts ==
    ASSUME NEW s, NEW X, Sound(s, X), NEW i \in X, s.inodes[i].type = "file",
           NEW f \in Nat, NEW off \in Nat, NEW len \in Nat \ {0},
           NEW r, r = WriteAt(s, i, f, off, len)
    PROVE  /\ r.ok \in BOOLEAN /\ r.full = ~r.ok /\ FileStep(s, X, i, r.s)
           /\ r.ok /\ NoneLost(s, X) => NoneLost(r.s, X)
           /\ \A wr : FileOK(Slots(s, s.inodes[i]), f, wr) =>
                 FileOK(Slots(r.s, r.s.inodes[i]), f, IF r.ok THEN wr \cup off..(off + len - 1) ELSE wr)
<1>1. PICK ino : ino = s.inodes[i]
  OBVIOUS
<1>2. /\ Pair(s, ino) /\ Ready(s, X, i, s, ino) /\ i \in Inodes
      /\ Mine(s, X, i) = s.fs.bitmap \cup BlocksOf(s, ino)
  BY <1>1, ReadyOnDisk
<1>3. PICK val : val = Payload(f, off, len)
  OBVIOUS
<1>h. PICK hi \in Nat : hi = off + len - 1
  OBVIOUS
<1>4. /\ off <= hi /\ DOMAIN val = off..hi /\ \A p \in off..hi : val[p] \in CellValues
      /\ \A p \in DOMAIN val : val[p] = Data(f, p)
  <2>1. /\ off <= off + len - 1 /\ DOMAIN val = off..(off + len - 1)
        /\ \A p \in off..(off + len - 1) : val[p] = Data(f, p) /\ val[p] \in CellValues
    <3>1. /\ DOMAIN Payload(f, off, len) = off..(off + len - 1)
          /\ \A p \in off..(off + len - 1) : /\ Payload(f, off, len)[p] = Data(f, p)
                                             /\ Payload(f, off, len)[p] \in CellValues
      BY PayloadFacts
    <3>2. off <= off + len - 1
      OBVIOUS
    <3>. QED  BY <1>3, <3>1, <3>2
  <2>. QED  BY <1>h, <2>1
<1>5. r = PutInode(WriteInodeData(s, ino, val), i)
  BY <1>1, <1>3 DEF WriteAt
<1>6. WriteOutcome(s, ino, i, r, val, off, hi)
  BY <1>2, <1>4, <1>5, WriteOutcomeFacts
<1>7. CASE r.ok
  <2>1. FileStep(s, X, i, r.s)
    BY <1>2, <1>6, <1>7, WriteOkStep
  <2>2. NoneLost(s, X) => NoneLost(r.s, X)
    <3>1. NoneLost(s, X) => Tight(s, ino)
      BY <1>1 DEF NoneLost
    <3>. QED  BY <1>2, <1>6, <1>7, <3>1, WriteOkStep
  <2>3. /\ Carries(s, ino, r.s, r.s.inodes[i], val)
        /\ \A p \in off..hi : Slots(r.s, r.s.inodes[i])[p] = val[p]
    BY <1>6, <1>7 DEF WriteOutcome
  <2>4. \A wr : FileOK(Slots(s, ino), f, wr) => FileOK(Slots(r.s, r.s.inodes[i]), f, wr \cup off..hi)
    <3>1. PICK t, jno : t = r.s /\ jno = r.s.inodes[i]
      OBVIOUS
    <3>2. Carries(s, ino, t, jno, val) /\ \A p \in off..hi : p \in DOMAIN val /\ Slots(t, jno)[p] = val[p]
      BY <1>4, <2>3, <3>1
    <3>3. ASSUME NEW wr, FileOK(Slots(s, ino), f, wr)  PROVE FileOK(Slots(t, jno), f, wr \cup off..hi)
      <4>1. PICK new : new = off..hi
        OBVIOUS
      <4>2. \A p \in new : p \in DOMAIN val /\ Slots(t, jno)[p] = val[p]
        BY <3>2, <4>1
      <4>3. FileOK(Slots(t, jno), f, wr \cup new)
        <5>1. Carries(s, ino, t, jno, val) /\ \A p \in DOMAIN val : val[p] = Data(f, p)
          BY <1>4, <3>2
        <5>. QED  BY <3>3, <4>2, <5>1, CarriesFileNew
      <4>. QED  BY <4>1, <4>3
    <3>. QED  BY <3>1, <3>3
  <2>. QED  BY <1>1, <1>h, <1>6, <1>7, <2>1, <2>2, <2>4 DEF WriteOutcome
<1>8. CASE ~r.ok
  <2>1. FileStep(s, X, i, r.s) /\ Slots(r.s, r.s.inodes[i]) = Slots(r.s, ino)
    BY <1>1, <1>2, <1>6, <1>8, WriteFailStep
  <2>2. Carries(s, ino, r.s, ino, val)
    BY <1>6, <1>8 DEF WriteOutcome
  <2>3. \A wr : FileOK(Slots(s, ino), f, wr) => FileOK(Slots(r.s, r.s.inodes[i]), f, wr)
    <3>1. PICK t : t = r.s
      OBVIOUS
    <3>2. ASSUME NEW wr, FileOK(Slots(s, ino), f, wr)  PROVE FileOK(Slots(t, ino), f, wr)
      <4>1. Carries(s, ino, t, ino, val)
        BY <2>2, <3>1
      <4>4. \A p \in DOMAIN val : val[p] = Data(f, p)
        BY <1>4
      <4>. QED  BY <3>2, <4>1, <4>4, CarriesFile
    <3>. QED  BY <2>1, <3>1, <3>2
  <2>. QED  BY <1>1, <1>6, <1>8, <2>1, <2>3 DEF WriteOutcome
<1>. QED  BY <1>7, <1>8

\* What a file holds after a cut.
LEMMA CutKeepsFile ==
    ASSUME NEW s, NEW ino, NEW t, NEW jno, NEW size \in Nat, Cut(s, ino, t, jno, size),
           NEW f, NEW wr, FileOK(Slots(s, ino), f, wr)
    PROVE  FileOK(Slots(t, jno), f, {p \in wr : p < size})
<1>1. SUFFICES ASSUME NEW p \in FilePlaces
               PROVE  \/ Slots(t, jno)[p] = Data(f, p)
                      \/ Slots(t, jno)[p] = Zero /\ p \notin {x \in wr : x < size}
  BY DEF FileOK
<1>2. PICK q \in 0..(Limit - 1), c \in 0..(SLOTS - 1) : p = q * SLOTS + c /\ q = p \div SLOTS
  BY PlaceCells
<1>3. Slots(t, jno)[p] = Unit(t, jno, q, c) /\ Slots(s, ino)[p] = Unit(s, ino, q, c)
  BY <1>2, SlotsFacts
<1>4. q \in 0..Limit /\ Pointers(t, jno)[q] \in {0, Pointers(s, ino)[q]} /\ t.blocks = s.blocks
  BY IndexCases DEF Cut
<1>5. CASE Pointers(t, jno)[q] = Pointers(s, ino)[q]
  <2>1. Slots(t, jno)[p] = Slots(s, ino)[p]
    BY <1>3, <1>4, <1>5 DEF Unit
  <2>. QED  BY <2>1 DEF FileOK
<1>6. CASE Pointers(t, jno)[q] # Pointers(s, ino)[q]
  <2>1. Slots(t, jno)[p] = Zero
    BY <1>3, <1>4, <1>6 DEF Unit
  <2>2. ~(q <= LastBlock(size))
    BY <1>6 DEF Cut
  <2>3. ~(p < size)
    <3>1. p \in Nat
      BY PlaceCells
    <3>. QED  BY <1>2, <2>2, <3>1, LastBlockFacts
  <2>. QED  BY <2>1, <2>3
<1>. QED  BY <1>5, <1>6

\* What truncate of a file does: if no block that is in use becomes free, all is as it
\* should be.
CutDone(s, X, i, size, r) ==
    /\ r.ok = TRUE /\ r.full = FALSE
    /\ r.s \in Stores /\ r.s.fs.free_blocks = Cardinality(r.s.fs.bitmap)
    /\ r.s.fs.inode_bitmap = s.fs.inode_bitmap
    /\ \A j \in Inodes : j # i => r.s.inodes[j] = s.inodes[j]
    /\ Local(s, r.s, X, i) /\ r.s.inodes[i].type = "file"
    /\ BlocksOf(r.s, r.s.inodes[i]) \cap r.s.fs.bitmap = {} =>
         /\ FileStep(s, X, i, r.s)
         /\ NoneLost(s, X) => NoneLost(r.s, X)
    /\ \A f, wr : FileOK(Slots(s, s.inodes[i]), f, wr) =>
          FileOK(Slots(r.s, r.s.inodes[i]), f, {p \in wr : p < size})
    /\ LastBlock(size) < DIRECT_PTRS => BlocksOf(r.s, r.s.inodes[i]) \cap r.s.fs.bitmap = {}
LEMMA TruncateFacts ==
    ASSUME NEW s, NEW X, Sound(s, X), NEW i \in X, s.inodes[i].type = "file",
           NEW size \in 0..(Limit * SLOTS), NEW r, r = Truncate(s, i, size)
    PROVE  CutDone(s, X, i, size, r)
<1>1. PICK ino : ino = s.inodes[i]
  OBVIOUS
<1>2. /\ Pair(s, ino) /\ i \in Inodes /\ s \in Stores /\ InodeOK(s, i) /\ X \cup {i} = X
      /\ Mine(s, X, i) = s.fs.bitmap \cup BlocksOf(s, ino)
      /\ s.inodes \in [Inodes -> InodeRecs] /\ size \in Nat
  <2>1. Pair(s, ino) /\ i \in Inodes /\ Mine(s, X, i) = s.fs.bitmap \cup BlocksOf(s, ino)
    BY <1>1, ReadyOnDisk
  <2>2. s \in Stores /\ InodeOK(s, i) /\ X \cup {i} = X
    BY DEF Sound
  <2>3. s.inodes \in [Inodes -> InodeRecs]
    BY <2>2, StoreFields
  <2>. QED  BY <2>1, <2>2, <2>3, Constants
<1>3. PICK w \in Writes : /\ w = TruncateInode(Writing(s, ino), size) /\ w.ok
                          /\ Cut(s, ino, w.s, w.ino, size)
  BY <1>2, TruncateInodeFacts
<1>4. PICK v \in Stores, jno \in InodeRecs : v = w.s /\ jno = w.ino
  BY WriteFields
<1>5. PICK t \in Stores : /\ t = WithInode(v, i, jno) /\ t.inodes = [v.inodes EXCEPT ![i] = jno]
                          /\ t.blocks = v.blocks /\ t.fs = v.fs
  BY <1>2, SetInodeFacts
<1>6. r.s = t /\ r.ok = TRUE /\ r.full = FALSE
  <2>1. r = PutInode(w, i)
    BY <1>1, <1>3 DEF Truncate
  <2>2. r.s = WithInode(w.s, i, w.ino) /\ r.ok = TRUE /\ r.full = FALSE
    <3>1. i \in Inodes /\ w.ok
      BY <1>2, <1>3
    <3>2. /\ PutInode(w, i).s = WithInode(w.s, i, w.ino)
          /\ PutInode(w, i).ok = TRUE /\ PutInode(w, i).full = FALSE
      BY <3>1, PutInodeFacts
    <3>. QED  BY <2>1, <3>2
  <2>. QED  BY <1>4, <1>5, <2>2
<1>7. Cut(s, ino, v, jno, size)
  BY <1>3, <1>4
<1>8. t.inodes[i] = jno /\ \A j \in Inodes : j # i => t.inodes[j] = s.inodes[j]
  <2>1. v.inodes = s.inodes
    BY <1>7 DEF Cut
  <2>. QED  BY <1>2, <1>5, <2>1
<1>9. Pointers(t, jno) = Pointers(v, jno)
  BY <1>5, SamePointers
<1>10. BlocksOf(t, jno) = BlocksOf(v, jno)
  BY <1>9 DEF BlocksOf
<1>11. \A q, c : Unit(t, jno, q, c) = Unit(v, jno, q, c)
  BY <1>5, <1>9 DEF Unit
<1>12. Slots(t, jno) = Slots(v, jno)
  BY <1>11 DEF Slots
<1>13. BlocksOf(t, jno) \subseteq BlocksOf(s, ino)
  <2>1. BlocksOf(v, jno) = {Pointers(v, jno)[k] : k \in 0..Limit} \ {0}
    BY PointersFacts
  <2>2. BlocksOf(s, ino) = {Pointers(s, ino)[k] : k \in 0..Limit} \ {0}
    BY PointersFacts
  <2>3. \A k \in 0..Limit : Pointers(v, jno)[k] \in {0, Pointers(s, ino)[k]}
    BY <1>7 DEF Cut
  <2>. QED  BY <1>10, <2>1, <2>2, <2>3
<1>14. /\ t.fs.free_blocks = Cardinality(t.fs.bitmap) /\ t.fs.inode_bitmap = s.fs.inode_bitmap
       /\ t.blocks = s.blocks /\ t.fs.bitmap \subseteq Mine(s, X, i)
       /\ jno.type = "file"
  BY <1>1, <1>2, <1>5, <1>7 DEF Cut
<1>15. Local(s, t, X, i)
  <2>1. \A j \in X \ {i} : t.inodes[j] = s.inodes[j] /\ j \in t.fs.inode_bitmap
    BY <1>8, <1>14 DEF Sound, InodeOK
  <2>. QED  BY <1>14, <2>1 DEF Local
<1>16. ASSUME BlocksOf(t, jno) \cap t.fs.bitmap = {}
       PROVE  FileStep(s, X, i, t) /\ (NoneLost(s, X) => NoneLost(t, X))
  <2>1. GoodInode(t, jno)
    <3>1. /\ \A k \in 0..Limit : Pointers(s, ino)[k] \in PtrValues
          /\ \A k, m \in 0..Limit :
                Pointers(s, ino)[k] = Pointers(s, ino)[m] /\ Pointers(s, ino)[k] # 0 => k = m
      BY <1>2 DEF Pair, GoodInode
    <3>2. \A k \in 0..Limit : Pointers(t, jno)[k] \in {0, Pointers(s, ino)[k]}
      BY <1>7, <1>9 DEF Cut
    <3>3. \A k \in 0..Limit : Pointers(t, jno)[k] \in PtrValues
      BY <3>1, <3>2 DEF PtrValues
    <3>4. \A k, m \in 0..Limit :
             Pointers(t, jno)[k] = Pointers(t, jno)[m] /\ Pointers(t, jno)[k] # 0 => k = m
      BY <3>1, <3>2
    <3>. QED  BY <3>3, <3>4 DEF GoodInode
  <2>2. jno.indirect # 0 => jno.size > DIRECT_PTRS * SLOTS
    BY <1>1, <1>2, <1>7 DEF Cut, InodeOK
  <2>3. InodeOK(t, i)
    BY <1>2, <1>8, <1>14, <1>16, <2>1, <2>2 DEF InodeOK
  <2>4. BlocksOf(t, t.inodes[i]) \subseteq Mine(s, X, i)
    BY <1>2, <1>8, <1>13
  <2>5. Sound(t, X \cup {i})
    BY <1>2, <1>15, <2>3, <2>4, LocalOne
  <2>6. FileStep(s, X, i, t)
    BY <1>2, <1>8, <1>14, <1>15, <2>5 DEF FileStep
  <2>7. ASSUME NoneLost(s, X)  PROVE NoneLost(t, X)
    <3>1. Tight(s, ino)
      BY <1>1, <2>7 DEF NoneLost
    <3>2. Tight(v, jno) /\ s.fs.bitmap \cup BlocksOf(s, ino) \subseteq v.fs.bitmap \cup BlocksOf(v, jno)
      BY <1>5, <1>7, <1>10, <1>16, <3>1 DEF Cut
    <3>3. Tight(t, t.inodes[i])
      BY <1>8, <1>9, <3>2 DEF Tight
    <3>4. Mine(s, X, i) \subseteq t.fs.bitmap \cup BlocksOf(t, t.inodes[i])
      BY <1>2, <1>5, <1>8, <1>10, <3>2
    <3>5. NoneLost(t, X \cup {i})
      BY <1>2, <1>15, <2>7, <3>3, <3>4, LocalNoneLost
    <3>. QED  BY <1>2, <3>5
  <2>. QED  BY <2>6, <2>7
<1>17. \A f, wr : FileOK(Slots(s, ino), f, wr) => FileOK(Slots(t, jno), f, {p \in wr : p < size})
  BY <1>2, <1>7, <1>12, CutKeepsFile
<1>18. LastBlock(size) < DIRECT_PTRS => BlocksOf(t, jno) \cap t.fs.bitmap = {}
  BY <1>5, <1>7, <1>10 DEF Cut
<1>. QED  BY <1>1, <1>6, <1>8, <1>14, <1>15, <1>16, <1>17, <1>18 DEF CutDone

\* What write_file does: it can only do harm by failing, when the inode on disk still has
\* pointers that the cut in memory has dropped.
RewriteDone(s, X, i, f, len, r) ==
    /\ r.ok \in BOOLEAN /\ r.full = ~r.ok
    /\ r.s \in Stores /\ r.s.fs.free_blocks = Cardinality(r.s.fs.bitmap)
    /\ r.ok => /\ FileStep(s, X, i, r.s)
               /\ NoneLost(s, X) => NoneLost(r.s, X)
               /\ \A wr : FileOK(Slots(s, s.inodes[i]), f, wr) =>
                     FileOK(Slots(r.s, r.s.inodes[i]), f, 0..(len - 1))
    /\ ~r.ok /\ TruncateInode(Writing(s, s.inodes[i]), 0).ino = [s.inodes[i] EXCEPT !.size = 0] =>
         /\ FileStep(s, X, i, r.s)
         /\ \A wr : FileOK(Slots(s, s.inodes[i]), f, wr) => FileOK(Slots(r.s, r.s.inodes[i]), f, wr)
LEMMA WriteFileFacts ==
    ASSUME NEW s, NEW X, Sound(s, X), NEW i \in X, s.inodes[i].type = "file",
           NEW f \in Nat, NEW len \in Nat \ {0}, NEW r, r = WriteFile(s, i, f, len)
    PROVE  RewriteDone(s, X, i, f, len, r)
<1>1. PICK ino : ino = s.inodes[i]
  OBVIOUS
<1>2. /\ Pair(s, ino) /\ i \in Inodes /\ s \in Stores /\ InodeOK(s, i)
      /\ Mine(s, X, i) = s.fs.bitmap \cup BlocksOf(s, ino)
  <2>1. Pair(s, ino) /\ i \in Inodes /\ Mine(s, X, i) = s.fs.bitmap \cup BlocksOf(s, ino)
    BY <1>1, ReadyOnDisk
  <2>. QED  BY <2>1 DEF Sound
<1>3. PICK size \in 0..(Limit * SLOTS) : size = 0 /\ size \in Nat
  BY Constants
<1>4. PICK w \in Writes : /\ w = TruncateInode(Writing(s, ino), size) /\ w.ok
                          /\ Cut(s, ino, w.s, w.ino, size)
  BY <1>2, TruncateInodeFacts
<1>5. PICK v \in Stores, vno \in InodeRecs : v = w.s /\ vno = w.ino
  BY WriteFields
<1>6. Cut(s, ino, v, vno, size)
  BY <1>4, <1>5
<1>7. LastBlock(size) < DIRECT_PTRS
  BY <1>3, Constants DEF LastBlock
<1>8. Ready(s, X, i, v, vno)
  <2>1. BlocksOf(v, vno) \subseteq BlocksOf(s, ino) /\ GoodInode(v, vno)
    <3>1. /\ BlocksOf(v, vno) = {Pointers(v, vno)[k] : k \in 0..Limit} \ {0}
      BY PointersFacts
    <3>2. BlocksOf(s, ino) = {Pointers(s, ino)[k] : k \in 0..Limit} \ {0}
      BY PointersFacts
    <3>3. \A k \in 0..Limit : Pointers(v, vno)[k] \in {0, Pointers(s, ino)[k]}
      BY <1>6 DEF Cut
    <3>4. /\ \A k \in 0..Limit : Pointers(s, ino)[k] \in PtrValues
          /\ \A k, m \in 0..Limit :
                Pointers(s, ino)[k] = Pointers(s, ino)[m] /\ Pointers(s, ino)[k] # 0 => k = m
      BY <1>2 DEF Pair, GoodInode
    <3>5. \A k \in 0..Limit : Pointers(v, vno)[k] \in PtrValues
      BY <3>3, <3>4 DEF PtrValues
    <3>6. \A k, m \in 0..Limit :
             Pointers(v, vno)[k] = Pointers(v, vno)[m] /\ Pointers(v, vno)[k] # 0 => k = m
      BY <3>3, <3>4
    <3>7. BlocksOf(v, vno) \subseteq BlocksOf(s, ino)
      BY <3>1, <3>2, <3>3
    <3>. QED  BY <3>5, <3>6, <3>7 DEF GoodInode
  <2>2. Pair(v, vno)
    BY <1>6, <1>7, <2>1 DEF Cut, Pair
  <2>3. vno.indirect # 0 => vno.size > DIRECT_PTRS * SLOTS
    BY <1>1, <1>2, <1>6 DEF Cut, InodeOK
  <2>. QED  BY <1>1, <1>2, <1>6, <2>1, <2>2, <2>3 DEF Ready, Cut
<1>9. PICK val : val = Payload(f, 0, len)
  OBVIOUS
<1>10. PICK lo \in Nat, hi \in Nat : lo = 0 /\ hi = len - 1
  OBVIOUS
<1>11. lo <= hi /\ DOMAIN val = lo..hi /\ (\A p \in lo..hi : val[p] \in CellValues)
       /\ (\A p \in DOMAIN val : val[p] = Data(f, p))
  <2>1. 0 + len - 1 = hi /\ lo <= hi
    BY <1>10
  <2>2. /\ DOMAIN Payload(f, lo, len) = lo..(lo + len - 1)
        /\ \A p \in lo..(lo + len - 1) : /\ Payload(f, lo, len)[p] = Data(f, p)
                                         /\ Payload(f, lo, len)[p] \in CellValues
    BY PayloadFacts, ZenonT(60)
  <2>. QED  BY <1>9, <1>10, <2>1, <2>2
<1>12. r = PutInode(WriteInodeData(v, vno, val), i)
  BY <1>1, <1>3, <1>4, <1>5, <1>9 DEF WriteFile, Rewrite
<1>13. WriteOutcome(v, vno, i, r, val, lo, hi)
  <2>1. Pair(v, vno)
    BY <1>8 DEF Ready
  <2>. QED  BY <1>2, <1>11, <1>12, <2>1, WriteOutcomeFacts
<1>14. r.ok \in BOOLEAN /\ r.full = ~r.ok
       /\ r.s \in Stores /\ r.s.fs.free_blocks = Cardinality(r.s.fs.bitmap)
  BY <1>13 DEF WriteOutcome, Carries, Pair
<1>15. ASSUME r.ok
       PROVE  /\ FileStep(s, X, i, r.s) /\ (NoneLost(s, X) => NoneLost(r.s, X))
              /\ \A wr : FileOK(Slots(s, ino), f, wr) => FileOK(Slots(r.s, r.s.inodes[i]), f, 0..(len - 1))
  <2>1. FileStep(s, X, i, r.s)
    BY <1>1, <1>8, <1>13, <1>15, WriteOkStep
  <2>2. ASSUME NoneLost(s, X)  PROVE NoneLost(r.s, X)
    <3>1. Tight(s, ino)
      BY <1>1, <2>2 DEF NoneLost
    <3>2. Tight(v, vno) /\ Mine(s, X, i) \subseteq v.fs.bitmap \cup BlocksOf(v, vno)
      BY <1>2, <1>6, <1>7, <3>1 DEF Cut
    <3>. QED  BY <1>1, <1>8, <1>13, <1>15, <2>2, <3>2, WriteOkStep
  <2>3. ASSUME NEW wr, FileOK(Slots(s, ino), f, wr)
        PROVE  FileOK(Slots(r.s, r.s.inodes[i]), f, 0..(len - 1))
    <3>1. FileOK(Slots(v, vno), f, {p \in wr : p < size})
      BY <1>3, <1>6, <2>3, CutKeepsFile
    <3>2. PICK old : old = {} /\ FileOK(Slots(v, vno), f, old)
      <4>1. FileOK(Slots(v, vno), f, {})
        BY <3>1 DEF FileOK
      <4>. QED  BY <4>1
    <3>3. PICK t, jno, new : t = r.s /\ jno = r.s.inodes[i] /\ new = lo..hi
      OBVIOUS
    <3>4. Carries(v, vno, t, jno, val) /\ \A p \in new : p \in DOMAIN val /\ Slots(t, jno)[p] = val[p]
      BY <1>11, <1>13, <1>15, <3>3 DEF WriteOutcome
    <3>5. \A p \in DOMAIN val : val[p] = Data(f, p)
      BY <1>11
    <3>6. FileOK(Slots(t, jno), f, old \cup new)
      BY <3>2, <3>4, <3>5, CarriesFileNew
    <3>7. old \cup new = 0..(len - 1)
      BY <1>10, <3>2, <3>3
    <3>. QED  BY <3>3, <3>6, <3>7
  <2>. QED  BY <2>1, <2>2, <2>3
<1>16. ASSUME ~r.ok, TruncateInode(Writing(s, ino), 0).ino = [ino EXCEPT !.size = 0]
       PROVE  /\ FileStep(s, X, i, r.s)
              /\ \A wr : FileOK(Slots(s, ino), f, wr) => FileOK(Slots(r.s, r.s.inodes[i]), f, wr)
  <2>1. vno.direct = ino.direct /\ vno.indirect = ino.indirect
    <3>1. vno = [ino EXCEPT !.size = 0]
      BY <1>3, <1>4, <1>5, <1>16
    <3>2. ino \in InodeRecs
      BY <1>2 DEF Pair
    <3>. QED  BY <3>1, <3>2 DEF InodeRecs
  <2>2. FileStep(s, X, i, r.s) /\ Slots(r.s, r.s.inodes[i]) = Slots(r.s, vno)
    BY <1>1, <1>8, <1>13, <1>16, <2>1, WriteFailStep
  <2>3. Slots(v, vno) = Slots(s, ino)
    <3>0. v.blocks = s.blocks
      BY <1>6 DEF Cut
    <3>1. Pointers(v, vno) = Pointers(s, ino)
      BY <2>1, <3>0, SamePointers
    <3>2. \A q, c : Unit(v, vno, q, c) = Unit(s, ino, q, c)
      BY <3>0, <3>1 DEF Unit
    <3>. QED  BY <3>2 DEF Slots
  <2>4. ASSUME NEW wr, FileOK(Slots(s, ino), f, wr)  PROVE FileOK(Slots(r.s, r.s.inodes[i]), f, wr)
    <3>1. PICK t : t = r.s
      OBVIOUS
    <3>2. Carries(v, vno, t, vno, val) /\ FileOK(Slots(v, vno), f, wr)
      BY <1>13, <1>16, <2>3, <2>4, <3>1 DEF WriteOutcome
    <3>3. \A p \in DOMAIN val : val[p] = Data(f, p)
      BY <1>11
    <3>4. FileOK(Slots(t, vno), f, wr)
      BY <3>2, <3>3, CarriesFile
    <3>. QED  BY <2>2, <3>1, <3>4
  <2>. QED  BY <2>2, <2>4
<1>. QED  BY <1>1, <1>14, <1>15, <1>16 DEF RewriteDone

-----------------------------------------------------------------------------
(* The tree of directories *)

\* X has the inodes of the tree, D its directories; slot[d] has the entries of directory
\* d by place.  r orders the inodes so that each has its entry in a lower one.
TreeShape(X, D, slot, r) ==
    /\ X \in SUBSET Inodes /\ D \in SUBSET X /\ ROOT_INODE \in D /\ r \in [X -> Nat]
    /\ \A d \in D : slot[d][0] = Entry(".", d)
    /\ \A d \in D : \E u \in X : slot[d][1] = Entry("..", u)
    /\ slot[ROOT_INODE][1] = Entry("..", ROOT_INODE)
    /\ \A d \in D, p \in FilePlaces : p >= 2 =>
          slot[d][p] = Zero \/ \E n \in Names, j \in X \ {ROOT_INODE} : slot[d][p] = Entry(n, j)
    /\ \A d, e \in D, p, q \in FilePlaces, n, m \in Names, j \in X :
          slot[d][p] = Entry(n, j) /\ slot[e][q] = Entry(m, j) => d = e /\ p = q
    /\ \A d \in D, p, q \in FilePlaces, n \in Names, i, j \in X :
          slot[d][p] = Entry(n, i) /\ slot[d][q] = Entry(n, j) => p = q
    /\ \A j \in X \ {ROOT_INODE} : \E d \in D, p \in FilePlaces, n \in Names :
          slot[d][p] = Entry(n, j) /\ r[d] < r[j]
    /\ \A d, j \in D, p \in FilePlaces, n \in Names :
          slot[d][p] = Entry(n, j) => slot[j][1] = Entry("..", d)

LEMMA FirstPlaces ==
    /\ 0 \in FilePlaces /\ 1 \in FilePlaces /\ FilePlaces \in SUBSET Nat
    /\ \A p \in FilePlaces : p >= 2 \/ p = 0 \/ p = 1
<1>1. \A a, b \in Nat : a >= 1 /\ b >= 2 => a * b >= 2
  BY SMTT(30)
<1>2. Limit * SLOTS \in Nat /\ Limit * SLOTS >= 2
  BY <1>1, Constants
<1>. QED  BY <1>2 DEF FilePlaces

LEMMA NameFacts ==
    /\ \A n \in Names : n # "." /\ n # ".."
    /\ \A i, j : Entry(".", i) # Entry("..", j)
    /\ \A n \in Names : \A i, j : Entry(n, i) # Entry(".", j) /\ Entry(n, i) # Entry("..", j)
<1>1. \A n \in Names : n # "." /\ n # ".."
  BY Constants
<1>2. "." # ".."
  OBVIOUS
<1>. QED  BY <1>1, <1>2, CellFacts

\* The entry of a name lies behind "." and "..", and its inode is not the root.
LEMMA NamedEntry ==
    ASSUME NEW X, NEW D, NEW slot, NEW r, TreeShape(X, D, slot, r),
           NEW d \in D, NEW p \in FilePlaces, NEW n \in Names, NEW j, slot[d][p] = Entry(n, j)
    PROVE  p >= 2 /\ j \in X /\ j # ROOT_INODE
<1>1. p # 0
  BY NameFacts DEF TreeShape
<1>2. p # 1
  <2>1. PICK u \in X : slot[d][1] = Entry("..", u)
    BY DEF TreeShape
  <2>. QED  BY <2>1, NameFacts
<1>3. p >= 2
  BY <1>1, <1>2, FirstPlaces
<1>4. PICK m \in Names, i \in X \ {ROOT_INODE} : slot[d][p] = Entry(m, i)
  BY <1>3, CellFacts DEF TreeShape
<1>5. Entry(m, i) = Entry(n, j)
  BY <1>4
<1>6. i = j
  BY <1>5 DEF Entry
<1>. QED  BY <1>3, <1>4, <1>6

LEMMA ShapeAdd ==
    ASSUME NEW X, NEW D, NEW slot, NEW r, TreeShape(X, D, slot, r),
           NEW d \in D, NEW p \in FilePlaces, p >= 2, slot[d][p] = Zero, NEW n \in Names,
           \A q \in FilePlaces, j \in X : slot[d][q] # Entry(n, j),
           NEW i \in Inodes, i \notin X, NEW E, E \in {D, D \cup {i}}, NEW slot2,
           \A e \in D, q \in FilePlaces :
              slot2[e][q] = IF e = d /\ q = p THEN Entry(n, i) ELSE slot[e][q],
           i \in E => slot2[i][0] = Entry(".", i) /\ slot2[i][1] = Entry("..", d),
           i \in E => \A q \in FilePlaces : q >= 2 => slot2[i][q] = Zero
    PROVE  TreeShape(X \cup {i}, E, slot2, [j \in X \cup {i} |-> IF j = i THEN r[d] + 1 ELSE r[j]])
<1>. DEFINE Y  == X \cup {i}
            r2 == [j \in Y |-> IF j = i THEN r[d] + 1 ELSE r[j]]
<1>0. X \in SUBSET Inodes /\ D \in SUBSET X /\ ROOT_INODE \in D /\ r \in [X -> Nat]
  BY DEF TreeShape
<1>1. Y \in SUBSET Inodes /\ E \in SUBSET Y /\ ROOT_INODE \in E /\ r2 \in [Y -> Nat] /\ i \notin D
      /\ ROOT_INODE # i
  BY <1>0
<1>2. 0 \in FilePlaces /\ 1 \in FilePlaces /\ p # 0 /\ p # 1 /\ FilePlaces \in SUBSET Nat
  BY FirstPlaces
<1>3. \A e \in D : slot2[e][0] = slot[e][0] /\ slot2[e][1] = slot[e][1]
  BY <1>2
<1>4. \A e \in E : e = i \/ e \in D
  OBVIOUS
<1>5. \A e \in D, q \in FilePlaces, m \in Names : \A j :
         slot2[e][q] = Entry(m, j) => (e = d /\ q = p /\ m = n /\ j = i) \/ (slot[e][q] = Entry(m, j) /\ j # i)
  <2>1. SUFFICES ASSUME NEW e \in D, NEW q \in FilePlaces, NEW m \in Names, NEW j,
                        slot2[e][q] = Entry(m, j), ~(e = d /\ q = p)
                 PROVE  slot[e][q] = Entry(m, j) /\ j # i
    BY CellFacts
  <2>2. slot[e][q] = Entry(m, j)
    BY <2>1
  <2>3. j \in X
    BY <2>2, NamedEntry
  <2>. QED  BY <2>2, <2>3
<1>6. i \in E => \A q \in FilePlaces, m \in Names : \A j : slot2[i][q] # Entry(m, j)
  <2>1. SUFFICES ASSUME i \in E, NEW q \in FilePlaces, NEW m \in Names, NEW j, slot2[i][q] = Entry(m, j)
                 PROVE  FALSE
    OBVIOUS
  <2>2. q = 0 \/ q = 1 \/ q >= 2
    BY FirstPlaces
  <2>. QED  BY <2>1, <2>2, NameFacts, CellFacts
<1>7. \A e \in E : slot2[e][0] = Entry(".", e)
  BY <1>3, <1>4 DEF TreeShape
<1>8. \A e \in E : \E u \in Y : slot2[e][1] = Entry("..", u)
  <2>1. \A e \in D : \E u \in X : slot2[e][1] = Entry("..", u)
    BY <1>3, SMTT(60) DEF TreeShape
  <2>2. d \in Y
    BY <1>0
  <2>. QED  BY <1>4, <2>1, <2>2
<1>9. slot2[ROOT_INODE][1] = Entry("..", ROOT_INODE)
  BY <1>0, <1>3 DEF TreeShape
<1>10. ASSUME NEW e \in E, NEW q \in FilePlaces, q >= 2
       PROVE  slot2[e][q] = Zero \/ \E m \in Names, j \in Y \ {ROOT_INODE} : slot2[e][q] = Entry(m, j)
  <2>1. CASE e = i
    BY <1>10, <2>1
  <2>2. CASE e = d /\ q = p
    <3>1. slot2[e][q] = Entry(n, i) /\ i \in Y \ {ROOT_INODE}
      BY <1>1, <2>2
    <3>. QED  BY <3>1
  <2>3. CASE e # i /\ ~(e = d /\ q = p)
    <3>1. e \in D /\ slot2[e][q] = slot[e][q]
      BY <1>4, <2>3
    <3>2. slot[e][q] = Zero \/ \E m \in Names, j \in X \ {ROOT_INODE} : slot[e][q] = Entry(m, j)
      BY <1>10, <3>1 DEF TreeShape
    <3>. QED  BY <3>1, <3>2
  <2>. QED  BY <2>1, <2>2, <2>3
<1>11. ASSUME NEW e1 \in E, NEW e2 \in E, NEW p1 \in FilePlaces, NEW p2 \in FilePlaces, NEW m1 \in Names,
              NEW m2 \in Names, NEW j \in Y, slot2[e1][p1] = Entry(m1, j), slot2[e2][p2] = Entry(m2, j)
       PROVE  e1 = e2 /\ p1 = p2
  <2>1. e1 \in D /\ e2 \in D
    BY <1>4, <1>6, <1>11
  <2>2. CASE j = i
    BY <1>5, <1>11, <2>1, <2>2
  <2>3. CASE j # i
    <3>1. slot[e1][p1] = Entry(m1, j) /\ slot[e2][p2] = Entry(m2, j) /\ j \in X
      BY <1>5, <1>11, <2>1, <2>3
    <3>. QED  BY <2>1, <3>1 DEF TreeShape
  <2>. QED  BY <2>2, <2>3
<1>12. ASSUME NEW e \in E, NEW p1 \in FilePlaces, NEW p2 \in FilePlaces, NEW m \in Names,
              NEW i1 \in Y, NEW i2 \in Y, slot2[e][p1] = Entry(m, i1), slot2[e][p2] = Entry(m, i2)
       PROVE  p1 = p2
  <2>1. e \in D
    BY <1>4, <1>6, <1>12
  <2>2. (e = d /\ p1 = p /\ m = n) \/ (slot[e][p1] = Entry(m, i1) /\ i1 \in X)
    BY <1>5, <1>12, <2>1
  <2>3. (e = d /\ p2 = p /\ m = n) \/ (slot[e][p2] = Entry(m, i2) /\ i2 \in X)
    BY <1>5, <1>12, <2>1
  <2>4. CASE slot[e][p1] = Entry(m, i1) /\ i1 \in X /\ slot[e][p2] = Entry(m, i2) /\ i2 \in X
    BY <2>1, <2>4 DEF TreeShape
  <2>. QED  BY <2>2, <2>3, <2>4
<1>13. ASSUME NEW j \in Y \ {ROOT_INODE}
       PROVE  \E e \in E, q \in FilePlaces, m \in Names : slot2[e][q] = Entry(m, j) /\ r2[e] < r2[j]
  <2>1. CASE j = i
    <3>1. d \in E /\ d # i /\ d \in Y /\ slot2[d][p] = Entry(n, j)
      BY <1>0, <2>1
    <3>2. r2[d] = r[d] /\ r2[j] = r[d] + 1 /\ r[d] \in Nat
      BY <1>0, <2>1, <3>1
    <3>. HIDE DEF r2
    <3>3. r2[d] < r2[j]
      BY <3>2
    <3>. QED  BY <3>1, <3>3
  <2>2. CASE j # i
    <3>1. j \in X \ {ROOT_INODE}
      BY <2>2
    <3>2. PICK e \in D, q \in FilePlaces, m \in Names : slot[e][q] = Entry(m, j) /\ r[e] < r[j]
      BY <3>1 DEF TreeShape
    <3>3. ~(e = d /\ q = p)
      BY <3>2, CellFacts
    <3>4. slot2[e][q] = Entry(m, j) /\ e \in E
      BY <3>2, <3>3
    <3>5. r2[e] = r[e] /\ r2[j] = r[j]
      BY <1>0, <3>1, <2>2
    <3>. HIDE DEF r2
    <3>. QED  BY <3>2, <3>4, <3>5
  <2>. QED  BY <2>1, <2>2
<1>14. ASSUME NEW e \in E, NEW j \in E, NEW q \in FilePlaces, NEW m \in Names, slot2[e][q] = Entry(m, j)
       PROVE  slot2[j][1] = Entry("..", e)
  <2>1. e \in D
    BY <1>4, <1>6, <1>14
  <2>2. CASE j = i
    <3>1. e = d
      BY <1>5, <1>14, <2>1, <2>2
    <3>. QED  BY <2>2, <3>1
  <2>3. CASE j # i
    <3>1. slot[e][q] = Entry(m, j) /\ j \in D
      BY <1>4, <1>5, <1>14, <2>1, <2>3
    <3>2. slot[j][1] = Entry("..", e)
      BY <2>1, <3>1 DEF TreeShape
    <3>. QED  BY <1>3, <3>1, <3>2
  <2>. QED  BY <2>2, <2>3
<1>. HIDE DEF Y, r2
<1>15. TreeShape(Y, E, slot2, r2)
  BY <1>1, <1>7, <1>8, <1>9, <1>10, <1>11, <1>12, <1>13, <1>14 DEF TreeShape
<1>. QED  BY <1>15 DEF Y, r2

LEMMA ShapeRemove ==
    ASSUME NEW X, NEW D, NEW slot, NEW r, TreeShape(X, D, slot, r),
           NEW d \in D, NEW p \in FilePlaces, NEW n \in Names, NEW i, slot[d][p] = Entry(n, i),
           i \in D => \A q \in FilePlaces : q >= 2 => slot[i][q] = Zero, NEW slot2,
           \A e \in D, q \in FilePlaces : e # i =>
              slot2[e][q] = IF e = d /\ q = p THEN Zero ELSE slot[e][q]
    PROVE  TreeShape(X \ {i}, D \ {i}, slot2, [j \in X \ {i} |-> r[j]])
<1>. DEFINE Y  == X \ {i}
            E  == D \ {i}
            r2 == [j \in Y |-> r[j]]
<1>0. X \in SUBSET Inodes /\ D \in SUBSET X /\ ROOT_INODE \in D /\ r \in [X -> Nat]
  BY DEF TreeShape
<1>1. p >= 2 /\ i \in X /\ i # ROOT_INODE
  BY NamedEntry
<1>2. 0 \in FilePlaces /\ 1 \in FilePlaces /\ p # 0 /\ p # 1 /\ FilePlaces \in SUBSET Nat
  BY <1>1, FirstPlaces
<1>3. Y \in SUBSET Inodes /\ E \in SUBSET Y /\ ROOT_INODE \in E /\ r2 \in [Y -> Nat]
  BY <1>0, <1>1
<1>4. \A e \in E : slot2[e][0] = slot[e][0] /\ slot2[e][1] = slot[e][1]
  BY <1>2
<1>5. \A e \in E, q \in FilePlaces, m \in Names : \A j :
         slot2[e][q] = Entry(m, j) => slot[e][q] = Entry(m, j)
  BY CellFacts
<1>6. \A q \in FilePlaces, m \in Names : \A j : i \in D => slot[i][q] # Entry(m, j)
  <2>1. SUFFICES ASSUME i \in D, NEW q \in FilePlaces, NEW m \in Names, NEW j, slot[i][q] = Entry(m, j)
                 PROVE  FALSE
    OBVIOUS
  <2>2. q >= 2
    BY <2>1, NamedEntry
  <2>. QED  BY <2>1, <2>2, CellFacts
<1>7. \A e \in E : slot2[e][0] = Entry(".", e)
  BY <1>4 DEF TreeShape
<1>8. slot2[ROOT_INODE][1] = Entry("..", ROOT_INODE)
  BY <1>3, <1>4 DEF TreeShape
<1>9. ASSUME NEW e \in E  PROVE \E u \in Y : slot2[e][1] = Entry("..", u)
  <2>1. CASE e = ROOT_INODE
    BY <1>3, <1>8, <2>1
  <2>2. CASE e # ROOT_INODE
    <3>1. e \in X \ {ROOT_INODE} /\ e \in D
      BY <1>0, <2>2
    <3>2. PICK u \in D, q \in FilePlaces, m \in Names : slot[u][q] = Entry(m, e)
      BY <3>1 DEF TreeShape
    <3>3. u # i
      BY <1>6, <3>2
    <3>4. slot[e][1] = Entry("..", u)
      BY <3>1, <3>2 DEF TreeShape
    <3>. QED  BY <1>0, <1>4, <3>2, <3>3, <3>4
  <2>. QED  BY <2>1, <2>2
<1>10. ASSUME NEW e \in E, NEW q \in FilePlaces, q >= 2
       PROVE  slot2[e][q] = Zero \/ \E m \in Names, j \in Y \ {ROOT_INODE} : slot2[e][q] = Entry(m, j)
  <2>1. CASE e = d /\ q = p
    BY <2>1
  <2>2. CASE ~(e = d /\ q = p) /\ slot[e][q] = Zero
    BY <2>2
  <2>3. CASE ~(e = d /\ q = p) /\ slot[e][q] # Zero
    <3>1. slot2[e][q] = slot[e][q]
      BY <2>3
    <3>2. PICK m \in Names, j \in X \ {ROOT_INODE} : slot[e][q] = Entry(m, j)
      BY <1>10, <2>3 DEF TreeShape
    <3>3. j # i
      BY <1>1, <2>3, <3>2 DEF TreeShape
    <3>. QED  BY <3>1, <3>2, <3>3
  <2>. QED  BY <2>1, <2>2, <2>3
<1>11. ASSUME NEW e1 \in E, NEW e2 \in E, NEW p1 \in FilePlaces, NEW p2 \in FilePlaces, NEW m1 \in Names,
              NEW m2 \in Names, NEW j \in Y, slot2[e1][p1] = Entry(m1, j), slot2[e2][p2] = Entry(m2, j)
       PROVE  e1 = e2 /\ p1 = p2
  <2>1. slot[e1][p1] = Entry(m1, j) /\ slot[e2][p2] = Entry(m2, j) /\ j \in X
    BY <1>5, <1>11
  <2>. QED  BY <2>1 DEF TreeShape
<1>12. ASSUME NEW e \in E, NEW p1 \in FilePlaces, NEW p2 \in FilePlaces, NEW m \in Names,
              NEW i1 \in Y, NEW i2 \in Y, slot2[e][p1] = Entry(m, i1), slot2[e][p2] = Entry(m, i2)
       PROVE  p1 = p2
  <2>1. slot[e][p1] = Entry(m, i1) /\ slot[e][p2] = Entry(m, i2) /\ i1 \in X /\ i2 \in X
    BY <1>5, <1>12
  <2>. QED  BY <2>1 DEF TreeShape
<1>13. ASSUME NEW j \in Y \ {ROOT_INODE}
       PROVE  \E e \in E, q \in FilePlaces, m \in Names : slot2[e][q] = Entry(m, j) /\ r2[e] < r2[j]
  <2>1. PICK e \in D, q \in FilePlaces, m \in Names : slot[e][q] = Entry(m, j) /\ r[e] < r[j]
    BY DEF TreeShape
  <2>2. e # i
    BY <1>6, <2>1
  <2>3. ~(e = d /\ q = p)
    <3>1. SUFFICES ASSUME e = d, q = p  PROVE FALSE
      OBVIOUS
    <3>2. Entry(m, j) = Entry(n, i)
      BY <2>1, <3>1
    <3>3. j = i
      BY <3>2 DEF Entry
    <3>. QED  BY <3>3
  <2>4. slot2[e][q] = Entry(m, j) /\ e \in E
    BY <2>1, <2>2, <2>3
  <2>5. r2[e] = r[e] /\ r2[j] = r[j]
    BY <1>0, <2>2
  <2>. HIDE DEF r2
  <2>. QED  BY <2>1, <2>4, <2>5
<1>14. ASSUME NEW e \in E, NEW j \in E, NEW q \in FilePlaces, NEW m \in Names, slot2[e][q] = Entry(m, j)
       PROVE  slot2[j][1] = Entry("..", e)
  <2>1. slot[e][q] = Entry(m, j)
    BY <1>5, <1>14
  <2>2. slot[j][1] = Entry("..", e)
    BY <2>1 DEF TreeShape
  <2>. QED  BY <1>4, <2>2
<1>. HIDE DEF Y, E, r2
<1>15. TreeShape(Y, E, slot2, r2)
  BY <1>3, <1>7, <1>8, <1>9, <1>10, <1>11, <1>12, <1>13, <1>14 DEF TreeShape
<1>. QED  BY <1>15 DEF Y, E, r2

\* An entry moves to a slot that is not used.
LEMMA ShapeMove ==
    ASSUME NEW X, NEW D, NEW slot, NEW r, TreeShape(X, D, slot, r),
           NEW d \in D, NEW p \in FilePlaces, NEW n \in Names, NEW i, slot[d][p] = Entry(n, i),
           NEW to \in FilePlaces, to >= 2, to = p \/ slot[d][to] = Zero, NEW slot2,
           \A e \in D, q \in FilePlaces :
              slot2[e][q] = IF e = d /\ q = to THEN Entry(n, i)
                            ELSE IF e = d /\ q = p THEN Zero ELSE slot[e][q]
    PROVE  TreeShape(X, D, slot2, r)
<1>0. X \in SUBSET Inodes /\ D \in SUBSET X /\ ROOT_INODE \in D /\ r \in [X -> Nat]
  BY DEF TreeShape
<1>1. p >= 2 /\ i \in X /\ i # ROOT_INODE
  BY NamedEntry
<1>2. 0 \in FilePlaces /\ 1 \in FilePlaces /\ p # 0 /\ p # 1 /\ to # 0 /\ to # 1 /\ FilePlaces \in SUBSET Nat
  BY <1>1, FirstPlaces
<1>4. \A e \in D : slot2[e][0] = slot[e][0] /\ slot2[e][1] = slot[e][1]
  BY <1>2
<1>. DEFINE Back(e, q) == IF e = d /\ q = to THEN p ELSE q
<1>5. \A e \in D, q \in FilePlaces, m \in Names : \A j :
         slot2[e][q] = Entry(m, j) => slot[e][Back(e, q)] = Entry(m, j) /\ Back(e, q) \in FilePlaces
  BY CellFacts
<1>6. \A e \in D, p1, p2 \in FilePlaces, m1, m2 \in Names : \A j1, j2 :
         /\ slot2[e][p1] = Entry(m1, j1) /\ slot2[e][p2] = Entry(m2, j2)
         /\ Back(e, p1) = Back(e, p2)
         => p1 = p2
  <2>1. \A q \in FilePlaces, m \in Names : \A j : slot2[d][q] = Entry(m, j) /\ q # to => q # p
    BY CellFacts
  <2>. QED  BY <2>1
<1>. HIDE DEF Back
<1>7. \A e \in D : slot2[e][0] = Entry(".", e)
  BY <1>4 DEF TreeShape
<1>8. slot2[ROOT_INODE][1] = Entry("..", ROOT_INODE)
  BY <1>0, <1>4 DEF TreeShape
<1>9. \A e \in D : \E u \in X : slot2[e][1] = Entry("..", u)
  BY <1>4, SMTT(60) DEF TreeShape
<1>10. ASSUME NEW e \in D, NEW q \in FilePlaces, q >= 2
       PROVE  slot2[e][q] = Zero \/ \E m \in Names, j \in X \ {ROOT_INODE} : slot2[e][q] = Entry(m, j)
  <2>1. CASE e = d /\ q = to
    BY <1>1, <2>1
  <2>2. CASE ~(e = d /\ q = to) /\ e = d /\ q = p
    BY <2>2
  <2>3. CASE ~(e = d /\ q = to) /\ ~(e = d /\ q = p)
    <3>1. slot2[e][q] = slot[e][q]
      BY <2>3
    <3>. QED  BY <1>10, <3>1 DEF TreeShape
  <2>. QED  BY <2>1, <2>2, <2>3
<1>11. ASSUME NEW e1 \in D, NEW e2 \in D, NEW p1 \in FilePlaces, NEW p2 \in FilePlaces, NEW m1 \in Names,
              NEW m2 \in Names, NEW j \in X, slot2[e1][p1] = Entry(m1, j), slot2[e2][p2] = Entry(m2, j)
       PROVE  e1 = e2 /\ p1 = p2
  <2>1. /\ slot[e1][Back(e1, p1)] = Entry(m1, j) /\ Back(e1, p1) \in FilePlaces
        /\ slot[e2][Back(e2, p2)] = Entry(m2, j) /\ Back(e2, p2) \in FilePlaces
    BY <1>5, <1>11
  <2>2. e1 = e2 /\ Back(e1, p1) = Back(e2, p2)
    BY <2>1 DEF TreeShape
  <2>. QED  BY <1>6, <1>11, <2>2
<1>12. ASSUME NEW e \in D, NEW p1 \in FilePlaces, NEW p2 \in FilePlaces, NEW m \in Names,
              NEW i1 \in X, NEW i2 \in X, slot2[e][p1] = Entry(m, i1), slot2[e][p2] = Entry(m, i2)
       PROVE  p1 = p2
  <2>1. /\ slot[e][Back(e, p1)] = Entry(m, i1) /\ Back(e, p1) \in FilePlaces
        /\ slot[e][Back(e, p2)] = Entry(m, i2) /\ Back(e, p2) \in FilePlaces
    BY <1>5, <1>12
  <2>2. Back(e, p1) = Back(e, p2)
    BY <2>1 DEF TreeShape
  <2>. QED  BY <1>6, <1>12, <2>2
<1>13. ASSUME NEW j \in X \ {ROOT_INODE}
       PROVE  \E e \in D, q \in FilePlaces, m \in Names : slot2[e][q] = Entry(m, j) /\ r[e] < r[j]
  <2>1. PICK e \in D, q \in FilePlaces, m \in Names : slot[e][q] = Entry(m, j) /\ r[e] < r[j]
    BY DEF TreeShape
  <2>2. CASE e = d /\ q = p
    <3>1. Entry(m, j) = Entry(n, i)
      BY <2>1, <2>2
    <3>2. slot2[d][to] = Entry(m, j)
      BY <3>1
    <3>. QED  BY <2>1, <2>2, <3>2
  <2>3. CASE ~(e = d /\ q = p)
    <3>1. ~(e = d /\ q = to)
      BY <2>1, <2>3, CellFacts
    <3>2. slot2[e][q] = Entry(m, j)
      BY <2>1, <2>3, <3>1
    <3>. QED  BY <2>1, <3>2
  <2>. QED  BY <2>2, <2>3
<1>14. ASSUME NEW e \in D, NEW j \in D, NEW q \in FilePlaces, NEW m \in Names, slot2[e][q] = Entry(m, j)
       PROVE  slot2[j][1] = Entry("..", e)
  <2>1. slot[e][Back(e, q)] = Entry(m, j) /\ Back(e, q) \in FilePlaces
    BY <1>5, <1>14
  <2>2. slot[j][1] = Entry("..", e)
    BY <2>1 DEF TreeShape
  <2>. QED  BY <1>4, <2>2
<1>. QED  BY <1>0, <1>7, <1>8, <1>9, <1>10, <1>11, <1>12, <1>13, <1>14, SMTT(60) DEF TreeShape

-----------------------------------------------------------------------------
(* What a path can name *)

\* The inodes at a depth of at most 0, 1, ..., m.
IsDescent(L, s, m) ==
    L = [n \in 0..m |-> IF n = 0 THEN {ROOT_INODE}
                        ELSE L[n - 1] \cup UNION {Kids(s, d) : d \in L[n - 1]}]

LEMMA DescentExists ==
    ASSUME NEW s, NEW last \in Nat
    PROVE  \E L : IsDescent(L, s, last)
<1>. DEFINE Bad == {m \in Nat : ~ \E L : IsDescent(L, s, m)}
<1>1. SUFFICES ASSUME Bad # {}  PROVE FALSE
  OBVIOUS
<1>2. Min(Bad) \in Bad /\ \A m \in Bad : Min(Bad) <= m
  <2>1. Bad \in SUBSET Nat
    OBVIOUS
  <2>. HIDE DEF Bad
  <2>. QED  BY <1>1, <2>1, MinIn
<1>3. PICK m \in Nat : m \in Bad /\ \A x \in Bad : m <= x
  BY <1>2
<1>4. CASE m = 0
  <2>. DEFINE g == [n \in 0..m |-> {ROOT_INODE}]
  <2>1. g = [n \in 0..m |-> IF n = 0 THEN {ROOT_INODE}
                            ELSE g[n - 1] \cup UNION {Kids(s, d) : d \in g[n - 1]}]
    <3>1. \A n \in 0..m : n = 0
      BY <1>4
    <3>. QED  BY <3>1
  <2>. HIDE DEF g
  <2>2. IsDescent(g, s, m)
    BY <2>1 DEF IsDescent
  <2>. QED  BY <1>3, <2>2
<1>5. CASE m # 0
  <2>1. m - 1 \in Nat /\ m - 1 \notin Bad
    BY <1>3, <1>5
  <2>2. PICK L : IsDescent(L, s, m - 1)
    BY <2>1
  <2>3. \A n \in 0..(m - 1) : L[n] = IF n = 0 THEN {ROOT_INODE}
                                      ELSE L[n - 1] \cup UNION {Kids(s, d) : d \in L[n - 1]}
    BY <2>2 DEF IsDescent
  <2>. DEFINE g == [n \in 0..m |-> IF n = m THEN L[m - 1] \cup UNION {Kids(s, d) : d \in L[m - 1]}
                                   ELSE L[n]]
  <2>4. \A n \in 0..m : g[n] = IF n = 0 THEN {ROOT_INODE}
                                ELSE g[n - 1] \cup UNION {Kids(s, d) : d \in g[n - 1]}
    <3>. SUFFICES ASSUME NEW n \in 0..m
                  PROVE  g[n] = IF n = 0 THEN {ROOT_INODE}
                                ELSE g[n - 1] \cup UNION {Kids(s, d) : d \in g[n - 1]}
      OBVIOUS
    <3>1. CASE n = m
      <4>1. m - 1 \in 0..m /\ m - 1 # m
        BY <2>1
      <4>2. g[m - 1] = L[m - 1]
        BY <4>1
      <4>. QED  BY <1>5, <3>1, <4>2
    <3>2. CASE n # m
      <4>1. n \in 0..(m - 1) /\ (n # 0 => n - 1 \in 0..m /\ n - 1 # m)
        BY <3>2
      <4>2. g[n] = L[n] /\ (n # 0 => g[n - 1] = L[n - 1])
        BY <3>2, <4>1
      <4>. QED  BY <2>3, <4>1, <4>2
    <3>. QED  BY <3>1, <3>2
  <2>5. g = [n \in 0..m |-> g[n]]
    OBVIOUS
  <2>. HIDE DEF g
  <2>6. IsDescent(g, s, m)
    BY <2>4, <2>5 DEF IsDescent
  <2>. QED  BY <1>3, <2>6
<1>. QED  BY <1>4, <1>5

LEMMA LinkedDescent ==
    ASSUME NEW s
    PROVE  \E L : IsDescent(L, s, INODES) /\ LinkedIn(s) = L[INODES - 2]
<1>. DEFINE L == CHOOSE L : IsDescent(L, s, INODES)
<1>1. \E K : IsDescent(K, s, INODES)
  BY DescentExists, Constants
<1>2. IsDescent(L, s, INODES)
  BY <1>1
<1>3. LinkedIn(s) = L[INODES - 2]
  BY DEF LinkedIn, IsDescent
<1>. QED  BY <1>2, <1>3

\* A set that is closed, and in which the root leads to every inode, is what a path can name.
LEMMA LinkedClosed ==
    ASSUME NEW s, NEW X \in SUBSET Inodes, ROOT_INODE \in X, \A d \in X : Kids(s, d) \in SUBSET X,
           NEW r \in [X -> Nat],
           \A j \in X \ {ROOT_INODE} : \E d \in X : j \in Kids(s, d) /\ r[d] < r[j]
    PROVE  LinkedIn(s) = X
<1>1. PICK L : IsDescent(L, s, INODES) /\ LinkedIn(s) = L[INODES - 2]
  BY LinkedDescent
<1>2. \A n \in 0..INODES : L[n] = IF n = 0 THEN {ROOT_INODE}
                                   ELSE L[n - 1] \cup UNION {Kids(s, d) : d \in L[n - 1]}
  BY <1>1 DEF IsDescent
<1>c. INODES \in Nat /\ INODES > 1 /\ IsFiniteSet(Inodes) /\ Cardinality(Inodes) = INODES - 1
  BY Constants
<1>. DEFINE Good(n) == L[n] \in SUBSET X /\ (X \in SUBSET L[n] \/ Cardinality(L[n]) >= n + 1)
            Bad     == {n \in 0..INODES : ~Good(n)}
<1>3. Good(0)
  <2>0. 0 \in 0..INODES
    BY <1>c
  <2>1. L[0] = {ROOT_INODE}
    BY <1>2, <2>0
  <2>2. Cardinality({ROOT_INODE}) = 1
    BY FS_Singleton
  <2>. QED  BY <2>1, <2>2
<1>4. ASSUME NEW n \in 0..INODES, n + 1 \in 0..INODES, Good(n)  PROVE Good(n + 1)
  <2>1. L[n + 1] = L[n] \cup UNION {Kids(s, d) : d \in L[n]}
    <3>1. n + 1 # 0 /\ (n + 1) - 1 = n
      BY <1>4
    <3>. QED  BY <1>2, <1>4, <3>1
  <2>2. L[n + 1] \in SUBSET X
    BY <1>4, <2>1
  <2>3. CASE X \in SUBSET L[n]
    BY <2>1, <2>2, <2>3
  <2>4. CASE ~(X \in SUBSET L[n])
    <3>. DEFINE R == {r[j] : j \in X \ L[n]}
    <3>1. R \in SUBSET Nat /\ R # {}
      BY <2>4
    <3>. HIDE DEF R
    <3>2. Min(R) \in R /\ \A k \in R : Min(R) <= k
      BY <3>1, MinIn
    <3>3. PICK j \in X \ L[n] : \A i \in X \ L[n] : r[j] <= r[i]
      <4>1. PICK j \in X \ L[n] : r[j] = Min(R)
        BY <3>2 DEF R
      <4>2. \A i \in X \ L[n] : r[i] \in R
        BY DEF R
      <4>3. \A i \in X \ L[n] : r[j] <= r[i]
        BY <3>2, <4>1, <4>2
      <4>. QED  BY <4>3
    <3>4. ROOT_INODE \in L[n]
      <4>. DEFINE No == {m \in 0..INODES : ROOT_INODE \notin L[m]}
      <4>1. SUFFICES ASSUME No # {}  PROVE FALSE
        OBVIOUS
      <4>2. No \in SUBSET Nat
        BY <1>c
      <4>3. Min(No) \in No /\ \A k \in No : Min(No) <= k
        <5>. HIDE DEF No
        <5>. QED  BY <4>1, <4>2, MinIn
      <4>4. PICK m \in 0..INODES : m \in No /\ \A k \in No : m <= k
        BY <4>3
      <4>5. m # 0
        BY <1>2, <4>4
      <4>6. m - 1 \in 0..INODES /\ m - 1 \notin No
        BY <1>c, <4>4, <4>5
      <4>. QED  BY <1>2, <4>4, <4>5, <4>6
    <3>5. PICK d \in X : j \in Kids(s, d) /\ r[d] < r[j]
      BY <3>3, <3>4
    <3>6. d \in L[n]
      <4>1. r[d] \in Nat /\ r[j] \in Nat
        BY <3>3
      <4>. QED  BY <3>3, <3>5, <4>1
    <3>7. j \in L[n + 1]
      BY <2>1, <3>5, <3>6
    <3>8. IsFiniteSet(L[n + 1]) /\ IsFiniteSet(L[n])
      <4>1. L[n + 1] \in SUBSET Inodes /\ L[n] \in SUBSET Inodes
        BY <1>4, <2>2
      <4>. QED  BY <1>c, <4>1, FS_Subset
    <3>9. Cardinality(L[n] \cup {j}) = Cardinality(L[n]) + 1
      BY <3>3, <3>8, FS_AddElement
    <3>10. Cardinality(L[n] \cup {j}) <= Cardinality(L[n + 1])
      <4>1. L[n] \cup {j} \in SUBSET L[n + 1]
        BY <2>1, <3>7
      <4>. QED  BY <3>8, <4>1, FS_Subset
    <3>11. Cardinality(L[n]) \in Nat /\ Cardinality(L[n + 1]) \in Nat
      BY <3>8, FS_CardinalityType
    <3>12. Cardinality(L[n + 1]) >= n + 2
      BY <1>4, <2>4, <3>9, <3>10, <3>11
    <3>. QED  BY <2>2, <3>12
  <2>. QED  BY <2>3, <2>4
<1>. HIDE DEF Good
<1>5. Bad = {}
  <2>1. SUFFICES ASSUME Bad # {}  PROVE FALSE
    OBVIOUS
  <2>2. Bad \in SUBSET Nat
    BY <1>c
  <2>3. Min(Bad) \in Bad /\ \A k \in Bad : Min(Bad) <= k
    <3>. HIDE DEF Bad
    <3>. QED  BY <2>1, <2>2, MinIn
  <2>4. PICK m \in 0..INODES : m \in Bad /\ \A k \in Bad : m <= k
    BY <2>3
  <2>5. m # 0
    BY <1>3, <2>4
  <2>6. m - 1 \in 0..INODES /\ m - 1 \notin Bad /\ (m - 1) + 1 = m
    BY <1>c, <2>4, <2>5
  <2>7. Good(m)
    <3>1. PICK n \in 0..INODES : n = m - 1
      BY <2>6
    <3>2. n + 1 = m /\ Good(n)
      BY <2>6, <3>1
    <3>. QED  BY <1>4, <3>2
  <2>. QED  BY <2>4, <2>7
<1>6. PICK n \in 0..INODES : n = INODES - 2
  BY <1>c
<1>7. L[n] \in SUBSET X /\ (X \in SUBSET L[n] \/ Cardinality(L[n]) >= n + 1)
  BY <1>5 DEF Good
<1>8. ASSUME Cardinality(L[n]) >= n + 1  PROVE X \in SUBSET L[n]
  <2>1. L[n] \in SUBSET Inodes
    BY <1>7
  <2>2. Cardinality(L[n]) <= Cardinality(Inodes) /\ (Cardinality(L[n]) = Cardinality(Inodes) => L[n] = Inodes)
    BY <1>c, <2>1, FS_Subset
  <2>3. Cardinality(L[n]) \in Nat
    BY <1>c, <2>1, FS_Subset, FS_CardinalityType
  <2>. QED  BY <1>6, <1>8, <1>c, <2>2, <2>3
<1>. QED  BY <1>1, <1>6, <1>7, <1>8

-----------------------------------------------------------------------------
(* Reading directories *)

LEMMA DirView ==
    ASSUME NEW s \in Stores, NEW d \in Inodes, DirShape(s, s.inodes[d]), NEW ino, ino = s.inodes[d]
    PROVE  /\ ino.size \in Nat /\ ino.size <= Limit * SLOTS
           /\ Places(s, d) = 0..(ino.size - 1) /\ 0..(ino.size - 1) \in SUBSET FilePlaces
           /\ \A p \in 0..(ino.size - 1) : /\ BlockAt(s, ino, p \div SLOTS) = Pointers(s, ino)[p \div SLOTS]
                                           /\ Pointers(s, ino)[p \div SLOTS] # 0
                                           /\ CellAt(s, ino, p) = Slots(s, ino)[p]
           /\ Used(s, d) = {p \in FilePlaces : Slots(s, ino)[p] # Zero}
           /\ Unused(s, d) = {p \in 0..(ino.size - 1) : Slots(s, ino)[p] = Zero}
<1>1. ino \in InodeRecs
  BY StoreFields
<1>2. ino.size \in Nat /\ ino.size <= Limit * SLOTS /\ Limit * SLOTS \in Nat /\ Limit \in Nat /\ SLOTS \in Nat \ {0}
  BY <1>1, Constants DEF InodeRecs
<1>3. 0..(ino.size - 1) \in SUBSET FilePlaces
  BY <1>2 DEF FilePlaces
<1>4. ASSUME NEW p \in 0..(ino.size - 1)
      PROVE  \A k \in 0..(p \div SLOTS) : BlockAt(s, ino, k) = Pointers(s, ino)[k] /\ Pointers(s, ino)[k] # 0
  <2>1. p \in FilePlaces
    BY <1>3
  <2>2. p \div SLOTS \in 0..(Limit - 1)
    BY <2>1, PlaceCells
  <2>3. p \div SLOTS <= LastBlock(ino.size)
    BY <1>2, LastBlockFacts
  <2>4. LastBlock(ino.size) \in Nat
    BY <1>2, LastBlockFacts
  <2>5. \A k \in 0..(p \div SLOTS) : k \in 0..(Limit - 1) /\ k <= LastBlock(ino.size)
    BY <1>2, <2>2, <2>3, <2>4
  <2>6. \A k \in 0..(Limit - 1) : BlockAt(s, ino, k) = Pointers(s, ino)[k]
    BY PointersFacts
  <2>. QED  BY <2>5, <2>6 DEF DirShape
<1>5. \A p \in 0..(ino.size - 1) : p \div SLOTS \in 0..(p \div SLOTS)
  <2>1. \A p \in 0..(ino.size - 1) : p \div SLOTS \in 0..(Limit - 1)
    BY <1>3, PlaceCells
  <2>. QED  BY <1>2, <2>1
<1>6. Places(s, d) = 0..(ino.size - 1)
  BY <1>4 DEF Places
<1>7. ASSUME NEW p \in 0..(ino.size - 1)
      PROVE  /\ BlockAt(s, ino, p \div SLOTS) = Pointers(s, ino)[p \div SLOTS]
             /\ Pointers(s, ino)[p \div SLOTS] # 0
             /\ CellAt(s, ino, p) = Slots(s, ino)[p]
  <2>1. /\ BlockAt(s, ino, p \div SLOTS) = Pointers(s, ino)[p \div SLOTS]
        /\ Pointers(s, ino)[p \div SLOTS] # 0
    BY <1>4, <1>5
  <2>2. Slots(s, ino)[p] = Unit(s, ino, p \div SLOTS, p % SLOTS)
    BY <1>3, SlotsFacts
  <2>. QED  BY <2>1, <2>2 DEF CellAt, Unit
<1>8. \A p \in FilePlaces : Slots(s, ino)[p] # Zero => p \in 0..(ino.size - 1)
  <2>1. \A p \in FilePlaces : p \in Nat
    BY PlaceCells
  <2>2. \A p \in FilePlaces : p >= ino.size => Slots(s, ino)[p] = Zero
    BY DEF DirShape
  <2>. QED  BY <1>2, <2>1, <2>2
<1>9. Used(s, d) = {p \in FilePlaces : Slots(s, ino)[p] # Zero}
  BY <1>3, <1>6, <1>7, <1>8 DEF Used
<1>10. Unused(s, d) = {p \in 0..(ino.size - 1) : Slots(s, ino)[p] = Zero}
  BY <1>3, <1>6, <1>9 DEF Unused
<1>. QED  BY <1>2, <1>3, <1>6, <1>7, <1>9, <1>10

\* The same, of inode ino of directory d, as one fact.
DirRead(s, d, ino) ==
    /\ Places(s, d) = 0..(ino.size - 1) /\ 0..(ino.size - 1) \in SUBSET FilePlaces
    /\ \A p \in 0..(ino.size - 1) : CellAt(s, ino, p) = Slots(s, ino)[p]
    /\ Used(s, d) = {p \in FilePlaces : Slots(s, ino)[p] # Zero}

LEMMA DirReads ==
    ASSUME NEW s \in Stores, NEW d \in Inodes, DirShape(s, s.inodes[d]), NEW ino, ino = s.inodes[d]
    PROVE  DirRead(s, d, ino)
<1>1. /\ Places(s, d) = 0..(ino.size - 1) /\ 0..(ino.size - 1) \in SUBSET FilePlaces
      /\ Used(s, d) = {p \in FilePlaces : Slots(s, ino)[p] # Zero}
  BY DirView
<1>2. \A p \in 0..(ino.size - 1) : CellAt(s, ino, p) = Slots(s, ino)[p]
  BY DirView
<1>. QED  BY <1>1, <1>2 DEF DirRead

Dirs(s, X)     == {d \in X : IsDir(s, d)}
DirSlots(s, X) == [d \in Dirs(s, X) |-> Slots(s, s.inodes[d])]
Tree(s, X, r)  == TreeShape(X, Dirs(s, X), DirSlots(s, X), r)

\* Every cell of a directory in the tree that is used is an entry of an inode in the tree.
LEMMA DirCells ==
    ASSUME NEW s, NEW X, NEW r, Tree(s, X, r), NEW d \in X, IsDir(s, d), NEW slots,
           slots = Slots(s, s.inodes[d]), NEW p \in FilePlaces, slots[p] # Zero
    PROVE  \E n \in Names \cup {".", ".."}, j \in X :
              slots[p] = Entry(n, j) /\ slots[p][2] = n /\ slots[p][3] = j
<1>1. d \in Dirs(s, X) /\ DirSlots(s, X)[d] = slots /\ X \in SUBSET Inodes
  BY DEF Dirs, DirSlots, Tree, TreeShape
<1>2. p = 0 \/ p = 1 \/ p >= 2
  BY FirstPlaces
<1>3. CASE p = 0
  <2>1. slots[p] = Entry(".", d)
    BY <1>1, <1>3 DEF Tree, TreeShape
  <2>2. Entry(".", d)[2] = "." /\ Entry(".", d)[3] = d
    BY CellFacts
  <2>. QED  BY <2>1, <2>2
<1>4. CASE p = 1
  <2>1. PICK u \in X : slots[p] = Entry("..", u)
    BY <1>1, <1>4 DEF Tree, TreeShape
  <2>2. Entry("..", u)[2] = ".." /\ Entry("..", u)[3] = u
    BY CellFacts
  <2>. QED  BY <2>1, <2>2
<1>5. CASE p >= 2
  <2>1. PICK n \in Names, j \in X \ {ROOT_INODE} : slots[p] = Entry(n, j)
    BY <1>1, <1>5 DEF Tree, TreeShape
  <2>2. Entry(n, j)[2] = n /\ Entry(n, j)[3] = j
    BY CellFacts
  <2>. QED  BY <2>1, <2>2
<1>. QED  BY <1>2, <1>3, <1>4, <1>5

LEMMA SoundDir ==
    ASSUME NEW s, NEW X, Sound(s, X), NEW d \in X, IsDir(s, d)
    PROVE  s \in Stores /\ d \in Inodes /\ DirShape(s, s.inodes[d])
  BY DEF Sound, InodeOK, IsDir

DirsShaped(s, X) == s \in Stores /\ \A d \in X : IsDir(s, d) => DirShape(s, s.inodes[d])

\* The inodes that paths can name are those of the tree.
LEMMA TreeLinkedIn ==
    ASSUME NEW s, NEW X, NEW r, Tree(s, X, r), DirsShaped(s, X)
    PROVE  LinkedIn(s) = X
<1>1. X \in SUBSET Inodes /\ ROOT_INODE \in X /\ r \in [X -> Nat]
  BY DEF Tree, TreeShape, Dirs
<1>2. ASSUME NEW d \in X, IsDir(s, d)
      PROVE  /\ Kids(s, d) \in SUBSET X
             /\ \A p \in FilePlaces, n \in Names, j \in X :
                   Slots(s, s.inodes[d])[p] = Entry(n, j) => j \in Kids(s, d)
  <2>1. PICK ino : ino = s.inodes[d]
    OBVIOUS
  <2>2. s \in Stores /\ d \in Inodes /\ DirShape(s, s.inodes[d])
    BY <1>1, <1>2 DEF DirsShaped
  <2>3. /\ Used(s, d) = {p \in FilePlaces : Slots(s, ino)[p] # Zero}
        /\ Used(s, d) \in SUBSET Places(s, d)
        /\ \A p \in Places(s, d) : CellAt(s, ino, p) = Slots(s, ino)[p]
    <3>1. /\ Used(s, d) = {p \in FilePlaces : Slots(s, ino)[p] # Zero}
          /\ Places(s, d) = 0..(ino.size - 1)
          /\ \A p \in 0..(ino.size - 1) : CellAt(s, ino, p) = Slots(s, ino)[p]
      <4>1. DirRead(s, d, ino)
        BY <2>1, <2>2, DirReads
      <4>. QED  BY <4>1 DEF DirRead
    <3>. QED  BY <3>1 DEF Used
  <2>4. Kids(s, d) = Inodes \cap {Slots(s, ino)[p][3] : p \in Used(s, d)}
    BY <1>2, <2>1, <2>3 DEF Kids
  <2>5. \A p \in Used(s, d) : Slots(s, ino)[p][3] \in X
    <3>1. SUFFICES ASSUME NEW p \in Used(s, d)  PROVE Slots(s, ino)[p][3] \in X
      OBVIOUS
    <3>2. PICK slots : slots = Slots(s, ino)
      OBVIOUS
    <3>3. p \in FilePlaces /\ slots[p] # Zero /\ slots = Slots(s, s.inodes[d])
      BY <2>1, <2>3, <3>2
    <3>4. \E n \in Names \cup {".", ".."}, j \in X :
              slots[p] = Entry(n, j) /\ slots[p][2] = n /\ slots[p][3] = j
      BY <1>2, <3>3, DirCells
    <3>. QED  BY <3>2, <3>4
  <2>6. ASSUME NEW p \in FilePlaces, NEW n \in Names, NEW j \in X, Slots(s, ino)[p] = Entry(n, j)
        PROVE  j \in Kids(s, d)
    <3>1. p \in Used(s, d) /\ Slots(s, ino)[p][3] = j
      BY <2>3, <2>6, CellFacts
    <3>. QED  BY <1>1, <2>4, <3>1
  <2>. QED  BY <2>1, <2>4, <2>5, <2>6
<1>3. \A d \in X : Kids(s, d) \in SUBSET X
  <2>1. \A d \in X : ~IsDir(s, d) => Kids(s, d) = {}
    BY DEF Kids
  <2>. QED  BY <1>2, <2>1
<1>4. ASSUME NEW j \in X \ {ROOT_INODE}  PROVE \E d \in X : j \in Kids(s, d) /\ r[d] < r[j]
  <2>1. PICK d \in Dirs(s, X), p \in FilePlaces, n \in Names :
           DirSlots(s, X)[d][p] = Entry(n, j) /\ r[d] < r[j]
    BY <1>4 DEF Tree, TreeShape
  <2>2. d \in X /\ IsDir(s, d) /\ Slots(s, s.inodes[d])[p] = Entry(n, j)
    BY <2>1 DEF Dirs, DirSlots
  <2>. QED  BY <1>2, <2>1, <2>2
<1>. QED  BY <1>1, <1>3, <1>4, LinkedClosed

LEMMA TreeLinked ==
    ASSUME NEW s, NEW X, NEW r, Sound(s, X), Tree(s, X, r)
    PROVE  LinkedIn(s) = X
<1>1. DirsShaped(s, X)
  BY SoundDir DEF Sound, DirsShaped
<1>. QED  BY <1>1, TreeLinkedIn

\* dir_lookup
LEMMA LookupFacts ==
    ASSUME NEW s, NEW X, NEW r, Sound(s, X), Tree(s, X, r), NEW d \in X, IsDir(s, d), NEW n,
           NEW slots, slots = Slots(s, s.inodes[d])
    PROVE  /\ Exists(s, d, n) =>
                 /\ Min(Holding(s, d, n)) \in FilePlaces
                 /\ Min(Holding(s, d, n)) \in 0..(s.inodes[d].size - 1)
                 /\ Lookup(s, d, n) \in X
                 /\ slots[Min(Holding(s, d, n))] = Entry(n, Lookup(s, d, n))
           /\ ~Exists(s, d, n) => \A p \in FilePlaces, j \in X : slots[p] # Entry(n, j)
<1>1. PICK ino : ino = s.inodes[d]
  OBVIOUS
<1>2. s \in Stores /\ d \in Inodes /\ DirShape(s, s.inodes[d])
  BY SoundDir
<1>3. /\ Places(s, d) = 0..(ino.size - 1) /\ 0..(ino.size - 1) \in SUBSET FilePlaces
      /\ \A p \in 0..(ino.size - 1) : CellAt(s, ino, p) = slots[p]
      /\ Used(s, d) = {p \in FilePlaces : slots[p] # Zero}
  <2>1. DirRead(s, d, ino)
    BY <1>1, <1>2, DirReads
  <2>. QED  BY <1>1, <2>1 DEF DirRead
<1>4. Used(s, d) \in SUBSET Places(s, d)
  BY DEF Used
<1>5. Holding(s, d, n) = {p \in Used(s, d) : slots[p][2] = n}
  BY <1>1, <1>3, <1>4 DEF Holding
<1>6. ASSUME Exists(s, d, n)
      PROVE  /\ Min(Holding(s, d, n)) \in FilePlaces
             /\ Min(Holding(s, d, n)) \in 0..(ino.size - 1)
             /\ Lookup(s, d, n) \in X
             /\ slots[Min(Holding(s, d, n))] = Entry(n, Lookup(s, d, n))
  <2>1. Holding(s, d, n) # {} /\ Holding(s, d, n) \in SUBSET Nat
    BY <1>3, <1>4, <1>5, <1>6, PlaceCells DEF Exists
  <2>2. PICK p : p = Min(Holding(s, d, n)) /\ p \in Holding(s, d, n)
    BY <2>1, MinIn
  <2>3. p \in FilePlaces /\ p \in 0..(ino.size - 1) /\ slots[p] # Zero /\ slots[p][2] = n
    BY <1>3, <1>4, <1>5, <2>2
  <2>4. PICK m \in Names \cup {".", ".."}, j \in X :
              slots[p] = Entry(m, j) /\ slots[p][2] = m /\ slots[p][3] = j
    BY <2>3, DirCells
  <2>5. Lookup(s, d, n) = slots[p][3]
    BY <1>1, <1>3, <2>2, <2>3 DEF Lookup
  <2>. QED  BY <2>2, <2>3, <2>4, <2>5
<1>7. ASSUME ~Exists(s, d, n), NEW p \in FilePlaces, NEW j \in X, slots[p] = Entry(n, j)  PROVE FALSE
  <2>1. Holding(s, d, n) = {}
    BY <1>7 DEF Exists
  <2>2. slots[p] # Zero /\ slots[p][2] = n
    BY <1>7, CellFacts
  <2>. QED  BY <1>3, <1>5, <2>1, <2>2
<1>. QED  BY <1>1, <1>6, <1>7

-----------------------------------------------------------------------------
(* Changing directories *)

LEMMA SetCellFacts ==
    ASSUME NEW s \in Stores, NEW d \in Inodes, NEW ino, ino = s.inodes[d], GoodInode(s, ino),
           DirShape(s, ino), NEW p \in 0..(ino.size - 1), NEW cell \in CellValues,
           NEW t, t = SetCell(s, d, p, cell)
    PROVE  /\ t \in Stores /\ t.inodes = s.inodes /\ t.fs = s.fs
           /\ \A b \in Blocks : b \notin BlocksOf(s, ino) => t.blocks[b] = s.blocks[b]
           /\ Pointers(t, ino) = Pointers(s, ino) /\ BlocksOf(t, ino) = BlocksOf(s, ino)
           /\ \A q \in FilePlaces : Slots(t, ino)[q] = IF q = p THEN cell ELSE Slots(s, ino)[q]
<1>. DEFINE P == Pointers(s, ino)
<1>1. /\ 0..(ino.size - 1) \in SUBSET FilePlaces
      /\ BlockAt(s, ino, p \div SLOTS) = P[p \div SLOTS] /\ P[p \div SLOTS] # 0
  BY DirView
<1>2. PICK k \in 0..(Limit - 1), c \in 0..(SLOTS - 1) : k = p \div SLOTS /\ c = p % SLOTS /\ p = k * SLOTS + c
  BY <1>1, PlaceCells
<1>3. k \in 0..Limit /\ Limit \in 0..Limit /\ k # Limit /\ c \in Cells
  BY IndexCases, Constants
<1>4. PICK b \in Blocks : b = P[k]
  <2>1. P[k] \in PtrValues /\ P[k] # 0
    BY <1>1, <1>2, <1>3 DEF GoodInode
  <2>. QED  BY <2>1 DEF PtrValues
<1>5. PICK new : new = [s.blocks[b] EXCEPT ![c] = cell]
  OBVIOUS
<1>6. s.blocks[b] \in [Cells -> CellValues]
  BY StoreFields
<1>7. new \in [Cells -> CellValues] /\ new[c] = cell /\ \A x \in Cells : x # c => new[x] = s.blocks[b][x]
  BY <1>3, <1>5, <1>6
<1>8. t = WithBlock(s, b, new)
  BY <1>1, <1>2, <1>4, <1>5 DEF SetCell, WithBlock
<1>9. t \in Stores /\ t.blocks = [s.blocks EXCEPT ![b] = new] /\ t.inodes = s.inodes /\ t.fs = s.fs
  BY <1>7, <1>8, SetBlockFacts
<1>10. t.blocks[b] = new /\ \A x \in Blocks : x # b => t.blocks[x] = s.blocks[x]
  BY <1>9, StoreFields
<1>11. b \in BlocksOf(s, ino)
  <2>1. BlocksOf(s, ino) = {P[m] : m \in 0..Limit} \ {0}
    BY PointersFacts
  <2>. HIDE DEF P
  <2>2. b # 0
    BY Constants
  <2>. QED  BY <1>3, <1>4, <2>1, <2>2
<1>12. Pointers(t, ino) = P
  <2>1. P[Limit] = ino.indirect
    BY PointersFacts
  <2>2. ino.indirect # 0 => ino.indirect \in Blocks /\ ino.indirect # b
    BY <1>1, <1>2, <1>3, <1>4, <2>1 DEF GoodInode, PtrValues
  <2>3. ino.indirect # 0 => s.blocks[ino.indirect] = t.blocks[ino.indirect]
    BY <1>10, <2>2
  <2>. QED  BY <2>3, SamePointers
<1>13. BlocksOf(t, ino) = BlocksOf(s, ino)
  BY <1>12 DEF BlocksOf
<1>14. ASSUME NEW q \in FilePlaces
       PROVE  Slots(t, ino)[q] = IF q = p THEN cell ELSE Slots(s, ino)[q]
  <2>1. PICK m \in 0..(Limit - 1), x \in 0..(SLOTS - 1) : q = m * SLOTS + x /\ m = q \div SLOTS /\ x = q % SLOTS
    BY PlaceCells
  <2>2. Slots(t, ino)[q] = Unit(t, ino, m, x) /\ Slots(s, ino)[q] = Unit(s, ino, m, x)
    BY <2>1, SlotsFacts
  <2>3. m \in 0..Limit /\ x \in Cells
    BY IndexCases, Constants
  <2>4. CASE P[m] = 0
    <3>1. q # p
      BY <1>1, <1>2, <2>1, <2>4
    <3>. QED  BY <1>12, <2>2, <2>4, <3>1 DEF Unit
  <2>5. CASE P[m] # 0 /\ P[m] # b
    <3>1. P[m] \in Blocks
      BY <2>3, <2>5 DEF GoodInode, PtrValues
    <3>2. t.blocks[P[m]] = s.blocks[P[m]]
      BY <1>10, <2>5, <3>1
    <3>3. q # p
      BY <1>2, <1>4, <2>1, <2>5
    <3>. QED  BY <1>12, <2>2, <2>5, <3>2, <3>3 DEF Unit
  <2>6. CASE P[m] # 0 /\ P[m] = b
    <3>1. m = k
      BY <1>3, <1>4, <2>3, <2>6 DEF GoodInode
    <3>2. q = p <=> x = c
      BY <1>2, <2>1, <3>1
    <3>3. Unit(t, ino, m, x) = new[x] /\ Unit(s, ino, m, x) = s.blocks[b][x]
      BY <1>10, <1>12, <2>6 DEF Unit
    <3>. QED  BY <1>7, <2>2, <2>3, <3>2, <3>3
  <2>. QED  BY <2>4, <2>5, <2>6
<1>. QED  BY <1>9, <1>10, <1>11, <1>12, <1>13, <1>14

\* A cell of a directory changes and it keeps its shape.
LEMMA SetCellStep ==
    ASSUME NEW s, NEW X, Sound(s, X), NEW d \in X, IsDir(s, d), NEW p \in 0..(s.inodes[d].size - 1),
           NEW cell \in CellValues, NEW t, t = SetCell(s, d, p, cell)
    PROVE  /\ FileStep(s, X, d, t) /\ t.inodes = s.inodes /\ t.fs = s.fs
           /\ p \in FilePlaces
           /\ \A q \in FilePlaces :
                 Slots(t, t.inodes[d])[q] = IF q = p THEN cell ELSE Slots(s, s.inodes[d])[q]
           /\ NoneLost(s, X) => NoneLost(t, X)
<1>1. PICK ino : ino = s.inodes[d]
  OBVIOUS
<1>2. s \in Stores /\ d \in Inodes /\ DirShape(s, ino) /\ InodeOK(s, d) /\ X \cup {d} = X
      /\ GoodInode(s, ino) /\ s.fs.free_blocks = Cardinality(s.fs.bitmap)
  BY <1>1, SoundDir DEF Sound, InodeOK
<1>3. /\ t \in Stores /\ t.inodes = s.inodes /\ t.fs = s.fs
      /\ \A b \in Blocks : b \notin BlocksOf(s, ino) => t.blocks[b] = s.blocks[b]
      /\ Pointers(t, ino) = Pointers(s, ino) /\ BlocksOf(t, ino) = BlocksOf(s, ino)
      /\ \A q \in FilePlaces : Slots(t, ino)[q] = IF q = p THEN cell ELSE Slots(s, ino)[q]
  BY <1>1, <1>2, SetCellFacts
<1>4. ino.size \in Nat /\ 0..(ino.size - 1) \in SUBSET FilePlaces
  BY <1>1, <1>2, DirView
<1>5. Mine(s, X, d) = s.fs.bitmap \cup BlocksOf(s, ino)
  BY <1>1 DEF Mine
<1>6. Local(s, t, X, d)
  <2>1. \A j \in X \ {d} : t.inodes[j] = s.inodes[j] /\ j \in t.fs.inode_bitmap
    BY <1>3 DEF Sound, InodeOK
  <2>. QED  BY <1>2, <1>3, <1>5, <2>1 DEF Local
<1>7. DirShape(t, ino)
  <2>1. \A q \in FilePlaces : q >= ino.size => Slots(t, ino)[q] = Zero
    <3>1. \A q \in FilePlaces : q >= ino.size => q # p
      BY <1>1, <1>4, PlaceCells
    <3>. QED  BY <1>2, <1>3, <3>1 DEF DirShape
  <2>. QED  BY <1>2, <1>3, <2>1 DEF DirShape
<1>8. InodeOK(t, d)
  <2>1. GoodInode(t, ino)
    BY <1>2, <1>3 DEF GoodInode
  <2>. QED  BY <1>1, <1>2, <1>3, <1>7, <2>1 DEF InodeOK
<1>9. BlocksOf(t, t.inodes[d]) \subseteq Mine(s, X, d)
  BY <1>1, <1>3, <1>5
<1>10. Sound(t, X \cup {d})
  BY <1>2, <1>6, <1>8, <1>9, LocalOne
<1>11. FileStep(s, X, d, t)
  BY <1>2, <1>3, <1>6, <1>10 DEF FileStep
<1>12. ASSUME NoneLost(s, X)  PROVE NoneLost(t, X)
  <2>1. Tight(t, t.inodes[d])
    BY <1>1, <1>3, <1>12 DEF NoneLost, Tight
  <2>2. Mine(s, X, d) \subseteq t.fs.bitmap \cup BlocksOf(t, t.inodes[d])
    BY <1>1, <1>3, <1>5
  <2>3. NoneLost(t, X \cup {d})
    BY <1>2, <1>6, <1>12, <2>1, <2>2, LocalNoneLost
  <2>. QED  BY <1>2, <2>3
<1>. QED  BY <1>1, <1>3, <1>4, <1>11, <1>12

LEMMA EvenSize ==
    ASSUME NEW p \in Nat, p % 2 = 0, p + 1 <= Limit * SLOTS
    PROVE  /\ p + 2 <= Limit * SLOTS /\ (p + 2) % 2 = 0 /\ p + 2 \in 0..(Limit * SLOTS)
           /\ LastBlock(p + 2) = p \div SLOTS /\ p \div SLOTS \in 0..(Limit - 1)
           /\ p \in FilePlaces /\ p % SLOTS \in 0..(SLOTS - 1)
           /\ p = (p \div SLOTS) * SLOTS + (p % SLOTS)
           /\ p \div SLOTS >= DIRECT_PTRS => p + 2 > DIRECT_PTRS * SLOTS
           /\ \A k \in 0..(Limit - 1) : k < p \div SLOTS => k <= LastBlock(p)
<1>1. SLOTS \in Nat /\ SLOTS >= 2 /\ Limit \in Nat /\ SLOTS % 2 = 0 /\ Limit * SLOTS \in Nat
      /\ DIRECT_PTRS \in Nat
  BY Constants, NextFSAssumption
<1>2. PICK h \in Nat : SLOTS = 2 * h
  <2>1. \A S \in Nat : S % 2 = 0 => S = 2 * (S \div 2) /\ S \div 2 \in Nat
    BY SMTT(30)
  <2>. QED  BY <1>1, <2>1
<1>3. p + 2 <= Limit * SLOTS
  <2>1. PICK m \in Nat : m = Limit * h
    BY <1>1, <1>2
  <2>2. Limit * SLOTS = 2 * m
    <3>1. \A L, g \in Nat : L * (2 * g) = 2 * (L * g)
      BY SMTT(30)
    <3>. QED  BY <1>1, <1>2, <2>1, <3>1
  <2>. QED  BY <2>2
<1>4. (p + 2) % 2 = 0
  OBVIOUS
<1>5. (p + 1) \div SLOTS = p \div SLOTS
  <2>1. PICK q \in Nat, c \in 0..(SLOTS - 1) : q = p \div SLOTS /\ c = p % SLOTS /\ p = q * SLOTS + c
    BY <1>1, CellOfPlace
  <2>2. c % 2 = 0
    <3>1. \A a, g, x \in Nat : (a * (2 * g) + x) % 2 = x % 2
      <4>1. \A a, g \in Nat : a * (2 * g) = 2 * (a * g) /\ a * g \in Nat
        BY SMTT(30)
      <4>2. \A y, x \in Nat : (2 * y + x) % 2 = x % 2
        BY SMTT(30)
      <4>. QED  BY <4>1, <4>2
    <3>2. c \in Nat
      OBVIOUS
    <3>. QED  BY <1>2, <2>1, <3>1, <3>2
  <2>3. c + 1 \in 0..(SLOTS - 1)
    BY <1>1, <2>2
  <2>4. p + 1 = q * SLOTS + (c + 1)
    BY <1>1, <2>1
  <2>5. PICK x \in 0..(SLOTS - 1) : x = c + 1
    BY <2>3
  <2>6. (q * SLOTS + x) \div SLOTS = q
    BY <1>1, PlaceOfCell
  <2>. QED  BY <2>1, <2>4, <2>5, <2>6
<1>6. LastBlock(p + 2) = p \div SLOTS
  BY <1>5 DEF LastBlock
<1>7. p \in FilePlaces
  BY <1>1 DEF FilePlaces
<1>8. p \div SLOTS \in 0..(Limit - 1) /\ p % SLOTS \in 0..(SLOTS - 1) /\ p = (p \div SLOTS) * SLOTS + (p % SLOTS)
  BY <1>7, PlaceCells
<1>9. PICK q \in 0..(Limit - 1), c \in 0..(SLOTS - 1) : q = p \div SLOTS /\ p = q * SLOTS + c
  BY <1>8
<1>10. q >= DIRECT_PTRS => p + 2 > DIRECT_PTRS * SLOTS
  <2>1. \A S, a, b, x \in Nat : a >= b => a * S + x + 2 > b * S
    BY SMTT(30)
  <2>2. q \in Nat /\ c \in Nat
    BY <1>1
  <2>. QED  BY <1>1, <1>9, <2>1, <2>2
<1>11. \A k \in 0..(Limit - 1) : k < q => k <= LastBlock(p)
  <2>1. \A S, a, b, x \in Nat : S > 0 /\ a < b => a * S < b * S + x
    BY SMTT(30)
  <2>2. q \in Nat /\ c \in Nat
    BY <1>1
  <2>3. \A k \in 0..(Limit - 1) : k < q => k \in Nat /\ k * SLOTS < p
    BY <1>1, <1>9, <2>1, <2>2
  <2>. QED  BY <2>3, LastBlockFacts
<1>. QED  BY <1>1, <1>3, <1>4, <1>6, <1>7, <1>8, <1>9, <1>10, <1>11

LEMMA WriteOneFacts ==
    ASSUME NEW s, NEW ino, Pair(s, ino), NEW p \in Nat, NEW val, DOMAIN val = p..p, val[p] \in CellValues
    PROVE  \E u \in Writes :
             /\ WriteInodeData(s, ino, val) = Grow(u, p + 1)
             /\ Extends(s, ino, u.s, u.ino, val, p \div SLOTS)
             /\ u.ok => /\ p + 1 <= Limit * SLOTS
                        /\ \A q \in 0..(Limit - 1), c \in 0..(SLOTS - 1) : q * SLOTS + c = p =>
                              /\ Pointers(u.s, u.ino)[q] # 0
                              /\ Unit(u.s, u.ino, q, c) = val[p]
<1>1. PICK hi \in Nat : hi = p
  OBVIOUS
<1>2. DOMAIN val = p..hi /\ p <= hi /\ \A q \in p..hi : val[q] \in CellValues
  BY <1>1
<1>3. PICK u \in Writes :
             /\ WriteInodeData(s, ino, val) = Grow(u, hi + 1)
             /\ Extends(s, ino, u.s, u.ino, val, hi \div SLOTS)
             /\ u.ok => /\ hi + 1 <= Limit * SLOTS
                        /\ \A q \in 0..(Limit - 1), c \in 0..(SLOTS - 1) : q * SLOTS + c \in p..hi =>
                              /\ Pointers(u.s, u.ino)[q] # 0
                              /\ Unit(u.s, u.ino, q, c) = val[q * SLOTS + c]
  BY <1>2, WriteInodeDataFacts
<1>4. u.ok => \A q \in 0..(Limit - 1), c \in 0..(SLOTS - 1) : q * SLOTS + c = p =>
                              /\ Pointers(u.s, u.ino)[q] # 0
                              /\ Unit(u.s, u.ino, q, c) = val[p]
  BY <1>1, <1>3
<1>. QED  BY <1>1, <1>3, <1>4

\* dir_add_entry at the end: the steps of the write.
AppendOutcome(s, ino, d, r, p, val) ==
    \/ \E u \in Writes :
          /\ r = Full(u.s) /\ Extends(s, ino, u.s, u.ino, <<>>, p \div SLOTS)
    \/ \E u \in Writes, jno \in InodeRecs :
          /\ r = Done(WithInode(u.s, d, jno)) /\ Extends(s, ino, u.s, u.ino, val, p \div SLOTS)
          /\ p + 1 <= Limit * SLOTS /\ jno.size = p + 2
          /\ jno.direct = u.ino.direct /\ jno.indirect = u.ino.indirect /\ jno.type = u.ino.type
          /\ Pointers(u.s, u.ino)[p \div SLOTS] # 0
          /\ Unit(u.s, u.ino, p \div SLOTS, p % SLOTS) = val[p]
LEMMA AppendCases ==
    ASSUME NEW s, NEW ino, Pair(s, ino), NEW p \in Nat, NEW val, DOMAIN val = p..p, val[p] \in CellValues
    PROVE  \A d \in Inodes :
             ino.size = p /\ p % 2 = 0 =>
             AppendOutcome(s, ino, d, PutInode(Advance(WriteInodeData(s, ino, val)), d), p, val)
<1>3. PICK W : W = WriteInodeData(s, ino, val)
  OBVIOUS
<1>4. PICK u \in Writes :
             /\ WriteInodeData(s, ino, val) = Grow(u, p + 1)
             /\ Extends(s, ino, u.s, u.ino, val, p \div SLOTS)
             /\ u.ok => /\ p + 1 <= Limit * SLOTS
                        /\ \A q \in 0..(Limit - 1), c \in 0..(SLOTS - 1) : q * SLOTS + c = p =>
                              /\ Pointers(u.s, u.ino)[q] # 0
                              /\ Unit(u.s, u.ino, q, c) = val[p]
  BY WriteOneFacts
<1>. SUFFICES ASSUME NEW d \in Inodes, NEW r, ino.size = p, p % 2 = 0,
                     r = PutInode(Advance(WriteInodeData(s, ino, val)), d)
              PROVE  AppendOutcome(s, ino, d, r, p, val)
  OBVIOUS
<1>5. u.s \in Stores /\ u.ino \in InodeRecs /\ u.ino.size = p
  BY <1>4, WriteFields DEF Extends
<1>6. CASE u.ok
  <2>1. p + 1 <= Limit * SLOTS
    BY <1>4, <1>6
  <2>2. p + 2 \in 0..(Limit * SLOTS) /\ p \div SLOTS \in 0..(Limit - 1) /\ p % SLOTS \in 0..(SLOTS - 1)
        /\ p = (p \div SLOTS) * SLOTS + (p % SLOTS)
    BY <2>1, EvenSize
  <2>3. Pointers(u.s, u.ino)[p \div SLOTS] # 0 /\ Unit(u.s, u.ino, p \div SLOTS, p % SLOTS) = val[p]
    BY <1>4, <1>6, <2>2
  <2>4. PICK jno : jno = [u.ino EXCEPT !.size = p + 2]
    OBVIOUS
  <2>5. jno \in InodeRecs /\ jno.size = p + 2 /\ jno.direct = u.ino.direct /\ jno.indirect = u.ino.indirect
        /\ jno.type = u.ino.type
    BY <1>5, <2>2, <2>4 DEF InodeRecs
  <2>6. W = [u EXCEPT !.ino.size = p + 1]
    BY <1>3, <1>4, <1>5, <1>6 DEF Grow
  <2>7. PICK a : a = Advance(W)
    OBVIOUS
  <2>8. a.ok = u.ok /\ a.s = u.s /\ a.ino = jno
    <3>1. W.ok = u.ok /\ W.s = u.s /\ W.ino = [u.ino EXCEPT !.size = p + 1] /\ W \in [s : Stores, ino : InodeRecs, b : PtrValues, ok : BOOLEAN]
      <4>1. p + 1 \in 0..(Limit * SLOTS)
        BY <2>1, Constants
      <4>. QED  BY <1>5, <2>6, <4>1 DEF Writes, InodeRecs
    <3>2. a = [W EXCEPT !.ino.size = @ + 1]
      BY <1>6, <2>7, <3>1 DEF Advance
    <3>3. W.ino.size = p + 1 /\ W.ino \in InodeRecs
      BY <1>5, <3>1 DEF InodeRecs
    <3>4. a.ok = W.ok /\ a.s = W.s /\ a.ino = [W.ino EXCEPT !.size = p + 2]
      <4>1. (p + 1) + 1 = p + 2
        OBVIOUS
      <4>2. a = [W EXCEPT !.ino = [W.ino EXCEPT !.size = (p + 1) + 1]]
        BY <3>2, <3>3
      <4>. QED  BY <3>1, <4>1, <4>2
    <3>5. [W.ino EXCEPT !.size = p + 2] = jno
      BY <1>5, <2>4, <3>1 DEF InodeRecs
    <3>. QED  BY <3>1, <3>4, <3>5
  <2>9. r = Done(WithInode(u.s, d, jno))
    BY <1>3, <1>6, <2>7, <2>8 DEF PutInode, WithInode
  <2>. QED  BY <1>4, <2>1, <2>3, <2>5, <2>9 DEF AppendOutcome
<1>7. CASE ~u.ok
  <2>1. W = u /\ ~W.ok
    BY <1>3, <1>4, <1>7 DEF Grow
  <2>2. PICK x \in Writes : WriteInodeData(s, ino, val) = x /\ Extends(s, ino, x.s, x.ino, <<>>, p \div SLOTS)
    BY <1>3, <2>1, OneBlockFails
  <2>3. r = Full(x.s)
    BY <1>3, <2>1, <2>2 DEF Advance, PutInode
  <2>. QED  BY <2>2, <2>3 DEF AppendOutcome
<1>. QED  BY <1>6, <1>7

\* What an operation on directory d has done: it has written the cell at place p, or it
\* has run out of space and what d holds is as before.
DirWritten(s, X, d, r, p, cell) ==
    /\ r.ok = TRUE /\ r.full = FALSE /\ FileStep(s, X, d, r.s) /\ p \in FilePlaces
    /\ Slots(s, s.inodes[d])[p] = Zero
    /\ \A q \in FilePlaces :
          Slots(r.s, r.s.inodes[d])[q] = IF q = p THEN cell ELSE Slots(s, s.inodes[d])[q]
    /\ NoneLost(s, X) => NoneLost(r.s, X)
DirFull(s, X, d, r) ==
    /\ r.ok = FALSE /\ r.full = TRUE /\ FileStep(s, X, d, r.s) /\ r.s.inodes = s.inodes
    /\ \A q \in FilePlaces : Slots(r.s, r.s.inodes[d])[q] = Slots(s, s.inodes[d])[q]

LEMMA AppendFails ==
    ASSUME NEW s, NEW X, Sound(s, X), NEW d \in X, IsDir(s, d), NEW ino, ino = s.inodes[d],
           NEW u, NEW uno, NEW hi, Extends(s, ino, u, uno, <<>>, hi)
    PROVE  DirFull(s, X, d, Full(u))
<1>1. Pair(s, ino) /\ Ready(s, X, d, s, ino) /\ d \in Inodes
  BY ReadyOnDisk
<1>2. \A e : Extends(s, ino, u, uno, e, hi) => Carries(s, ino, u, ino, e) /\ u.inodes = s.inodes
  BY <1>1, FailedWrite
<1>3. Carries(s, ino, u, ino, <<>>) /\ u.inodes = s.inodes
  BY <1>2
<1>4. PICK val : val = <<>> /\ DOMAIN val = {}
  OBVIOUS
<1>5. Carries(s, ino, u, ino, val) /\ \A j \in Inodes : j # d => u.inodes[j] = s.inodes[j]
  BY <1>3, <1>4
<1>6. Local(s, u, X, d) /\ BlocksOf(u, ino) \subseteq Mine(s, X, d)
  BY <1>1, <1>5, CarriesLocal
<1>7. \A q \in FilePlaces : Slots(u, ino)[q] = Slots(s, ino)[q]
  BY <1>4, <1>5 DEF Carries
<1>8. DirShape(u, ino)
  <2>1. DirShape(s, ino) /\ Limit \in Nat
    BY SoundDir, Constants
  <2>2. \A k \in 0..(Limit - 1) : k \in 0..Limit
    BY IndexCases
  <2>3. \A k \in 0..(Limit - 1) : k <= LastBlock(ino.size) => Pointers(u, ino)[k] # 0
    BY <1>5, <2>1, <2>2 DEF DirShape, Carries
  <2>. QED  BY <1>7, <2>1, <2>3 DEF DirShape
<1>9. InodeOK(u, d)
  <2>1. InodeOK(s, d)
    BY DEF Sound
  <2>2. GoodInode(u, ino) /\ BlocksOf(u, ino) \cap u.fs.bitmap = {} /\ u.fs.inode_bitmap = s.fs.inode_bitmap
    BY <1>5 DEF Carries, Pair
  <2>. QED  BY <1>3, <1>8, <2>1, <2>2 DEF InodeOK
<1>10. Sound(u, X)
  <2>1. X \cup {d} = X
    OBVIOUS
  <2>2. Sound(u, X \cup {d})
    BY <1>1, <1>3, <1>6, <1>9, LocalOne
  <2>. QED  BY <2>1, <2>2
<1>11. FileStep(s, X, d, u)
  BY <1>3, <1>5, <1>6, <1>10 DEF FileStep, Carries
<1>. QED  BY <1>3, <1>7, <1>11 DEF DirFull, Full

LEMMA AppendWrites ==
    ASSUME NEW s, NEW X, Sound(s, X), NEW d \in X, IsDir(s, d), NEW ino, ino = s.inodes[d],
           NEW p \in Nat, ino.size = p, p + 1 <= Limit * SLOTS,
           NEW u, NEW uno, NEW val, DOMAIN val = p..p, Extends(s, ino, u, uno, val, p \div SLOTS),
           NEW jno \in InodeRecs, jno.size = p + 2, jno.direct = uno.direct,
           jno.indirect = uno.indirect, jno.type = uno.type,
           Pointers(u, uno)[p \div SLOTS] # 0, Unit(u, uno, p \div SLOTS, p % SLOTS) = val[p]
    PROVE  DirWritten(s, X, d, Done(WithInode(u, d, jno)), p, val[p])
<1>1. Pair(s, ino) /\ Ready(s, X, d, s, ino) /\ d \in Inodes
  BY ReadyOnDisk
<1>2. PICK t : t = WithInode(u, d, jno)
  OBVIOUS
<1>3. PICK hi \in Nat : hi = p \div SLOTS
  BY Constants, CellOfPlace
<1>4. /\ Carries(s, ino, t, jno, val) /\ Completes(s, ino, t, jno, hi)
      /\ Pointers(t, jno) = Pointers(u, uno) /\ Slots(t, jno) = Slots(u, uno)
      /\ t.inodes = [s.inodes EXCEPT ![d] = jno]
  BY <1>1, <1>2, <1>3, FinishedWrite
<1>5. t.inodes[d] = jno /\ \A j \in Inodes : j # d => t.inodes[j] = s.inodes[j]
  <2>1. s.inodes \in [Inodes -> InodeRecs]
    BY <1>1, StoreFields DEF Pair
  <2>. QED  BY <1>1, <1>4, <2>1
<1>6. Local(s, t, X, d) /\ BlocksOf(t, jno) \subseteq Mine(s, X, d)
  BY <1>1, <1>4, <1>5, CarriesLocal
<1>7. DirShape(s, ino) /\ InodeOK(s, d) /\ p % 2 = 0 /\ p >= 2
  <2>1. DirShape(s, ino)
    BY SoundDir
  <2>2. InodeOK(s, d)
    BY DEF Sound
  <2>. QED  BY <2>1, <2>2 DEF DirShape
<1>8. /\ (p + 2) % 2 = 0
      /\ LastBlock(p + 2) = p \div SLOTS /\ p \div SLOTS \in 0..(Limit - 1)
      /\ p \in FilePlaces /\ p % SLOTS \in 0..(SLOTS - 1)
      /\ p = (p \div SLOTS) * SLOTS + (p % SLOTS)
      /\ p \div SLOTS >= DIRECT_PTRS => p + 2 > DIRECT_PTRS * SLOTS
      /\ \A k \in 0..(Limit - 1) : k < p \div SLOTS => k <= LastBlock(p)
  BY <1>7, EvenSize
<1>9. Slots(t, jno)[p] = val[p]
  BY <1>4, <1>8, SlotsFacts
<1>10. \A q \in FilePlaces : Slots(t, jno)[q] = IF q = p THEN val[p] ELSE Slots(s, ino)[q]
  <2>1. \A q \in FilePlaces : q # p => q \notin DOMAIN val
    BY PlaceCells
  <2>. QED  BY <1>4, <1>9, <2>1 DEF Carries
<1>11. DirShape(t, jno)
  <2>1. ASSUME NEW k \in 0..(Limit - 1), k <= LastBlock(jno.size)  PROVE Pointers(t, jno)[k] # 0
    <3>1. k <= hi /\ k \in 0..Limit /\ k \in Nat
      BY <1>3, <1>8, <2>1, IndexCases
    <3>2. CASE k = hi
      BY <1>3, <1>4, <3>2
    <3>3. CASE k # hi
      <4>1. k <= LastBlock(p)
        BY <1>3, <1>8, <3>1, <3>3
      <4>2. Pointers(s, ino)[k] # 0
        BY <1>7, <4>1 DEF DirShape
      <4>. QED  BY <1>4, <3>1, <4>2 DEF Carries
    <3>. QED  BY <3>2, <3>3
  <2>2. ASSUME NEW q \in FilePlaces, q >= jno.size  PROVE Slots(t, jno)[q] = Zero
    <3>1. q \in Nat /\ q # p /\ q >= p
      BY <2>2, PlaceCells
    <3>2. Slots(s, ino)[q] = Zero
      BY <1>7, <3>1 DEF DirShape
    <3>. QED  BY <1>10, <3>1, <3>2
  <2>. QED  BY <1>7, <1>8, <2>1, <2>2 DEF DirShape
<1>12. jno.indirect # 0 => jno.size > DIRECT_PTRS * SLOTS
  <2>1. ASSUME jno.indirect # 0  PROVE p + 2 > DIRECT_PTRS * SLOTS
    <3>1. Pointers(t, jno)[Limit] = jno.indirect /\ Pointers(s, ino)[Limit] = ino.indirect
      BY PointersFacts
    <3>2. CASE ino.indirect # 0
      <4>1. p > DIRECT_PTRS * SLOTS /\ DIRECT_PTRS * SLOTS \in Nat
        BY <1>7, <3>2, Constants DEF InodeOK
      <4>. QED  BY <4>1
    <3>3. CASE ino.indirect = 0
      <4>1. hi >= DIRECT_PTRS
        BY <1>4, <2>1, <3>1, <3>3 DEF Completes
      <4>. QED  BY <1>3, <1>8, <4>1
    <3>. QED  BY <3>2, <3>3
  <2>. QED  BY <2>1
<1>13. InodeOK(t, d)
  <2>1. GoodInode(t, jno) /\ BlocksOf(t, jno) \cap t.fs.bitmap = {} /\ t.fs.inode_bitmap = s.fs.inode_bitmap
        /\ jno.type = ino.type
    BY <1>4 DEF Carries, Pair
  <2>. QED  BY <1>5, <1>7, <1>11, <1>12, <2>1 DEF InodeOK
<1>14. Sound(t, X)
  <2>1. X \cup {d} = X
    OBVIOUS
  <2>2. Sound(t, X \cup {d})
    BY <1>1, <1>5, <1>6, <1>13, LocalOne
  <2>. QED  BY <2>1, <2>2
<1>15. FileStep(s, X, d, t)
  BY <1>4, <1>5, <1>6, <1>14 DEF FileStep, Carries
<1>16. Slots(s, ino)[p] = Zero
  <2>1. p >= ino.size
    OBVIOUS
  <2>. QED  BY <1>7, <1>8, <2>1 DEF DirShape
<1>17. ASSUME NoneLost(s, X)  PROVE NoneLost(t, X)
  <2>1. Tight(t, jno)
    <3>1. ASSUME NEW k \in 0..(Limit - 1), Pointers(t, jno)[k] # 0  PROVE k <= LastBlock(jno.size)
      <4>1. CASE Pointers(s, ino)[k] = 0
        BY <1>3, <1>4, <1>8, <3>1, <4>1 DEF Completes
      <4>2. CASE Pointers(s, ino)[k] # 0
        <5>1. k <= LastBlock(p)
          BY <1>17, <4>2 DEF NoneLost, Tight
        <5>2. LastBlock(p) <= LastBlock(p + 2) /\ LastBlock(p) \in Nat
          BY LastBlockFacts
        <5>3. LastBlock(p + 2) \in Nat /\ k \in Nat
          BY LastBlockFacts
        <5>. QED  BY <5>1, <5>2, <5>3
      <4>. QED  BY <4>1, <4>2
    <3>. QED  BY <3>1 DEF Tight
  <2>2. Mine(s, X, d) = s.fs.bitmap \cup BlocksOf(s, ino)
    BY DEF Mine
  <2>3. Tight(t, t.inodes[d]) /\ Mine(s, X, d) \subseteq t.fs.bitmap \cup BlocksOf(t, t.inodes[d])
    BY <1>4, <1>5, <2>1, <2>2 DEF Completes
  <2>4. NoneLost(t, X \cup {d}) /\ X \cup {d} = X
    BY <1>1, <1>6, <1>17, <2>3, LocalNoneLost
  <2>. QED  BY <2>4
<1>. QED  BY <1>2, <1>5, <1>8, <1>10, <1>15, <1>16, <1>17 DEF DirWritten, Done

\* dir_add_entry
Refused(s, r) == r.s = s /\ r.ok = FALSE /\ r.full = FALSE
LEMMA AddEntryFacts ==
    ASSUME NEW s, NEW X, Sound(s, X), NEW d \in X, NEW n \in Names \cup {".", ".."}, NEW i \in Inodes,
           Slots(s, s.inodes[d])[0] # Zero, Slots(s, s.inodes[d])[1] # Zero,
           NEW r, r = AddEntry(s, d, n, i)
    PROVE  \/ (~IsDir(s, d) \/ Exists(s, d, n)) /\ Refused(s, r)
           \/ /\ IsDir(s, d) /\ ~Exists(s, d, n) /\ DirFull(s, X, d, r)
              /\ \A q \in 0..(s.inodes[d].size - 1) : Slots(s, s.inodes[d])[q] # Zero
           \/ /\ IsDir(s, d) /\ ~Exists(s, d, n)
              /\ \E p \in FilePlaces : p >= 2 /\ DirWritten(s, X, d, r, p, Entry(n, i))
<1>1. CASE ~IsDir(s, d) \/ Exists(s, d, n)
  BY <1>1 DEF AddEntry, Error, Refused
<1>2. ASSUME IsDir(s, d), ~Exists(s, d, n)
      PROVE  \/ /\ DirFull(s, X, d, r)
                /\ \A q \in 0..(s.inodes[d].size - 1) : Slots(s, s.inodes[d])[q] # Zero
             \/ \E p \in FilePlaces : p >= 2 /\ DirWritten(s, X, d, r, p, Entry(n, i))
  <2>1. PICK ino : ino = s.inodes[d]
    OBVIOUS
  <2>2. s \in Stores /\ d \in Inodes /\ DirShape(s, ino) /\ Pair(s, ino)
    BY <1>2, <2>1, SoundDir, ReadyOnDisk
  <2>3. /\ ino.size \in Nat /\ 0..(ino.size - 1) \in SUBSET FilePlaces
        /\ Unused(s, d) = {p \in 0..(ino.size - 1) : Slots(s, ino)[p] = Zero}
    BY <2>1, <2>2, DirView
  <2>4. PICK cell \in CellValues : cell = Entry(n, i)
    BY CellFacts
  <2>5. \A p \in FilePlaces : Slots(s, ino)[p] = Zero => p >= 2
    BY <2>1, FirstPlaces
  <2>6. CASE Unused(s, d) = {}
    <3>1. PICK p \in Nat : ino.size = p
      BY <2>3
    <3>2. p % 2 = 0 /\ p >= 2
      BY <2>2, <3>1 DEF DirShape
    <3>3. PICK val : val = EntryAt(p, n, i)
      OBVIOUS
    <3>4. DOMAIN val = p..p /\ val[p] = cell
      BY <2>4, <3>3 DEF EntryAt
    <3>5. r = PutInode(Advance(WriteInodeData(s, ino, val)), d)
      BY <1>2, <2>1, <2>6, <3>1, <3>3 DEF AddEntry, AppendEntry
    <3>6. \/ \E u \in Writes :
                 /\ r = Full(u.s) /\ Extends(s, ino, u.s, u.ino, <<>>, p \div SLOTS)
          \/ \E u \in Writes, jno \in InodeRecs :
                 /\ r = Done(WithInode(u.s, d, jno)) /\ Extends(s, ino, u.s, u.ino, val, p \div SLOTS)
                 /\ p + 1 <= Limit * SLOTS /\ jno.size = p + 2
                 /\ jno.direct = u.ino.direct /\ jno.indirect = u.ino.indirect /\ jno.type = u.ino.type
                 /\ Pointers(u.s, u.ino)[p \div SLOTS] # 0
                 /\ Unit(u.s, u.ino, p \div SLOTS, p % SLOTS) = val[p]
      <4>1. val[p] \in CellValues
        BY <2>4, <3>4
      <4>2. DOMAIN val = p..p /\ Pair(s, ino)
        BY <2>2, <3>4
      <4>3. \A e \in Inodes :
               ino.size = p /\ p % 2 = 0 =>
               AppendOutcome(s, ino, e, PutInode(Advance(WriteInodeData(s, ino, val)), e), p, val)
        BY <4>1, <4>2, AppendCases
      <4>4. AppendOutcome(s, ino, d, r, p, val)
        BY <2>2, <3>1, <3>2, <3>5, <4>3
      <4>. QED  BY <4>4 DEF AppendOutcome
    <3>7. ASSUME NEW u \in Writes, r = Full(u.s), Extends(s, ino, u.s, u.ino, <<>>, p \div SLOTS)
          PROVE  DirFull(s, X, d, r)
      <4>1. PICK us, uno, hi : us = u.s /\ uno = u.ino /\ hi = p \div SLOTS
        OBVIOUS
      <4>2. Extends(s, ino, us, uno, <<>>, hi) /\ r = Full(us)
        BY <3>7, <4>1
      <4>. QED  BY <1>2, <2>1, <4>2, AppendFails
    <3>8. ASSUME NEW u \in Writes, NEW jno \in InodeRecs,
                 r = Done(WithInode(u.s, d, jno)), Extends(s, ino, u.s, u.ino, val, p \div SLOTS),
                 p + 1 <= Limit * SLOTS, jno.size = p + 2,
                 jno.direct = u.ino.direct, jno.indirect = u.ino.indirect, jno.type = u.ino.type,
                 Pointers(u.s, u.ino)[p \div SLOTS] # 0,
                 Unit(u.s, u.ino, p \div SLOTS, p % SLOTS) = val[p]
          PROVE  p \in FilePlaces /\ DirWritten(s, X, d, r, p, cell)
      <4>1. PICK us, uno : us = u.s /\ uno = u.ino
        OBVIOUS
      <4>2. DirWritten(s, X, d, Done(WithInode(us, d, jno)), p, val[p])
        BY <1>2, <2>1, <3>1, <3>4, <3>8, <4>1, AppendWrites
      <4>3. DirWritten(s, X, d, r, p, cell)
        BY <3>4, <3>8, <4>1, <4>2
      <4>. QED  BY <4>3 DEF DirWritten
    <3>9. \A q \in 0..(s.inodes[d].size - 1) : Slots(s, s.inodes[d])[q] # Zero
      BY <2>1, <2>3, <2>6
    <3>. QED  BY <2>4, <3>2, <3>6, <3>7, <3>8, <3>9
  <2>7. CASE Unused(s, d) # {}
    <3>1. PICK p : p = Min(Unused(s, d)) /\ p \in Unused(s, d)
      <4>1. Unused(s, d) \in SUBSET Nat
        BY <2>3
      <4>. QED  BY <2>7, <4>1, MinIn
    <3>2. p \in 0..(ino.size - 1) /\ p \in FilePlaces /\ Slots(s, ino)[p] = Zero
      BY <2>3, <3>1
    <3>3. PICK t : t = SetCell(s, d, p, cell)
      OBVIOUS
    <3>4. r = Done(t)
      BY <1>2, <2>4, <2>7, <3>1, <3>3 DEF AddEntry
    <3>5. /\ FileStep(s, X, d, t)
          /\ \A q \in FilePlaces : Slots(t, t.inodes[d])[q] = IF q = p THEN cell ELSE Slots(s, ino)[q]
          /\ NoneLost(s, X) => NoneLost(t, X)
      BY <1>2, <2>1, <3>2, <3>3, SetCellStep
    <3>6. DirWritten(s, X, d, r, p, cell)
      BY <2>1, <3>2, <3>4, <3>5 DEF DirWritten, Done
    <3>. QED  BY <2>4, <2>5, <3>2, <3>6
  <2>. QED  BY <2>6, <2>7
<1>. QED  BY <1>1, <1>2

-----------------------------------------------------------------------------
(* Operations and the tree *)

\* The directories that a step on inode i sees as before, and one of which it changes a cell.
LEMMA DirsOfStep ==
    ASSUME NEW s, NEW X, Sound(s, X), NEW i, NEW t, Local(s, t, X, i), NEW Y \in SUBSET X,
           i \in Y => t.inodes[i].type = s.inodes[i].type
    PROVE  /\ Dirs(t, Y) = Dirs(s, X) \cap Y
           /\ \A e \in Dirs(t, Y) : e # i => DirSlots(t, Y)[e] = DirSlots(s, X)[e]
<1>1. \A j \in X \ {i} : t.inodes[j] = s.inodes[j] /\ Slots(t, t.inodes[j]) = Slots(s, s.inodes[j])
  <2>1. \A j \in X \ {i} : SameInode(s, t, j)
    BY LocalOthers
  <2>. QED  BY <2>1 DEF SameInode
<1>2. \A j \in Y : IsDir(t, j) <=> IsDir(s, j)
  BY <1>1 DEF IsDir
<1>3. Dirs(t, Y) = Dirs(s, X) \cap Y
  BY <1>2 DEF Dirs
<1>4. \A e \in Dirs(t, Y) : DirSlots(t, Y)[e] = Slots(t, t.inodes[e])
  BY DEF DirSlots
<1>5. \A e \in Dirs(s, X) : e \in X /\ DirSlots(s, X)[e] = Slots(s, s.inodes[e])
  BY DEF DirSlots, Dirs
<1>. QED  BY <1>1, <1>3, <1>4, <1>5

\* A step on inode i that changes nothing that the directories in Y hold.
LEMMA TreeKept ==
    ASSUME NEW s, NEW X, Sound(s, X), NEW i, NEW t, Local(s, t, X, i), NEW Y \in SUBSET X,
           i \in Y => t.inodes[i].type = s.inodes[i].type,
           i \in Y /\ IsDir(s, i) =>
              \A q \in FilePlaces : Slots(t, t.inodes[i])[q] = Slots(s, s.inodes[i])[q],
           NEW r, Tree(s, Y, r)
    PROVE  Tree(t, Y, r)
<1>1. Dirs(t, Y) = Dirs(s, X) \cap Y /\ \A e \in Dirs(t, Y) : e # i => DirSlots(t, Y)[e] = DirSlots(s, X)[e]
  BY DirsOfStep
<1>2. Dirs(t, Y) = Dirs(s, Y) /\ Dirs(s, Y) \subseteq Y
  BY <1>1 DEF Dirs
<1>3. \A e \in Dirs(s, Y) : e # i => DirSlots(t, Y)[e] = DirSlots(s, Y)[e]
  BY <1>1, <1>2 DEF DirSlots
<1>4. i \in Dirs(s, Y) => DirSlots(t, Y)[i] = DirSlots(s, Y)[i]
  <2>1. i \in Y /\ IsDir(s, i) => Slots(t, t.inodes[i]) = Slots(s, s.inodes[i])
    BY DEF Slots
  <2>. QED  BY <1>2, <2>1 DEF DirSlots, Dirs
<1>5. DirSlots(t, Y) = DirSlots(s, Y)
  <2>1. \A e \in Dirs(s, Y) : DirSlots(t, Y)[e] = DirSlots(s, Y)[e]
    BY <1>3, <1>4
  <2>. QED  BY <1>2, <2>1 DEF DirSlots
<1>. QED  BY <1>2, <1>5 DEF Tree

LEMMA EmptyInodes ==
    /\ FreeInode \in InodeRecs /\ NewFile \in InodeRecs
    /\ FreeInode.type = "free" /\ NewFile.type = "file" /\ NewFile.size = 0 /\ NewFile.indirect = 0
    /\ NoBlocks \in [0..(DIRECT_PTRS - 1) -> PtrValues]
    /\ \A b \in Blocks :
          /\ NewDir(b) \in InodeRecs /\ NewDir(b).type = "dir" /\ NewDir(b).size = 2
          /\ NewDir(b).indirect = 0 /\ NewDir(b).direct[0] = b
          /\ \A k \in 1..(DIRECT_PTRS - 1) : NewDir(b).direct[k] = 0
<1>1. DIRECT_PTRS \in Nat \ {0} /\ 0 \in 0..(DIRECT_PTRS - 1) /\ 0 \in 0..(Limit * SLOTS) /\ 2 \in 0..(Limit * SLOTS)
  <2>1. \A L, S \in Nat : L >= 1 /\ S >= 2 => L * S >= 2
    BY SMTT(30)
  <2>. QED  BY <2>1, Constants
<1>2. NoBlocks \in [0..(DIRECT_PTRS - 1) -> PtrValues]
  BY DEF NoBlocks, PtrValues
<1>3. ASSUME NEW b \in Blocks
      PROVE  /\ NewDir(b) \in InodeRecs /\ NewDir(b).type = "dir" /\ NewDir(b).size = 2
             /\ NewDir(b).indirect = 0 /\ NewDir(b).direct[0] = b
             /\ \A k \in 1..(DIRECT_PTRS - 1) : NewDir(b).direct[k] = 0
  <2>1. PICK f : f = [NoBlocks EXCEPT ![0] = b]
    OBVIOUS
  <2>2. f \in [0..(DIRECT_PTRS - 1) -> PtrValues] /\ f[0] = b /\ \A k \in 1..(DIRECT_PTRS - 1) : f[k] = 0
    BY <1>1, <1>2, <2>1 DEF NoBlocks, PtrValues
  <2>3. NewDir(b) = [type |-> "dir", size |-> 2, direct |-> f, indirect |-> 0]
    BY <2>1 DEF NewDir, Inode
  <2>. QED  BY <1>1, <2>2, <2>3 DEF InodeRecs, PtrValues
<1>. QED  BY <1>1, <1>2, <1>3 DEF FreeInode, NewFile, Inode, InodeRecs, PtrValues

\* unlink and rmdir: the inode and its blocks are given back.
LEMMA EraseFacts ==
    ASSUME NEW s, NEW X, Sound(s, X), NEW i \in X, NEW t, t = Erase(s, i)
    PROVE  /\ Local(s, t, X, i) /\ Sound(t, X \ {i})
           /\ NoneLost(s, X) => NoneLost(t, X \ {i})
<1>1. PICK ino : ino = s.inodes[i]
  OBVIOUS
<1>2. PICK P : P = Pointers(s, ino)
  OBVIOUS
<1>3. s \in Stores /\ i \in Inodes /\ s.fs.free_blocks = Cardinality(s.fs.bitmap) /\ InodeOK(s, i)
  BY DEF Sound
<1>4. /\ \A k \in 0..Limit : P[k] \in PtrValues
      /\ \A k, m \in 0..Limit : P[k] = P[m] /\ P[k] # 0 => k = m
      /\ BlocksOf(s, ino) \cap s.fs.bitmap = {}
  BY <1>1, <1>2, <1>3 DEF InodeOK, GoodInode
<1>5. BlocksOf(s, ino) = {P[k] : k \in 0..Limit} \ {0} /\ DOMAIN P = 0..Limit
  BY <1>2, PointersFacts
<1>6. PICK K : K = 0..Limit
  OBVIOUS
<1>7. \A k \in K : P[k] \notin s.fs.bitmap
  <2>1. 0 \notin s.fs.bitmap
    BY <1>3, StoreFields, Constants
  <2>. QED  BY <1>4, <1>5, <1>6, <2>1
<1>8. Restrict(P, K) = P
  BY <1>2, <1>5, <1>6 DEF Restrict, Pointers
<1>9. PICK u : u = FreeBlocks(s, Restrict(P, K))
  OBVIOUS
<1>10. /\ u \in Stores /\ u.inodes = s.inodes /\ u.blocks = s.blocks
       /\ u.fs.inode_bitmap = s.fs.inode_bitmap
       /\ u.fs.free_blocks = Cardinality(u.fs.bitmap)
       /\ u.fs.bitmap = s.fs.bitmap \cup ({P[k] : k \in K} \ {0})
  <2>1. K \in SUBSET (0..Limit) /\ s \in Stores /\ s.fs.free_blocks = Cardinality(s.fs.bitmap)
    BY <1>3, <1>6
  <2>2. \A k \in 0..Limit : P[k] \in PtrValues
    BY <1>4
  <2>3. \A k, m \in 0..Limit : P[k] = P[m] /\ P[k] # 0 => k = m
    BY <1>4
  <2>. QED  BY <1>7, <1>9, <2>1, <2>2, <2>3, FreeAt
<1>11. u = FreeInodeBlocks(s, ino)
  BY <1>2, <1>8, <1>9 DEF FreeInodeBlocks
<1>12. PICK v : v = WithInode(u, i, FreeInode)
  OBVIOUS
<1>13. v \in Stores /\ v.inodes = [s.inodes EXCEPT ![i] = FreeInode] /\ v.blocks = s.blocks /\ v.fs = u.fs
  BY <1>3, <1>10, <1>12, SetInodeFacts, EmptyInodes
<1>14. t = ReleaseInode(v, i)
  BY <1>1, <1>11, <1>12 DEF Erase, WithInode
<1>15. /\ t \in Stores /\ t.inodes = v.inodes /\ t.blocks = v.blocks /\ t.fs.bitmap = v.fs.bitmap
       /\ t.fs.free_blocks = v.fs.free_blocks /\ t.fs.inode_bitmap = v.fs.inode_bitmap \ {i}
  BY <1>3, <1>13, <1>14, ReleaseInodeFacts
<1>16. Mine(s, X, i) = s.fs.bitmap \cup BlocksOf(s, ino)
  BY <1>1 DEF Mine
<1>17. t.fs.bitmap = Mine(s, X, i)
  BY <1>5, <1>6, <1>10, <1>13, <1>15, <1>16
<1>18. Local(s, t, X, i)
  <2>1. \A j \in X \ {i} : t.inodes[j] = s.inodes[j] /\ j \in t.fs.inode_bitmap
    <3>1. \A j \in X \ {i} : j \in Inodes /\ j \in s.fs.inode_bitmap
      BY DEF Sound, InodeOK
    <3>. QED  BY <1>3, <1>10, <1>13, <1>15, <3>1, StoreFields
  <2>. QED  BY <1>10, <1>13, <1>15, <1>17, <2>1 DEF Local
<1>19. Sound(t, X \ {i})
  BY <1>18, LocalOthers
<1>20. NoneLost(s, X) => NoneLost(t, X \ {i})
  BY <1>3, <1>17, <1>18, LocalNoneLost
<1>. QED  BY <1>18, <1>19, <1>20

\* What files hold is as before, and no inode has become a file.
FilesKept(s, t, Z) ==
    \A j \in Z : /\ t.inodes[j].type = s.inodes[j].type
                 /\ t.inodes[j].type = "file" => Slots(t, t.inodes[j]) = Slots(s, s.inodes[j])
Sane(s, X) == Sound(s, X) /\ \E r : Tree(s, X, r)

LEMMA LocalFiles ==
    ASSUME NEW s, NEW X, Sound(s, X), NEW i, NEW t, Local(s, t, X, i), NEW Z, Z \subseteq X,
           i \in Z => t.inodes[i].type = s.inodes[i].type /\ t.inodes[i].type # "file"
    PROVE  FilesKept(s, t, Z)
<1>1. \A j \in X \ {i} : SameInode(s, t, j)
  BY LocalOthers
<1>. QED  BY <1>1 DEF SameInode, FilesKept

LEMMA FilesKeptTrans ==
    ASSUME NEW s, NEW t, NEW u, NEW Z, NEW Y, Y \subseteq Z, FilesKept(s, t, Z), FilesKept(t, u, Y)
    PROVE  FilesKept(s, u, Y)
  BY DEF FilesKept

-----------------------------------------------------------------------------
(* The operations *)

LEMMA SoundSubset ==
    ASSUME NEW s, NEW X, Sound(s, X), NEW Y \in SUBSET X
    PROVE  Sound(s, Y)
  BY DEF Sound

\* An entry of a new inode.
LEMMA TreeAdd ==
    ASSUME NEW s, NEW X, NEW i \in Inodes, i \notin X, Sound(s, X \cup {i}), NEW r, Tree(s, X, r),
           NEW d \in X, IsDir(s, d), NEW n \in Names, ~Exists(s, d, n),
           NEW p \in FilePlaces, p >= 2, NEW a, DirWritten(s, X \cup {i}, d, a, p, Entry(n, i)),
           IsDir(s, i) =>
              /\ Slots(s, s.inodes[i])[0] = Entry(".", i) /\ Slots(s, s.inodes[i])[1] = Entry("..", d)
              /\ \A q \in FilePlaces : q >= 2 => Slots(s, s.inodes[i])[q] = Zero
    PROVE  \E r2 : Tree(a.s, X \cup {i}, r2)
<1>1. PICK t, Y : t = a.s /\ Y = X \cup {i}
  OBVIOUS
<1>2. /\ Sound(s, Y) /\ FileStep(s, Y, d, t) /\ Local(s, t, Y, d) /\ t.inodes[d].type = s.inodes[d].type
      /\ Slots(s, s.inodes[d])[p] = Zero /\ d \in Y /\ X \in SUBSET Y /\ Y \in SUBSET Y
      /\ \A q \in FilePlaces :
            Slots(t, t.inodes[d])[q] = IF q = p THEN Entry(n, i) ELSE Slots(s, s.inodes[d])[q]
  BY <1>1 DEF DirWritten, FileStep
<1>3. Dirs(t, Y) = Dirs(s, Y) \cap Y /\ \A e \in Dirs(t, Y) : e # d => DirSlots(t, Y)[e] = DirSlots(s, Y)[e]
  BY <1>2, DirsOfStep
<1>4. PICK D, E, slot, slot2 :
         D = Dirs(s, X) /\ E = Dirs(t, Y) /\ slot = DirSlots(s, X) /\ slot2 = DirSlots(t, Y)
  OBVIOUS
<1>5. /\ E = Dirs(s, Y) /\ E = IF IsDir(s, i) THEN D \cup {i} ELSE D
      /\ D \subseteq X /\ d \in D
  BY <1>1, <1>2, <1>3, <1>4 DEF Dirs
<1>6. \A e \in D : slot[e] = Slots(s, s.inodes[e])
  BY <1>4 DEF DirSlots
<1>7. \A e \in E : slot2[e] = Slots(t, t.inodes[e])
  BY <1>4 DEF DirSlots
<1>8. \A e \in E : e # d => slot2[e] = Slots(s, s.inodes[e])
  BY <1>3, <1>4, <1>5 DEF DirSlots
<1>9. \A e \in D, q \in FilePlaces : slot2[e][q] = IF e = d /\ q = p THEN Entry(n, i) ELSE slot[e][q]
  <2>1. \A q \in FilePlaces : slot2[d][q] = IF q = p THEN Entry(n, i) ELSE slot[d][q]
    BY <1>2, <1>5, <1>6, <1>7
  <2>2. \A e \in D : e \in E /\ (e # d => slot2[e] = slot[e])
    BY <1>5, <1>6, <1>8
  <2>. QED  BY <2>1, <2>2
<1>10. i \in E => /\ slot2[i][0] = Entry(".", i) /\ slot2[i][1] = Entry("..", d)
                  /\ \A q \in FilePlaces : q >= 2 => slot2[i][q] = Zero
  <2>1. i \in E => IsDir(s, i)
    BY <1>5
  <2>. QED  BY <1>8, <2>1
<1>11. \A q \in FilePlaces, j \in X : slot[d][q] # Entry(n, j)
  <2>1. Sound(s, X)
    BY <1>2, SoundSubset
  <2>2. PICK slots : slots = Slots(s, s.inodes[d])
    OBVIOUS
  <2>3. \A q \in FilePlaces, j \in X : slots[q] # Entry(n, j)
    BY <2>1, <2>2, LookupFacts
  <2>. QED  BY <1>5, <1>6, <2>2, <2>3
<1>12. TreeShape(X, D, slot, r) /\ slot[d][p] = Zero /\ E \in {D, D \cup {i}}
  BY <1>2, <1>4, <1>5, <1>6 DEF Tree
<1>13. TreeShape(X \cup {i}, E, slot2, [j \in X \cup {i} |-> IF j = i THEN r[d] + 1 ELSE r[j]])
  BY <1>5, <1>9, <1>10, <1>11, <1>12, ShapeAdd
<1>14. PICK r2 : TreeShape(Y, E, slot2, r2)
  BY <1>1, <1>13
<1>. QED  BY <1>1, <1>4, <1>14 DEF Tree

LEMMA NewFileBlocks ==
    ASSUME NEW s
    PROVE  /\ \A k \in 0..Limit : Pointers(s, NewFile)[k] = 0
           /\ BlocksOf(s, NewFile) = {} /\ \A p \in FilePlaces : Slots(s, NewFile)[p] = Zero
<1>1. ASSUME NEW k \in 0..Limit  PROVE Pointers(s, NewFile)[k] = 0
  <2>1. \A m \in 0..(DIRECT_PTRS - 1) : NewFile.direct[m] = 0
    BY DEF NewFile, Inode, NoBlocks
  <2>2. NewFile.indirect = 0
    BY DEF NewFile, Inode
  <2>. QED  BY <2>1, <2>2, PointersFacts, IndexCases
<1>2. BlocksOf(s, NewFile) = {}
  BY <1>1, PointersFacts
<1>3. ASSUME NEW p \in FilePlaces  PROVE Slots(s, NewFile)[p] = Zero
  <2>1. p \div SLOTS \in 0..Limit
    BY PlaceCells, IndexCases
  <2>2. Pointers(s, NewFile)[p \div SLOTS] = 0
    BY <1>1, <2>1
  <2>. QED  BY <2>2, SlotsFacts DEF Unit
<1>. QED  BY <1>1, <1>2, <1>3

\* create_file takes an inode.
LEMMA NewFileFacts ==
    ASSUME NEW s, NEW X, Sound(s, X), HasInode(s), NEW i, i = NextInode(s),
           NEW t, t = WithInode(AllocInode(s), i, NewFile)
    PROVE  /\ i \in Inodes /\ i \notin X /\ Local(s, t, X, i) /\ Sound(t, X \cup {i})
           /\ t.inodes[i] = NewFile /\ \A j \in Inodes : j # i => t.inodes[j] = s.inodes[j]
           /\ NoneLost(s, X) => NoneLost(t, X \cup {i})
<1>1. s \in Stores /\ s.fs.free_blocks = Cardinality(s.fs.bitmap)
      /\ \A j \in X : j \in Inodes /\ j \in s.fs.inode_bitmap
  BY DEF Sound, InodeOK
<1>2. PICK u : u = AllocInode(s)
  OBVIOUS
<1>3. /\ i \in Inodes /\ i \notin s.fs.inode_bitmap /\ u \in Stores
      /\ u.inodes = s.inodes /\ u.blocks = s.blocks /\ u.fs.bitmap = s.fs.bitmap
      /\ u.fs.free_blocks = s.fs.free_blocks /\ u.fs.inode_bitmap = s.fs.inode_bitmap \cup {i}
  BY <1>1, <1>2, AllocInodeFacts
<1>4. t \in Stores /\ t.inodes = [s.inodes EXCEPT ![i] = NewFile] /\ t.blocks = s.blocks /\ t.fs = u.fs
  BY <1>2, <1>3, SetInodeFacts, EmptyInodes
<1>5. t.inodes[i] = NewFile /\ \A j \in Inodes : j # i => t.inodes[j] = s.inodes[j]
  BY <1>1, <1>3, <1>4, StoreFields
<1>6. i \notin X
  BY <1>1, <1>3
<1>7. Mine(s, X, i) = s.fs.bitmap
  BY <1>6 DEF Mine
<1>8. Local(s, t, X, i)
  BY <1>1, <1>3, <1>4, <1>5, <1>7 DEF Local
<1>9. BlocksOf(t, NewFile) = {} /\ \A k \in 0..Limit : Pointers(t, NewFile)[k] = 0
  BY NewFileBlocks
<1>10. InodeOK(t, i)
  <2>1. GoodInode(t, NewFile)
    BY <1>9 DEF GoodInode, PtrValues
  <2>. QED  BY <1>3, <1>4, <1>5, <1>9, <2>1, EmptyInodes DEF InodeOK
<1>11. Sound(t, X \cup {i})
  BY <1>3, <1>5, <1>8, <1>9, <1>10, LocalOne
<1>12. NoneLost(s, X) => NoneLost(t, X \cup {i})
  <2>1. Tight(t, NewFile)
    BY <1>9, IndexCases DEF Tight
  <2>2. Mine(s, X, i) \subseteq t.fs.bitmap \cup BlocksOf(t, t.inodes[i])
    BY <1>3, <1>4, <1>7
  <2>. QED  BY <1>3, <1>5, <1>8, <2>1, <2>2, LocalNoneLost
<1>. QED  BY <1>3, <1>5, <1>6, <1>8, <1>11, <1>12

\* A rollback gives back the new inode and its blocks.
GivenBack(t, u, i) ==
    /\ u \in Stores /\ u.inodes = t.inodes /\ u.blocks = t.blocks
    /\ u.fs.bitmap = t.fs.bitmap \cup BlocksOf(t, t.inodes[i])
    /\ u.fs.free_blocks = Cardinality(u.fs.bitmap)
    /\ u.fs.inode_bitmap = t.fs.inode_bitmap \ {i}
LEMMA Undone ==
    ASSUME NEW t, NEW X, NEW i \in Inodes, i \notin X, Sound(t, X \cup {i}), NEW r, Tree(t, X, r),
           NEW u, GivenBack(t, u, i)
    PROVE  /\ Sane(u, X) /\ FilesKept(t, u, X)
           /\ NoneLost(t, X \cup {i}) => NoneLost(u, X)
<1>1. PICK Y : Y = X \cup {i}
  OBVIOUS
<1>2. Sound(t, Y) /\ i \in Y /\ Y \ {i} = X /\ X \in SUBSET Y
  BY <1>1
<1>3. Mine(t, Y, i) = t.fs.bitmap \cup BlocksOf(t, t.inodes[i])
  BY <1>2 DEF Mine
<1>4. Local(t, u, Y, i)
  <2>1. \A j \in Y \ {i} : j \in t.fs.inode_bitmap
    BY <1>2 DEF Sound, InodeOK
  <2>. QED  BY <1>3, <2>1 DEF Local, GivenBack
<1>5. Sound(u, X)
  BY <1>2, <1>4, LocalOthers
<1>6. Tree(u, X, r)
  BY <1>2, <1>4, TreeKept
<1>7. FilesKept(t, u, X)
  BY <1>2, <1>4, LocalFiles
<1>8. NoneLost(t, Y) => NoneLost(u, X)
  <2>1. Mine(t, Y, i) \subseteq u.fs.bitmap
    BY <1>3 DEF GivenBack
  <2>. QED  BY <1>2, <1>4, <2>1, LocalNoneLost
<1>. QED  BY <1>1, <1>5, <1>6, <1>7, <1>8 DEF Sane

\* The first two places of a directory hold "." and "..".
LEMMA DotSlots ==
    ASSUME NEW s, NEW X, NEW r, Tree(s, X, r), NEW d \in X, IsDir(s, d)
    PROVE  Slots(s, s.inodes[d])[0] # Zero /\ Slots(s, s.inodes[d])[1] # Zero
<1>1. d \in Dirs(s, X) /\ DirSlots(s, X)[d] = Slots(s, s.inodes[d])
  BY DEF Dirs, DirSlots
<1>2. DirSlots(s, X)[d][0] = Entry(".", d) /\ \E u \in X : DirSlots(s, X)[d][1] = Entry("..", u)
  BY <1>1 DEF Tree, TreeShape
<1>. QED  BY <1>1, <1>2, CellFacts

\* An operation that has failed: all is as before, but blocks may be lost if it ran out of space.
OpFailed(s, X, r) ==
    /\ r.ok = FALSE /\ r.full \in BOOLEAN /\ Sane(r.s, X) /\ FilesKept(s, r.s, X)
    /\ ~r.full /\ NoneLost(s, X) => NoneLost(r.s, X)
\* One that has succeeded; Y has the inodes in use then.
OpDone(s, X, r, Y) ==
    /\ r.ok = TRUE /\ r.full = FALSE /\ Sane(r.s, Y) /\ FilesKept(s, r.s, X \cap Y)
    /\ NoneLost(s, X) => NoneLost(r.s, Y)

LEMMA Unmoved ==
    ASSUME NEW s, NEW X, Sane(s, X), NEW r, r.s = s, r.ok = FALSE, r.full \in BOOLEAN
    PROVE  OpFailed(s, X, r)
  BY DEF OpFailed, FilesKept

\* A new inode i has been set up in t.
SetUp(s, X, t, i, d) ==
    /\ i \in Inodes /\ i \notin X /\ Local(s, t, X, i) /\ Sound(t, X \cup {i})
    /\ \A j \in Inodes : j # i => t.inodes[j] = s.inodes[j]
    /\ NoneLost(s, X) => NoneLost(t, X \cup {i})
    /\ IsDir(t, i) =>
          /\ Slots(t, t.inodes[i])[0] = Entry(".", i) /\ Slots(t, t.inodes[i])[1] = Entry("..", d)
          /\ \A q \in FilePlaces : q >= 2 => Slots(t, t.inodes[i])[q] = Zero
\* Its entry is not there, and all is still to be given back.
NotAdded(s, X, t, i, a) ==
    /\ a.ok = FALSE /\ a.full \in BOOLEAN /\ Sound(a.s, X \cup {i}) /\ \E r : Tree(a.s, X, r)
    /\ FilesKept(s, a.s, X) /\ a.s.inodes[i] = t.inodes[i]
    /\ ~a.full /\ NoneLost(s, X) => NoneLost(a.s, X \cup {i})
LEMMA AddNew ==
    ASSUME NEW s, NEW X, Sane(s, X), NEW t, NEW i, NEW d \in X, SetUp(s, X, t, i, d),
           NEW n \in Names, NEW a, a = AddEntry(t, d, n, i)
    PROVE  \/ OpDone(s, X, a, X \cup {i}) /\ SameInode(t, a.s, i)
           \/ NotAdded(s, X, t, i, a)
<1>. /\ i \in Inodes /\ i \notin X /\ Local(s, t, X, i) /\ Sound(t, X \cup {i})
     /\ \A j \in Inodes : j # i => t.inodes[j] = s.inodes[j]
     /\ NoneLost(s, X) => NoneLost(t, X \cup {i})
     /\ IsDir(t, i) =>
          /\ Slots(t, t.inodes[i])[0] = Entry(".", i) /\ Slots(t, t.inodes[i])[1] = Entry("..", d)
          /\ \A q \in FilePlaces : q >= 2 => Slots(t, t.inodes[i])[q] = Zero
  BY DEF SetUp
<1>1. PICK r : Tree(s, X, r)
  BY DEF Sane
<1>2. Sound(s, X) /\ X \in SUBSET X /\ d \in Inodes
  BY DEF Sane, Sound
<1>3. Tree(t, X, r) /\ FilesKept(s, t, X)
  BY <1>1, <1>2, TreeKept, LocalFiles
<1>4. PICK Y : Y = X \cup {i}
  OBVIOUS
<1>5. Sound(t, Y) /\ d \in Y /\ X \in SUBSET Y
  BY <1>4
<1>6. CASE ~IsDir(t, d)
  <2>1. a.s = t /\ a.ok = FALSE /\ a.full = FALSE
    BY <1>6 DEF AddEntry, Error
  <2>. QED  BY <1>3, <2>1 DEF NotAdded
<1>7. CASE IsDir(t, d)
  <2>1. Slots(t, t.inodes[d])[0] # Zero /\ Slots(t, t.inodes[d])[1] # Zero
    BY <1>3, <1>7, DotSlots
  <2>2. n \in Names \cup {".", ".."}
    OBVIOUS
  <2>3. \/ Refused(t, a)
        \/ DirFull(t, Y, d, a)
        \/ /\ ~Exists(t, d, n)
           /\ \E p \in FilePlaces : p >= 2 /\ DirWritten(t, Y, d, a, p, Entry(n, i))
    BY <1>5, <2>1, <2>2, AddEntryFacts
  <2>4. CASE Refused(t, a)
    BY <1>3, <2>4 DEF Refused, NotAdded
  <2>5. ASSUME FileStep(t, Y, d, a.s)  PROVE FilesKept(s, a.s, X) /\ SameInode(t, a.s, i)
    <3>1. PICK u : u = a.s
      OBVIOUS
    <3>2. Local(t, u, Y, d) /\ u.inodes[d].type = t.inodes[d].type
      BY <2>5, <3>1 DEF FileStep
    <3>3. u.inodes[d].type # "file"
      BY <1>7, <3>2 DEF IsDir
    <3>4. FilesKept(t, u, X)
      BY <1>5, <3>2, <3>3, LocalFiles
    <3>5. FilesKept(s, u, X)
      BY <1>3, <3>4, FilesKeptTrans
    <3>6. i \in Y \ {d}
      BY <1>4
    <3>7. SameInode(t, u, i)
      BY <1>5, <3>2, <3>6, LocalOthers
    <3>. QED  BY <3>1, <3>5, <3>7
  <2>6. CASE DirFull(t, Y, d, a)
    <3>1. PICK u : u = a.s
      OBVIOUS
    <3>2. /\ Local(t, u, Y, d) /\ u.inodes[d].type = t.inodes[d].type /\ Sound(u, Y)
          /\ \A q \in FilePlaces : Slots(u, u.inodes[d])[q] = Slots(t, t.inodes[d])[q]
      BY <2>6, <3>1 DEF DirFull, FileStep
    <3>3. Tree(u, X, r)
      BY <1>3, <1>5, <3>2, TreeKept
    <3>4. a.ok = FALSE /\ a.full = TRUE /\ FileStep(t, Y, d, a.s) /\ a.s.inodes = t.inodes
      BY <2>6 DEF DirFull
    <3>. QED  BY <1>4, <2>5, <3>1, <3>2, <3>3, <3>4 DEF NotAdded
  <2>7. CASE \E p \in FilePlaces : ~Exists(t, d, n) /\ p >= 2 /\ DirWritten(t, Y, d, a, p, Entry(n, i))
    <3>1. PICK p \in FilePlaces : ~Exists(t, d, n) /\ p >= 2 /\ DirWritten(t, Y, d, a, p, Entry(n, i))
      BY <2>7
    <3>2. \E r2 : Tree(a.s, X \cup {i}, r2)
      BY <1>3, <1>4, <1>7, <3>1, TreeAdd
    <3>3. a.ok = TRUE /\ a.full = FALSE /\ FileStep(t, Y, d, a.s) /\ (NoneLost(t, Y) => NoneLost(a.s, Y))
      BY <3>1 DEF DirWritten
    <3>4. Sound(a.s, Y) /\ X \cap Y = X
      BY <1>4, <3>3 DEF FileStep
    <3>. QED  BY <1>4, <2>5, <3>2, <3>3, <3>4 DEF OpDone, Sane
  <2>. QED  BY <2>3, <2>4, <2>6, <2>7
<1>. QED  BY <1>6, <1>7

\* What is known of a file that has just been created.
Fresh(t, i) == t.inodes[i] = NewFile /\ \A p \in FilePlaces : Slots(t, t.inodes[i])[p] = Zero

\* create_file
LEMMA CreateFileFacts ==
    ASSUME NEW s, NEW X, Sane(s, X), NEW d \in Inodes, d \in X \/ ~IsDir(s, d), NEW n \in Names,
           NEW i, i = NextInode(s), NEW c, c = CreateFile(s, d, n)
    PROVE  \/ OpFailed(s, X, c)
           \/ i \in Inodes /\ i \notin X /\ OpDone(s, X, c, X \cup {i}) /\ Fresh(c.s, i)
<1>1. CASE ~HasInode(s)
  <2>1. c.s = s /\ c.ok = FALSE /\ c.full = TRUE
    BY <1>1 DEF CreateFile, Full
  <2>. QED  BY <2>1, Unmoved
<1>2. CASE HasInode(s)
  <2>1. PICK t : t = WithInode(AllocInode(s), i, NewFile)
    OBVIOUS
  <2>2. Sound(s, X)
    BY DEF Sane
  <2>3. /\ i \in Inodes /\ i \notin X /\ Local(s, t, X, i) /\ Sound(t, X \cup {i})
        /\ t.inodes[i] = NewFile /\ \A j \in Inodes : j # i => t.inodes[j] = s.inodes[j]
        /\ NoneLost(s, X) => NoneLost(t, X \cup {i})
    BY <1>2, <2>1, <2>2, NewFileFacts
  <2>4. PICK a : a = AddEntry(t, d, n, i)
    OBVIOUS
  <2>5. c = UndoInode(a, i)
    BY <1>2, <2>1, <2>4 DEF CreateFile, AddFile, WithInode
  <2>6. ~IsDir(t, i)
    BY <2>3, EmptyInodes DEF IsDir
  <2>7. (OpDone(s, X, a, X \cup {i}) /\ SameInode(t, a.s, i)) \/ NotAdded(s, X, t, i, a)
    <3>1. CASE d \in X
      <4>1. SetUp(s, X, t, i, d)
        BY <2>3, <2>6 DEF SetUp
      <4>. QED  BY <2>4, <3>1, <4>1, AddNew
    <3>2. CASE d \notin X
      <4>1. ~IsDir(t, d)
        BY <2>3, <2>6, <3>2 DEF IsDir
      <4>2. a.s = t /\ a.ok = FALSE /\ a.full = FALSE
        BY <2>4, <4>1 DEF AddEntry, Error
      <4>3. PICK r : Tree(s, X, r)
        BY DEF Sane
      <4>4. Tree(t, X, r) /\ FilesKept(s, t, X)
        <5>1. X \in SUBSET X
          OBVIOUS
        <5>. QED  BY <2>2, <2>3, <4>3, <5>1, TreeKept, LocalFiles
      <4>. QED  BY <2>3, <4>2, <4>4 DEF NotAdded
    <3>. QED  BY <3>1, <3>2
  <2>8. CASE OpDone(s, X, a, X \cup {i}) /\ SameInode(t, a.s, i)
    <3>1. c = a
      BY <2>5, <2>8 DEF UndoInode, OpDone
    <3>2. a.s.inodes[i] = NewFile
      BY <2>3, <2>8 DEF SameInode
    <3>3. \A p \in FilePlaces : Slots(a.s, NewFile)[p] = Zero
      BY NewFileBlocks
    <3>4. Fresh(a.s, i)
      BY <3>2, <3>3 DEF Fresh
    <3>. QED  BY <2>3, <2>8, <3>1, <3>4
  <2>9. CASE NotAdded(s, X, t, i, a)
    <3>. USE <2>9 DEF NotAdded
    <3>1. PICK v, u : v = a.s /\ u = ReleaseInode(v, i)
      OBVIOUS
    <3>2. c = [a EXCEPT !.s = u]
      BY <2>5, <2>9, <3>1 DEF UndoInode
    <3>3. \E e : a = Error(e) \/ a = Full(e) \/ a = Done(e)
      BY <2>4 DEF AddEntry, AppendEntry, PutInode
    <3>4. c.s = u /\ c.ok = FALSE /\ c.full = a.full
      BY <2>9, <3>2, <3>3 DEF Error, Full, Done
    <3>5. Sound(v, X \cup {i}) /\ v \in Stores /\ v.inodes[i] = NewFile
          /\ v.fs.free_blocks = Cardinality(v.fs.bitmap)
      BY <2>3, <2>9, <3>1 DEF Sound
    <3>6. /\ u \in Stores /\ u.inodes = v.inodes /\ u.blocks = v.blocks /\ u.fs.bitmap = v.fs.bitmap
          /\ u.fs.free_blocks = v.fs.free_blocks /\ u.fs.inode_bitmap = v.fs.inode_bitmap \ {i}
      BY <2>3, <3>1, <3>5, ReleaseInodeFacts
    <3>7. BlocksOf(v, v.inodes[i]) = {}
      BY <3>5, NewFileBlocks
    <3>8. GivenBack(v, u, i)
      BY <3>5, <3>6, <3>7 DEF GivenBack
    <3>9. PICK r : Tree(v, X, r)
      BY <2>9, <3>1
    <3>10. Sane(u, X) /\ FilesKept(v, u, X) /\ (NoneLost(v, X \cup {i}) => NoneLost(u, X))
      BY <2>3, <3>5, <3>8, <3>9, Undone
    <3>11. FilesKept(s, u, X)
      <4>1. FilesKept(s, v, X)
        BY <2>9, <3>1
      <4>. QED  BY <3>10, <4>1, FilesKeptTrans
    <3>. QED  BY <2>9, <3>1, <3>4, <3>10, <3>11 DEF OpFailed
  <2>. QED  BY <2>7, <2>8, <2>9
<1>. QED  BY <1>1, <1>2

\* The blocks and places of a new directory.
LEMMA NewDirBlocks ==
    ASSUME NEW s \in Stores, NEW b \in Blocks
    PROVE  /\ Pointers(s, NewDir(b))[0] = b /\ \A k \in 0..Limit : k # 0 => Pointers(s, NewDir(b))[k] = 0
           /\ BlocksOf(s, NewDir(b)) = {b} /\ GoodInode(s, NewDir(b))
           /\ \A p \in FilePlaces : Slots(s, NewDir(b))[p] = IF p < SLOTS THEN s.blocks[b][p] ELSE Zero
<1>1. 0 \in 0..(DIRECT_PTRS - 1) /\ 0 \in 0..Limit /\ b # 0 /\ DIRECT_PTRS \in Nat \ {0} /\ Limit \in Nat
  BY Constants
<1>2. Pointers(s, NewDir(b))[0] = b
  BY <1>1, EmptyInodes, PointersFacts
<1>3. ASSUME NEW k \in 0..Limit, k # 0  PROVE Pointers(s, NewDir(b))[k] = 0
  <2>1. NewDir(b).indirect = 0 /\ \A m \in 1..(DIRECT_PTRS - 1) : NewDir(b).direct[m] = 0
    BY EmptyInodes
  <2>2. k \in 0..(DIRECT_PTRS - 1) => k \in 1..(DIRECT_PTRS - 1)
    BY <1>1, <1>3
  <2>. QED  BY <2>1, <2>2, PointersFacts, IndexCases
<1>4. BlocksOf(s, NewDir(b)) = {b}
  <2>1. BlocksOf(s, NewDir(b)) = {Pointers(s, NewDir(b))[k] : k \in 0..Limit} \ {0}
    BY PointersFacts
  <2>. QED  BY <1>1, <1>2, <1>3, <2>1
<1>5. GoodInode(s, NewDir(b))
  BY <1>2, <1>3 DEF GoodInode, PtrValues
<1>6. ASSUME NEW p \in FilePlaces
      PROVE  Slots(s, NewDir(b))[p] = IF p < SLOTS THEN s.blocks[b][p] ELSE Zero
  <2>1. PICK k \in 0..(Limit - 1), c \in 0..(SLOTS - 1) : k = p \div SLOTS /\ c = p % SLOTS /\ p = k * SLOTS + c
    BY PlaceCells
  <2>2. Slots(s, NewDir(b))[p] = Unit(s, NewDir(b), k, c) /\ k \in 0..Limit
    BY <2>1, SlotsFacts, IndexCases
  <2>3. SLOTS \in Nat /\ k \in Nat /\ c \in Nat /\ c < SLOTS
    BY Constants
  <2>4. CASE k = 0
    <3>1. p = c
      BY <2>1, <2>3, <2>4
    <3>. QED  BY <1>1, <1>2, <2>2, <2>3, <2>4, <3>1 DEF Unit
  <2>5. CASE k # 0
    <3>1. \A S, m, x \in Nat : m >= 1 => m * S + x >= S
      BY SMTT(30)
    <3>2. p >= SLOTS
      BY <2>1, <2>3, <2>5, <3>1
    <3>3. p \in Nat
      BY PlaceCells
    <3>. QED  BY <1>3, <2>2, <2>3, <2>5, <3>2, <3>3 DEF Unit
  <2>. QED  BY <2>4, <2>5
<1>. QED  BY <1>2, <1>3, <1>4, <1>5, <1>6

\* create_dir takes an inode and a block.
LEMMA NewDirFacts ==
    ASSUME NEW s, NEW X, Sound(s, X), HasInode(s), NEW i, i = NextInode(s), NEW d \in Inodes,
           NEW u, u = AllocInode(s), HasBlock(u), NEW b, b = NextBlock(u),
           NEW t, t = WithInode(WithBlock(AllocBlock(u), b, DirBlock(i, d)), i, NewDir(b))
    PROVE  b \in Blocks /\ SetUp(s, X, t, i, d) /\ t.inodes[i] = NewDir(b)
<1>1. s \in Stores /\ s.fs.free_blocks = Cardinality(s.fs.bitmap)
      /\ \A j \in X : j \in Inodes /\ j \in s.fs.inode_bitmap
  BY DEF Sound, InodeOK
<1>2. /\ i \in Inodes /\ i \notin s.fs.inode_bitmap /\ u \in Stores
      /\ u.inodes = s.inodes /\ u.blocks = s.blocks /\ u.fs.bitmap = s.fs.bitmap
      /\ u.fs.free_blocks = s.fs.free_blocks /\ u.fs.inode_bitmap = s.fs.inode_bitmap \cup {i}
  BY <1>1, AllocInodeFacts
<1>3. PICK v : v = AllocBlock(u)
  OBVIOUS
<1>4. /\ v \in Stores /\ b \in u.fs.bitmap /\ b \in Blocks
      /\ v.inodes = u.inodes /\ v.blocks = u.blocks
      /\ v.fs.bitmap = u.fs.bitmap \ {b}
      /\ v.fs.inode_bitmap = u.fs.inode_bitmap
      /\ v.fs.free_blocks = Cardinality(v.fs.bitmap)
  <2>1. u.fs.free_blocks = Cardinality(u.fs.bitmap)
    BY <1>1, <1>2
  <2>. QED  BY <1>2, <1>3, <2>1, AllocBlockFacts
<1>5. PICK new : new = DirBlock(i, d)
  OBVIOUS
<1>6. /\ new \in [Cells -> CellValues] /\ new[0] = Entry(".", i) /\ new[1] = Entry("..", d)
      /\ \A c \in Cells : c # 0 /\ c # 1 => new[c] = Zero
  <2>1. Entry(".", i) \in CellValues /\ Entry("..", d) \in CellValues
    BY <1>2, CellFacts
  <2>2. 0 \in Cells /\ 1 \in Cells
    BY Constants
  <2>. QED  BY <1>5, <2>1, <2>2, ZeroBlockType DEF DirBlock
<1>7. PICK w : w = WithBlock(v, b, new)
  OBVIOUS
<1>8. w \in Stores /\ w.blocks = [v.blocks EXCEPT ![b] = new] /\ w.inodes = v.inodes /\ w.fs = v.fs
  BY <1>4, <1>6, <1>7, SetBlockFacts
<1>9. NewDir(b) \in InodeRecs /\ NewDir(b).type = "dir" /\ NewDir(b).size = 2 /\ NewDir(b).indirect = 0
  BY <1>4, EmptyInodes
<1>10. PICK dir \in InodeRecs : dir = NewDir(b)
  BY <1>9
<1>11. t = WithInode(w, i, dir)
  BY <1>3, <1>5, <1>7, <1>10
<1>12. t \in Stores /\ t.inodes = [w.inodes EXCEPT ![i] = dir] /\ t.blocks = w.blocks /\ t.fs = w.fs
  BY <1>2, <1>8, <1>11, SetInodeFacts
<1>13. t.inodes[i] = dir /\ \A j \in Inodes : j # i => t.inodes[j] = s.inodes[j]
  BY <1>1, <1>2, <1>4, <1>8, <1>12, StoreFields
<1>14. i \notin X /\ Mine(s, X, i) = s.fs.bitmap
  BY <1>1, <1>2 DEF Mine
<1>15. t.blocks[b] = new /\ \A x \in Blocks : x # b => t.blocks[x] = s.blocks[x]
  BY <1>1, <1>2, <1>4, <1>8, <1>12, StoreFields
<1>16. Local(s, t, X, i)
  <2>1. t.fs.bitmap = s.fs.bitmap \ {b} /\ t.fs.inode_bitmap = s.fs.inode_bitmap \cup {i}
        /\ t.fs.free_blocks = Cardinality(t.fs.bitmap)
    BY <1>2, <1>4, <1>8, <1>12, ZenonT(60)
  <2>2. \A x \in Blocks : x \notin Mine(s, X, i) => t.blocks[x] = s.blocks[x]
    BY <1>2, <1>4, <1>14, <1>15
  <2>3. \A j \in X \ {i} : t.inodes[j] = s.inodes[j] /\ j \in t.fs.inode_bitmap
    BY <1>1, <1>13, <2>1
  <2>. QED  BY <1>12, <1>14, <2>1, <2>2, <2>3 DEF Local
<1>17. /\ Pointers(t, dir)[0] = b /\ \A k \in 0..Limit : k # 0 => Pointers(t, dir)[k] = 0
       /\ BlocksOf(t, dir) = {b} /\ GoodInode(t, dir)
       /\ \A p \in FilePlaces : Slots(t, dir)[p] = IF p < SLOTS THEN t.blocks[b][p] ELSE Zero
  BY <1>4, <1>10, <1>12, NewDirBlocks
<1>18. SLOTS \in Nat /\ SLOTS >= 2 /\ 0..(SLOTS - 1) \in SUBSET Cells /\ b # 0
  BY <1>4, Constants
<1>19. /\ Slots(t, dir)[0] = Entry(".", i) /\ Slots(t, dir)[1] = Entry("..", d)
       /\ \A q \in FilePlaces : q >= 2 => Slots(t, dir)[q] = Zero
  <2>1. \A q \in FilePlaces : q < SLOTS => q \in Cells
    BY <1>18, FirstPlaces
  <2>. QED  BY <1>6, <1>15, <1>17, <1>18, <2>1, FirstPlaces
<1>20. LastBlock(2) = 0
  <2>1. \A S \in Nat : S >= 2 => (2 - 1) \div S = 0
    BY SMTT(30)
  <2>. QED  BY <1>18, <2>1 DEF LastBlock
<1>21. DirShape(t, dir)
  <2>1. \A k \in 0..(Limit - 1) : k <= 0 => k = 0
    OBVIOUS
  <2>2. dir.size = 2
    BY <1>9, <1>10
  <2>. QED  BY <1>17, <1>18, <1>19, <1>20, <2>1, <2>2 DEF DirShape
<1>22. InodeOK(t, i)
  <2>1. i \in t.fs.inode_bitmap /\ BlocksOf(t, dir) \cap t.fs.bitmap = {}
    BY <1>2, <1>4, <1>8, <1>12, <1>17
  <2>. QED  BY <1>9, <1>10, <1>13, <1>17, <1>21, <2>1 DEF InodeOK
<1>23. Sound(t, X \cup {i})
  <2>1. BlocksOf(t, t.inodes[i]) \subseteq Mine(s, X, i)
    BY <1>2, <1>4, <1>13, <1>14, <1>17
  <2>. QED  BY <1>2, <1>16, <1>22, <2>1, LocalOne
<1>24. NoneLost(s, X) => NoneLost(t, X \cup {i})
  <2>1. Tight(t, t.inodes[i])
    <3>1. \A k \in 0..(Limit - 1) : k \in 0..Limit
      BY IndexCases
    <3>2. \A k \in 0..(Limit - 1) : Pointers(t, dir)[k] # 0 => k <= LastBlock(dir.size)
      BY <1>9, <1>10, <1>17, <1>20, <3>1
    <3>. QED  BY <1>13, <3>2 DEF Tight
  <2>2. Mine(s, X, i) \subseteq t.fs.bitmap \cup BlocksOf(t, t.inodes[i])
    BY <1>2, <1>4, <1>8, <1>12, <1>13, <1>14, <1>17
  <2>. QED  BY <1>2, <1>16, <2>1, <2>2, LocalNoneLost, ZenonT(60)
<1>. QED  BY <1>2, <1>4, <1>10, <1>13, <1>14, <1>16, <1>19, <1>23, <1>24 DEF SetUp

\* The rollback of create_dir.
LEMMA GiveBackDir ==
    ASSUME NEW v, NEW X, NEW i \in Inodes, Sound(v, X \cup {i}), NEW b \in Blocks,
           v.inodes[i] = NewDir(b), NEW u, u = ReleaseInode(FreeBlocks(v, [k \in {0} |-> b]), i)
    PROVE  GivenBack(v, u, i)
<1>1. v \in Stores /\ v.fs.free_blocks = Cardinality(v.fs.bitmap) /\ InodeOK(v, i)
  BY DEF Sound
<1>2. BlocksOf(v, v.inodes[i]) = {b}
  BY <1>1, NewDirBlocks
<1>3. b \notin v.fs.bitmap /\ b # 0
  BY <1>1, <1>2, Constants DEF InodeOK
<1>4. PICK K, ptrs : K = {0} /\ ptrs = [k \in K |-> b]
  OBVIOUS
<1>5. /\ ptrs \in [K -> PtrValues] /\ IsFiniteSet(K) /\ {ptrs[k] : k \in K} \ {0} = {b}
      /\ \A k, m \in K : ptrs[k] = ptrs[m] /\ ptrs[k] # 0 => k = m
      /\ \A k \in K : ptrs[k] \notin v.fs.bitmap
  <2>1. IsFiniteSet({0})
    BY FS_Singleton
  <2>. QED  BY <1>3, <1>4, <2>1 DEF PtrValues
<1>6. PICK w : w = FreeBlocks(v, ptrs)
  OBVIOUS
<1>7. /\ w \in Stores /\ w.inodes = v.inodes /\ w.blocks = v.blocks
      /\ w.fs.bitmap = v.fs.bitmap \cup {b}
      /\ w.fs.inode_bitmap = v.fs.inode_bitmap
      /\ w.fs.free_blocks = Cardinality(w.fs.bitmap)
  <2>1. /\ FreeBlocks(v, ptrs) \in Stores
        /\ FreeBlocks(v, ptrs).inodes = v.inodes /\ FreeBlocks(v, ptrs).blocks = v.blocks
        /\ FreeBlocks(v, ptrs).fs.bitmap = v.fs.bitmap \cup ({ptrs[k] : k \in K} \ {0})
        /\ FreeBlocks(v, ptrs).fs.inode_bitmap = v.fs.inode_bitmap
        /\ FreeBlocks(v, ptrs).fs.free_inodes = v.fs.free_inodes
        /\ v.fs.free_blocks = Cardinality(v.fs.bitmap) =>
             FreeBlocks(v, ptrs).fs.free_blocks = Cardinality(FreeBlocks(v, ptrs).fs.bitmap)
    BY <1>1, <1>5, FreeBlocksFacts
  <2>. QED  BY <1>1, <1>5, <1>6, <2>1
<1>8. u = ReleaseInode(w, i)
  BY <1>4, <1>6, Zenon
<1>9. /\ u \in Stores /\ u.inodes = w.inodes /\ u.blocks = w.blocks /\ u.fs.bitmap = w.fs.bitmap
      /\ u.fs.free_blocks = w.fs.free_blocks /\ u.fs.inode_bitmap = w.fs.inode_bitmap \ {i}
  <2>1. w \in Stores
    BY <1>7
  <2>2. /\ ReleaseInode(w, i) \in Stores
        /\ ReleaseInode(w, i).inodes = w.inodes /\ ReleaseInode(w, i).blocks = w.blocks
        /\ ReleaseInode(w, i).fs.bitmap = w.fs.bitmap
        /\ ReleaseInode(w, i).fs.free_blocks = w.fs.free_blocks
        /\ ReleaseInode(w, i).fs.inode_bitmap = w.fs.inode_bitmap \ {i}
    BY <2>1, ReleaseInodeFacts
  <2>. QED  BY <1>8, <2>2, Zenon
<1>. QED  BY <1>2, <1>7, <1>9 DEF GivenBack

\* A new directory whose parent is gone: it becomes its own parent if the parent's inode is
\* the one it takes.
LEMMA AddOrphan ==
    ASSUME NEW s, NEW X, Sane(s, X), NEW t, NEW i, NEW d \in Inodes, d \notin X, ~IsDir(s, d),
           SetUp(s, X, t, i, d), NEW b \in Blocks, t.inodes[i] = NewDir(b),
           NEW n \in Names, NEW a, a = AddEntry(t, d, n, i)
    PROVE  \/ a.ok = TRUE /\ a.full = FALSE /\ Sound(a.s, X \cup {i})
           \/ NotAdded(s, X, t, i, a)
<1>1. PICK r : Tree(s, X, r)
  BY DEF Sane
<1>2. Sound(s, X) /\ X \in SUBSET X
  BY DEF Sane
<1>3. i \in Inodes /\ i \notin X /\ Local(s, t, X, i) /\ Sound(t, X \cup {i})
  BY DEF SetUp
<1>4. Tree(t, X, r) /\ FilesKept(s, t, X)
  BY <1>1, <1>2, <1>3, TreeKept, LocalFiles
<1>5. PICK Y : Y = X \cup {i}
  OBVIOUS
<1>6. Sound(t, Y) /\ i \in Y /\ X \in SUBSET Y
  BY <1>3, <1>5
<1>7. NoneLost(s, X) => NoneLost(t, X \cup {i})
  BY DEF SetUp
<1>8. CASE Refused(t, a)
  BY <1>3, <1>4, <1>7, <1>8 DEF Refused, NotAdded
<1>9. CASE d # i
  <2>1. ~IsDir(t, d)
    BY <1>9 DEF SetUp, IsDir
  <2>2. Refused(t, a)
    BY <2>1 DEF AddEntry, Error, Refused
  <2>. QED  BY <1>8, <2>2
<1>10. CASE d = i
  <2>1. IsDir(t, i)
    BY EmptyInodes DEF IsDir
  <2>2. Slots(t, t.inodes[i])[0] # Zero /\ Slots(t, t.inodes[i])[1] # Zero
    BY <2>1, CellFacts DEF SetUp
  <2>3. n \in Names \cup {".", ".."} /\ a = AddEntry(t, i, n, i)
    BY <1>10
  <2>4. \/ Refused(t, a)
        \/ DirFull(t, Y, i, a)
        \/ \E p \in FilePlaces : p >= 2 /\ DirWritten(t, Y, i, a, p, Entry(n, i))
    BY <1>3, <1>6, <2>2, <2>3, AddEntryFacts
  <2>5. CASE DirFull(t, Y, i, a)
    <3>1. PICK u : u = a.s
      OBVIOUS
    <3>2. Local(t, u, Y, i) /\ Sound(u, Y) /\ a.ok = FALSE /\ a.full = TRUE /\ u.inodes = t.inodes
      BY <2>5, <3>1 DEF DirFull, FileStep
    <3>3. Tree(u, X, r) /\ FilesKept(t, u, X)
      BY <1>3, <1>4, <1>6, <3>2, TreeKept, LocalFiles
    <3>4. FilesKept(s, u, X)
      BY <1>4, <3>3, FilesKeptTrans
    <3>. QED  BY <1>5, <3>1, <3>2, <3>3, <3>4 DEF NotAdded
  <2>6. CASE \E p \in FilePlaces : p >= 2 /\ DirWritten(t, Y, i, a, p, Entry(n, i))
    BY <1>5, <2>6 DEF DirWritten, FileStep
  <2>. QED  BY <1>8, <2>4, <2>5, <2>6
<1>. QED  BY <1>9, <1>10

\* create_dir
MadeDir(s, X, d, i, c) ==
    \/ OpFailed(s, X, c)
    \/ /\ d \in X /\ i \in Inodes /\ i \notin X /\ OpDone(s, X, c, X \cup {i})
       /\ c.s.inodes[i].type = "dir"
    \/ d \notin X /\ c.ok = TRUE /\ c.full = FALSE /\ Sound(c.s, X \cup {i})
LEMMA CreateDirFacts ==
    ASSUME NEW s, NEW X, Sane(s, X), NEW d \in Inodes, d \in X \/ ~IsDir(s, d), NEW n \in Names,
           NEW i, i = NextInode(s), NEW c, c = CreateDir(s, d, n)
    PROVE  MadeDir(s, X, d, i, c)
<1>. USE DEF MadeDir
<1>1. CASE ~HasInode(s)
  <2>1. c.s = s /\ c.ok = FALSE /\ c.full = TRUE
    BY <1>1 DEF CreateDir, Full
  <2>. QED  BY <2>1, Unmoved
<1>2. PICK r : Tree(s, X, r)
  BY DEF Sane
<1>3. Sound(s, X) /\ X \in SUBSET X
  BY DEF Sane
<1>4. PICK u : u = AllocInode(s)
  OBVIOUS
<1>5. CASE HasInode(s) /\ ~HasBlock(u)
  <2>1. c.s = u /\ c.ok = FALSE /\ c.full = TRUE
    BY <1>4, <1>5 DEF CreateDir, AddDirTo, Full
  <2>2. s \in Stores /\ s.fs.free_blocks = Cardinality(s.fs.bitmap)
        /\ \A j \in X : j \in s.fs.inode_bitmap
    BY <1>3 DEF Sound, InodeOK
  <2>3. /\ i \in Inodes /\ i \notin s.fs.inode_bitmap /\ u \in Stores
        /\ u.inodes = s.inodes /\ u.blocks = s.blocks /\ u.fs.bitmap = s.fs.bitmap
        /\ u.fs.free_blocks = s.fs.free_blocks /\ u.fs.inode_bitmap = s.fs.inode_bitmap \cup {i}
    BY <1>4, <1>5, <2>2, AllocInodeFacts
  <2>4. i \notin X /\ X \ {i} = X
    BY <2>2, <2>3
  <2>5. Local(s, u, X, i)
    BY <2>2, <2>3 DEF Local, Mine
  <2>6. Sound(u, X)
    BY <1>3, <2>4, <2>5, LocalOthers
  <2>7. Tree(u, X, r) /\ FilesKept(s, u, X)
    BY <1>2, <1>3, <2>4, <2>5, TreeKept, LocalFiles
  <2>. QED  BY <2>1, <2>6, <2>7 DEF OpFailed, Sane
<1>6. CASE HasInode(s) /\ HasBlock(u)
  <2>1. PICK b : b = NextBlock(u)
    OBVIOUS
  <2>2. PICK t : t = WithInode(WithBlock(AllocBlock(u), b, DirBlock(i, d)), i, NewDir(b))
    OBVIOUS
  <2>3. b \in Blocks /\ SetUp(s, X, t, i, d) /\ t.inodes[i] = NewDir(b)
    BY <1>3, <1>4, <1>6, <2>1, <2>2, NewDirFacts
  <2>4. PICK a : a = AddEntry(t, d, n, i)
    OBVIOUS
  <2>5. c = UndoInode(UndoBlock(a, b), i)
    BY <1>4, <1>6, <2>1, <2>2, <2>4 DEF CreateDir, AddDirTo, AddDir, WithInode, WithBlock
  <2>6. CASE a.ok = TRUE /\ d \in X /\ OpDone(s, X, a, X \cup {i}) /\ SameInode(t, a.s, i)
    <3>1. c = a
      BY <2>5, <2>6 DEF UndoInode, UndoBlock
    <3>2. a.s.inodes[i].type = "dir"
      BY <2>3, <2>6, EmptyInodes DEF SameInode
    <3>3. i \in Inodes /\ i \notin X
      BY <2>3 DEF SetUp
    <3>. QED  BY <2>6, <3>1, <3>2, <3>3
  <2>7. CASE d \notin X /\ a.ok = TRUE /\ a.full = FALSE /\ Sound(a.s, X \cup {i})
    <3>1. c = a
      BY <2>5, <2>7 DEF UndoInode, UndoBlock
    <3>. QED  BY <2>7, <3>1
  <2>8. CASE NotAdded(s, X, t, i, a)
    <3>1. PICK v, x : v = a.s /\ x = ReleaseInode(FreeBlocks(v, [k \in {0} |-> b]), i)
      OBVIOUS
    <3>2. \E e : a = Error(e) \/ a = Full(e) \/ a = Done(e)
      BY <2>4 DEF AddEntry, AppendEntry, PutInode
    <3>3. a.ok = FALSE /\ a.full \in BOOLEAN
      BY <2>8 DEF NotAdded
    <3>4. PICK a2 : a2 = UndoBlock(a, b)
      OBVIOUS
    <3>5. a2.ok = FALSE /\ a2.full = a.full /\ a2.s = FreeBlocks(v, [k \in {0} |-> b]) /\ a2 = [a EXCEPT !.s = FreeBlocks(v, [k \in {0} |-> b])]
      BY <3>1, <3>2, <3>3, <3>4 DEF UndoBlock, Error, Full, Done
    <3>6. c = [a2 EXCEPT !.s = x]
      BY <2>5, <3>1, <3>4, <3>5 DEF UndoInode
    <3>7. c.s = x /\ c.ok = FALSE /\ c.full = a.full
      BY <3>2, <3>3, <3>5, <3>6 DEF Error, Full, Done
    <3>8. i \in Inodes /\ i \notin X /\ Sound(v, X \cup {i}) /\ v.inodes[i] = NewDir(b) /\ FilesKept(s, v, X)
      BY <2>3, <2>8, <3>1 DEF NotAdded, SetUp
    <3>9. GivenBack(v, x, i)
      BY <2>3, <3>1, <3>8, GiveBackDir
    <3>10. PICK r2 : Tree(v, X, r2)
      BY <2>8, <3>1 DEF NotAdded
    <3>11. Sane(x, X) /\ FilesKept(v, x, X) /\ (NoneLost(v, X \cup {i}) => NoneLost(x, X))
      BY <3>8, <3>9, <3>10, Undone
    <3>12. FilesKept(s, x, X)
      BY <3>8, <3>11, FilesKeptTrans
    <3>13. ~a.full /\ NoneLost(s, X) => NoneLost(v, X \cup {i})
      BY <2>8, <3>1 DEF NotAdded
    <3>. QED  BY <3>3, <3>7, <3>11, <3>12, <3>13 DEF OpFailed
  <2>9. CASE d \in X
    <3>1. (OpDone(s, X, a, X \cup {i}) /\ SameInode(t, a.s, i)) \/ NotAdded(s, X, t, i, a)
      BY <2>3, <2>4, <2>9, AddNew
    <3>2. OpDone(s, X, a, X \cup {i}) => a.ok = TRUE
      BY DEF OpDone
    <3>. QED  BY <2>6, <2>8, <2>9, <3>1, <3>2
  <2>10. CASE d \notin X
    <3>1. ~IsDir(s, d)
      BY <2>10
    <3>2. (a.ok = TRUE /\ a.full = FALSE /\ Sound(a.s, X \cup {i})) \/ NotAdded(s, X, t, i, a)
      BY <2>3, <2>4, <2>10, <3>1, AddOrphan
    <3>. QED  BY <2>7, <2>8, <2>10, <3>2
  <2>. QED  BY <2>9, <2>10
<1>. QED  BY <1>1, <1>5, <1>6

\* dir_remove_entry has emptied place p, which held the entry of inode i.
Emptied(s, X, d, n, i, p, t) ==
    /\ d \in X /\ IsDir(s, d) /\ i \in X /\ i # ROOT_INODE /\ p \in FilePlaces /\ p >= 2
    /\ p \in 0..(s.inodes[d].size - 1)
    /\ Slots(s, s.inodes[d])[p] = Entry(n, i)
    /\ FileStep(s, X, d, t) /\ t.inodes = s.inodes
    /\ \A q \in FilePlaces : Slots(t, t.inodes[d])[q] = IF q = p THEN Zero ELSE Slots(s, s.inodes[d])[q]
    /\ NoneLost(s, X) => NoneLost(t, X)
LEMMA RemoveEntryFacts ==
    ASSUME NEW s, NEW X, Sound(s, X), NEW r, Tree(s, X, r), NEW d \in X, NEW n \in Names,
           Exists(s, d, n), NEW i, i = Lookup(s, d, n), NEW t, t = RemoveEntry(s, d, n)
    PROVE  \E p \in FilePlaces : Emptied(s, X, d, n, i, p, t)
<1>1. IsDir(s, d)
  BY DEF Exists
<1>2. PICK slots : slots = Slots(s, s.inodes[d])
  OBVIOUS
<1>3. /\ Min(Holding(s, d, n)) \in FilePlaces
      /\ Min(Holding(s, d, n)) \in 0..(s.inodes[d].size - 1)
      /\ Lookup(s, d, n) \in X
      /\ slots[Min(Holding(s, d, n))] = Entry(n, Lookup(s, d, n))
  BY <1>1, <1>2, LookupFacts
<1>4. PICK p \in FilePlaces : p = Min(Holding(s, d, n))
  BY <1>3
<1>5. p \in 0..(s.inodes[d].size - 1) /\ i \in X /\ slots[p] = Entry(n, i)
  BY <1>3, <1>4
<1>6. p >= 2 /\ i # ROOT_INODE
  <2>1. PICK D, slot : D = Dirs(s, X) /\ slot = DirSlots(s, X)
    OBVIOUS
  <2>2. TreeShape(X, D, slot, r) /\ d \in D /\ slot[d] = slots
    BY <1>1, <1>2, <2>1 DEF Tree, Dirs, DirSlots
  <2>3. slot[d][p] = Entry(n, i)
    BY <1>5, <2>2
  <2>. QED  BY <2>2, <2>3, NamedEntry
<1>7. t = SetCell(s, d, p, Zero)
  BY <1>4 DEF RemoveEntry
<1>8. Zero \in CellValues
  BY CellFacts
<1>9. PICK z \in CellValues : z = Zero
  BY <1>8
<1>10. /\ FileStep(s, X, d, t) /\ t.inodes = s.inodes
       /\ \A q \in FilePlaces : Slots(t, t.inodes[d])[q] = IF q = p THEN z ELSE Slots(s, s.inodes[d])[q]
       /\ NoneLost(s, X) => NoneLost(t, X)
  BY <1>1, <1>5, <1>7, <1>9, SetCellStep
<1>. QED  BY <1>1, <1>2, <1>5, <1>6, <1>9, <1>10 DEF Emptied

\* unlink of a file and rmdir
LEMMA RemoveErase ==
    ASSUME NEW s, NEW X, Sound(s, X), NEW r, Tree(s, X, r), NEW d, NEW n \in Names, NEW i, NEW p,
           NEW u, Emptied(s, X, d, n, i, p, u),
           IsDir(s, i) => \A q \in FilePlaces : q >= 2 => Slots(s, s.inodes[i])[q] = Zero,
           NEW t, t = Erase(u, i)
    PROVE  OpDone(s, X, Done(t), X \ {i})
<1>1. PICK Y : Y = X \ {i}
  OBVIOUS
<1>2. /\ d \in X /\ i \in X /\ p \in FilePlaces /\ p >= 2 /\ Slots(s, s.inodes[d])[p] = Entry(n, i)
      /\ IsDir(s, d) /\ Local(s, u, X, d) /\ Sound(u, X) /\ u.inodes = s.inodes
      /\ \A q \in FilePlaces : Slots(u, u.inodes[d])[q] = IF q = p THEN Zero ELSE Slots(s, s.inodes[d])[q]
  BY DEF Emptied, FileStep
<1>3. Local(u, t, X, i) /\ Sound(t, Y) /\ (NoneLost(u, X) => NoneLost(t, Y))
  BY <1>1, <1>2, EraseFacts
<1>4. d # i
  <2>1. ASSUME d = i  PROVE FALSE
    <3>1. Slots(s, s.inodes[d])[p] = Zero
      BY <1>2, <2>1
    <3>. QED  BY <1>2, <3>1, CellFacts
  <2>. QED  BY <2>1
<1>5. Y \in SUBSET X /\ X \in SUBSET X /\ i \notin Y /\ d \in Y
  BY <1>1, <1>2, <1>4
<1>6. Dirs(u, X) = Dirs(s, X) \cap X /\ \A e \in Dirs(u, X) : e # d => DirSlots(u, X)[e] = DirSlots(s, X)[e]
  BY <1>2, <1>5, DirsOfStep
<1>7. Dirs(t, Y) = Dirs(u, X) \cap Y /\ \A e \in Dirs(t, Y) : e # i => DirSlots(t, Y)[e] = DirSlots(u, X)[e]
  BY <1>2, <1>3, <1>5, DirsOfStep
<1>8. PICK D, slot, E, slot2 :
         D = Dirs(s, X) /\ slot = DirSlots(s, X) /\ E = Dirs(t, Y) /\ slot2 = DirSlots(t, Y)
  OBVIOUS
<1>9. D \subseteq X /\ d \in D /\ Dirs(u, X) = D /\ E = D \ {i} /\ slot[d] = Slots(s, s.inodes[d])
      /\ DirSlots(u, X)[d] = Slots(u, u.inodes[d])
  <2>1. D \subseteq X /\ d \in D
    BY <1>2, <1>8 DEF Dirs
  <2>2. Dirs(u, X) = D
    BY <1>6, <1>8, <2>1
  <2>. QED  BY <1>1, <1>7, <1>8, <2>1, <2>2 DEF DirSlots
<1>10. \A e \in D, q \in FilePlaces : e # i =>
          slot2[e][q] = IF e = d /\ q = p THEN Zero ELSE slot[e][q]
  <2>1. \A e \in D : e # i => slot2[e] = DirSlots(u, X)[e]
    BY <1>7, <1>8, <1>9
  <2>2. \A e \in D : e # d => DirSlots(u, X)[e] = slot[e]
    BY <1>6, <1>8, <1>9
  <2>3. \A q \in FilePlaces : DirSlots(u, X)[d][q] = IF q = p THEN Zero ELSE slot[d][q]
    BY <1>2, <1>9
  <2>. QED  BY <2>1, <2>2, <2>3
<1>11. TreeShape(X, D, slot, r) /\ slot[d][p] = Entry(n, i)
  BY <1>2, <1>8, <1>9 DEF Tree
<1>12. i \in D => \A q \in FilePlaces : q >= 2 => slot[i][q] = Zero
  <2>1. i \in D => IsDir(s, i) /\ slot[i] = Slots(s, s.inodes[i])
    BY <1>8 DEF Dirs, DirSlots
  <2>. QED  BY <2>1
<1>13. TreeShape(X \ {i}, D \ {i}, slot2, [j \in X \ {i} |-> r[j]])
  BY <1>2, <1>9, <1>10, <1>11, <1>12, ShapeRemove
<1>14. \E r2 : Tree(t, Y, r2)
  BY <1>1, <1>8, <1>9, <1>13 DEF Tree
<1>15. FilesKept(s, u, X)
  <2>1. u.inodes[d].type = s.inodes[d].type /\ u.inodes[d].type # "file"
    BY <1>2 DEF IsDir
  <2>2. X \subseteq X
    OBVIOUS
  <2>. QED  BY <1>2, <2>1, <2>2, LocalFiles
<1>16. FilesKept(u, t, Y)
  BY <1>2, <1>3, <1>5, LocalFiles
<1>17. FilesKept(s, t, Y)
  BY <1>5, <1>15, <1>16, FilesKeptTrans
<1>18. X \cap Y = Y
  BY <1>5
<1>19. NoneLost(s, X) => NoneLost(t, Y)
  BY <1>3 DEF Emptied
<1>20. OpDone(s, X, Done(t), Y)
  BY <1>3, <1>14, <1>17, <1>18, <1>19 DEF OpDone, Done, Sane
<1>. QED  BY <1>1, <1>20

\* After the entry is gone the directory has no entry of that name and an unused slot.
LEMMA NameGone ==
    ASSUME NEW s, NEW X, Sound(s, X), NEW r, Tree(s, X, r), NEW d, NEW n \in Names, NEW i, NEW p,
           NEW u, Emptied(s, X, d, n, i, p, u)
    PROVE  /\ IsDir(u, d) /\ ~Exists(u, d, n)
           /\ \E q \in 0..(u.inodes[d].size - 1) : Slots(u, u.inodes[d])[q] = Zero
           /\ Slots(u, u.inodes[d])[0] # Zero /\ Slots(u, u.inodes[d])[1] # Zero
<1>1. /\ d \in X /\ i \in X /\ p \in FilePlaces /\ p >= 2 /\ Slots(s, s.inodes[d])[p] = Entry(n, i)
      /\ p \in 0..(s.inodes[d].size - 1)
      /\ IsDir(s, d) /\ Sound(u, X) /\ u.inodes = s.inodes
      /\ \A q \in FilePlaces : Slots(u, u.inodes[d])[q] = IF q = p THEN Zero ELSE Slots(s, s.inodes[d])[q]
  BY DEF Emptied, FileStep
<1>2. IsDir(u, d)
  BY <1>1 DEF IsDir
<1>3. PICK old, new, ino : old = Slots(s, s.inodes[d]) /\ new = Slots(u, u.inodes[d]) /\ ino = u.inodes[d]
  OBVIOUS
<1>4. \A q \in FilePlaces : new[q] = IF q = p THEN Zero ELSE old[q]
  BY <1>1, <1>3
<1>5. Slots(u, ino)[p] = Zero /\ p \in 0..(ino.size - 1)
  BY <1>1, <1>3
<1>6. u \in Stores /\ d \in Inodes /\ DirShape(u, ino)
  BY <1>1, <1>2, <1>3, SoundDir
<1>7. /\ Places(u, d) = 0..(ino.size - 1) /\ 0..(ino.size - 1) \in SUBSET FilePlaces
      /\ \A q \in 0..(ino.size - 1) : CellAt(u, ino, q) = Slots(u, ino)[q]
      /\ Used(u, d) = {q \in FilePlaces : Slots(u, ino)[q] # Zero}
  <2>1. DirRead(u, d, ino)
    BY <1>3, <1>6, DirReads
  <2>. QED  BY <2>1 DEF DirRead
<1>8. ASSUME NEW q \in Holding(u, d, n)  PROVE FALSE
  <2>1. q \in Used(u, d) /\ q \in Places(u, d) /\ CellAt(u, ino, q)[2] = n
    BY <1>3, <1>8 DEF Holding, Used
  <2>2. q \in FilePlaces /\ new[q] # Zero /\ new[q][2] = n
    BY <1>3, <1>7, <2>1
  <2>3. q # p /\ old[q] # Zero /\ old[q][2] = n
    BY <1>4, <2>2
  <2>4. PICK m \in Names \cup {".", ".."}, j \in X : old[q] = Entry(m, j) /\ old[q][2] = m
    <3>1. \E m \in Names \cup {".", ".."}, j \in X :
              old[q] = Entry(m, j) /\ old[q][2] = m /\ old[q][3] = j
      BY <1>1, <1>3, <2>2, <2>3, DirCells
    <3>. QED  BY <3>1
  <2>5. old[q] = Entry(n, j) /\ old[p] = Entry(n, i)
    BY <1>1, <1>3, <2>3, <2>4
  <2>6. PICK D, slot : D = Dirs(s, X) /\ slot = DirSlots(s, X)
    OBVIOUS
  <2>7. TreeShape(X, D, slot, r) /\ d \in D /\ slot[d] = old
    BY <1>1, <1>3, <2>6 DEF Tree, Dirs, DirSlots
  <2>8. q = p
    BY <1>1, <2>2, <2>5, <2>7 DEF TreeShape
  <2>. QED  BY <2>3, <2>8
<1>9. ~Exists(u, d, n)
  BY <1>8 DEF Exists
<1>10. new[0] # Zero /\ new[1] # Zero
  <2>1. old[0] # Zero /\ old[1] # Zero
    BY <1>1, <1>3, DotSlots
  <2>. QED  BY <1>1, <1>4, <2>1, FirstPlaces
<1>. QED  BY <1>2, <1>3, <1>5, <1>9, <1>10

\* unlink of a directory: its entry is put back, perhaps at another place.
LEMMA PutBack ==
    ASSUME NEW s, NEW X, Sound(s, X), NEW r, Tree(s, X, r), NEW d, NEW n \in Names, NEW i, NEW p,
           NEW u, Emptied(s, X, d, n, i, p, u), NEW a, a = AddEntry(u, d, n, i)
    PROVE  OpFailed(s, X, Refuse(a))
<1>1. /\ d \in X /\ i \in X /\ p \in FilePlaces /\ p >= 2 /\ Slots(s, s.inodes[d])[p] = Entry(n, i)
      /\ IsDir(s, d) /\ Local(s, u, X, d) /\ Sound(u, X) /\ u.inodes = s.inodes
      /\ \A q \in FilePlaces : Slots(u, u.inodes[d])[q] = IF q = p THEN Zero ELSE Slots(s, s.inodes[d])[q]
  BY DEF Emptied, FileStep
<1>2. /\ IsDir(u, d) /\ ~Exists(u, d, n)
      /\ \E q \in 0..(u.inodes[d].size - 1) : Slots(u, u.inodes[d])[q] = Zero
      /\ Slots(u, u.inodes[d])[0] # Zero /\ Slots(u, u.inodes[d])[1] # Zero
  BY NameGone
<1>3. n \in Names \cup {".", ".."} /\ i \in Inodes /\ X \in SUBSET X
  BY <1>1 DEF Sound
<1>4. PICK to \in FilePlaces : to >= 2 /\ DirWritten(u, X, d, a, to, Entry(n, i))
  <2>1. \/ (~IsDir(u, d) \/ Exists(u, d, n)) /\ Refused(u, a)
        \/ /\ IsDir(u, d) /\ ~Exists(u, d, n) /\ DirFull(u, X, d, a)
           /\ \A q \in 0..(u.inodes[d].size - 1) : Slots(u, u.inodes[d])[q] # Zero
        \/ /\ IsDir(u, d) /\ ~Exists(u, d, n)
           /\ \E q \in FilePlaces : q >= 2 /\ DirWritten(u, X, d, a, q, Entry(n, i))
    <3>1. Slots(u, u.inodes[d])[0] # Zero /\ Slots(u, u.inodes[d])[1] # Zero
      BY <1>2
    <3>. QED  BY <1>1, <1>3, <3>1, AddEntryFacts
  <2>. QED  BY <1>2, <2>1
<1>5. PICK t : t = a.s
  OBVIOUS
<1>6. /\ a.ok = TRUE /\ a.full = FALSE /\ Local(u, t, X, d) /\ Sound(t, X)
      /\ t.inodes[d].type = u.inodes[d].type
      /\ Slots(u, u.inodes[d])[to] = Zero
      /\ \A q \in FilePlaces :
            Slots(t, t.inodes[d])[q] = IF q = to THEN Entry(n, i) ELSE Slots(u, u.inodes[d])[q]
      /\ NoneLost(u, X) => NoneLost(t, X)
  BY <1>4, <1>5 DEF DirWritten, FileStep
<1>7. Dirs(u, X) = Dirs(s, X) \cap X /\ \A e \in Dirs(u, X) : e # d => DirSlots(u, X)[e] = DirSlots(s, X)[e]
  BY <1>1, <1>3, DirsOfStep
<1>8. Dirs(t, X) = Dirs(u, X) \cap X /\ \A e \in Dirs(t, X) : e # d => DirSlots(t, X)[e] = DirSlots(u, X)[e]
  BY <1>1, <1>3, <1>6, DirsOfStep
<1>9. PICK D, slot, slot2 : D = Dirs(s, X) /\ slot = DirSlots(s, X) /\ slot2 = DirSlots(t, X)
  OBVIOUS
<1>10. D \subseteq X /\ d \in D /\ Dirs(u, X) = D /\ Dirs(t, X) = D
  <2>1. D \subseteq X /\ d \in D
    BY <1>1, <1>9 DEF Dirs
  <2>. QED  BY <1>7, <1>8, <1>9, <2>1
<1>11. slot[d] = Slots(s, s.inodes[d]) /\ slot2[d] = Slots(t, t.inodes[d])
  BY <1>9, <1>10 DEF DirSlots
<1>12. \A e \in D, q \in FilePlaces :
          slot2[e][q] = IF e = d /\ q = to THEN Entry(n, i)
                        ELSE IF e = d /\ q = p THEN Zero ELSE slot[e][q]
  <2>1. \A e \in D : e # d => slot2[e] = slot[e]
    BY <1>7, <1>8, <1>9, <1>10
  <2>2. \A q \in FilePlaces : slot2[d][q] = IF q = to THEN Entry(n, i) ELSE IF q = p THEN Zero ELSE slot[d][q]
    BY <1>1, <1>6, <1>11
  <2>. QED  BY <2>1, <2>2
<1>13. to = p \/ slot[d][to] = Zero
  BY <1>1, <1>6, <1>11
<1>14. TreeShape(X, D, slot, r) /\ slot[d][p] = Entry(n, i)
  BY <1>1, <1>9, <1>11 DEF Tree
<1>15. TreeShape(X, D, slot2, r)
  BY <1>1, <1>4, <1>10, <1>12, <1>13, <1>14, ShapeMove
<1>16. Tree(t, X, r)
  BY <1>9, <1>10, <1>15 DEF Tree
<1>17. FilesKept(s, t, X)
  <2>1. u.inodes[d].type = s.inodes[d].type /\ u.inodes[d].type # "file" /\ t.inodes[d].type # "file"
    BY <1>1, <1>6 DEF IsDir
  <2>2. X \subseteq X
    OBVIOUS
  <2>3. FilesKept(s, u, X)
    BY <1>1, <2>1, <2>2, LocalFiles
  <2>4. FilesKept(u, t, X)
    BY <1>1, <1>6, <2>1, <2>2, LocalFiles
  <2>. QED  BY <2>2, <2>3, <2>4, FilesKeptTrans
<1>18. \E e : a = Error(e) \/ a = Full(e) \/ a = Done(e)
  BY DEF AddEntry, AppendEntry, PutInode
<1>19. PICK b : b = Refuse(a)
  OBVIOUS
<1>20. b.s = t /\ b.ok = FALSE /\ b.full = FALSE
  BY <1>5, <1>6, <1>18, <1>19 DEF Refuse, Error, Full, Done
<1>21. NoneLost(s, X) => NoneLost(t, X)
  BY <1>6 DEF Emptied
<1>. QED  BY <1>6, <1>16, <1>17, <1>19, <1>20, <1>21 DEF OpFailed, Sane

\* unlink
LEMMA UnlinkFacts ==
    ASSUME NEW s, NEW X, Sane(s, X), NEW d \in X, NEW n \in Names, Exists(s, d, n),
           NEW c, c = Unlink(s, d, n)
    PROVE  OpFailed(s, X, c) \/ \E i \in X : OpDone(s, X, c, X \ {i})
<1>1. PICK r : Tree(s, X, r)
  BY DEF Sane
<1>2. Sound(s, X)
  BY DEF Sane
<1>3. PICK i, u : i = Lookup(s, d, n) /\ u = RemoveEntry(s, d, n)
  OBVIOUS
<1>4. PICK p \in FilePlaces : Emptied(s, X, d, n, i, p, u)
  BY <1>1, <1>2, <1>3, RemoveEntryFacts
<1>5. CASE s.inodes[i].type = "file"
  <2>1. PICK t : t = Erase(u, i)
    OBVIOUS
  <2>2. c = Done(t)
    BY <1>3, <1>5, <2>1 DEF Unlink, UnlinkInode
  <2>3. ~IsDir(s, i)
    BY <1>5 DEF IsDir
  <2>4. OpDone(s, X, Done(t), X \ {i})
    BY <1>1, <1>2, <1>4, <2>1, <2>3, RemoveErase
  <2>. QED  BY <1>4, <2>2, <2>4 DEF Emptied
<1>6. CASE s.inodes[i].type # "file"
  <2>1. PICK a : a = AddEntry(u, d, n, i)
    OBVIOUS
  <2>2. c = Refuse(a)
    BY <1>3, <1>6, <2>1 DEF Unlink, UnlinkInode
  <2>3. OpFailed(s, X, Refuse(a))
    BY <1>1, <1>2, <1>4, <2>1, PutBack
  <2>. QED  BY <2>2, <2>3
<1>. QED  BY <1>5, <1>6

\* rmdir
LEMMA RmdirFacts ==
    ASSUME NEW s, NEW X, Sane(s, X), NEW d \in X, NEW n \in Names, Exists(s, d, n),
           NEW c, c = Rmdir(s, d, n)
    PROVE  OpFailed(s, X, c) \/ \E i \in X : OpDone(s, X, c, X \ {i})
<1>1. PICK r : Tree(s, X, r)
  BY DEF Sane
<1>2. Sound(s, X)
  BY DEF Sane
<1>3. PICK i, u : i = Lookup(s, d, n) /\ u = RemoveEntry(s, d, n)
  OBVIOUS
<1>4. PICK p \in FilePlaces : Emptied(s, X, d, n, i, p, u)
  BY <1>1, <1>2, <1>3, RemoveEntryFacts
<1>5. CASE ~IsDir(s, i) \/ Cardinality(Used(s, i)) > 2
  <2>1. c.s = s /\ c.ok = FALSE /\ c.full = FALSE
    BY <1>3, <1>5 DEF Rmdir, RmdirInode, Error
  <2>. QED  BY <2>1, Unmoved
<1>6. CASE IsDir(s, i) /\ ~(Cardinality(Used(s, i)) > 2)
  <2>1. PICK t : t = Erase(u, i)
    OBVIOUS
  <2>2. c = Done(t)
    BY <1>3, <1>6, <2>1 DEF Rmdir, RmdirInode
  <2>3. i \in X
    BY <1>4 DEF Emptied
  <2>4. s \in Stores /\ i \in Inodes /\ DirShape(s, s.inodes[i])
    BY <1>2, <1>6, <2>3, SoundDir
  <2>5. PICK slots : slots = Slots(s, s.inodes[i])
    OBVIOUS
  <2>6. Used(s, i) = {q \in FilePlaces : slots[q] # Zero}
    BY <2>4, <2>5, DirView
  <2>7. slots[0] # Zero /\ slots[1] # Zero
    BY <1>1, <1>6, <2>3, <2>5, DotSlots
  <2>8. ASSUME NEW q \in FilePlaces, q >= 2, slots[q] # Zero  PROVE FALSE
    <3>1. {0, 1, q} \in SUBSET Used(s, i)
      BY <2>6, <2>7, <2>8, FirstPlaces
    <3>2. IsFiniteSet(Used(s, i))
      <4>1. IsFiniteSet(0..(Limit * SLOTS - 1))
        <5>1. 0 \in Int /\ Limit * SLOTS - 1 \in Int
          BY Constants
        <5>. QED  BY <5>1, FS_Interval
      <4>2. Used(s, i) \in SUBSET (0..(Limit * SLOTS - 1))
        BY <2>6 DEF FilePlaces
      <4>. QED  BY <4>1, <4>2, FS_Subset
    <3>3. Cardinality({0, 1, q}) = 3
      <4>1. q \in Nat
        BY FirstPlaces
      <4>2. IsFiniteSet({}) /\ Cardinality({}) = 0
        BY FS_EmptySet
      <4>3. IsFiniteSet({0}) /\ Cardinality({0}) = 1
        BY FS_Singleton
      <4>4. IsFiniteSet({0} \cup {1}) /\ Cardinality({0} \cup {1}) = 2
        BY <4>3, FS_AddElement, SMTT(60)
      <4>5. PICK S : S = {0} \cup {1}
        OBVIOUS
      <4>6. IsFiniteSet(S) /\ Cardinality(S) = 2 /\ q \notin S /\ S \cup {q} = {0, 1, q}
        BY <2>8, <4>4, <4>5
      <4>7. Cardinality(S \cup {q}) = 3
        BY <4>6, FS_AddElement
      <4>. QED  BY <4>6, <4>7
    <3>4. Cardinality({0, 1, q}) <= Cardinality(Used(s, i)) /\ Cardinality(Used(s, i)) \in Nat
      BY <3>1, <3>2, FS_Subset, FS_CardinalityType
    <3>. QED  BY <1>6, <3>3, <3>4
  <2>9. \A q \in FilePlaces : q >= 2 => Slots(s, s.inodes[i])[q] = Zero
    BY <2>5, <2>8
  <2>10. OpDone(s, X, Done(t), X \ {i})
    BY <1>1, <1>2, <1>4, <2>1, <2>9, RemoveErase
  <2>. QED  BY <2>2, <2>3, <2>10
<1>. QED  BY <1>5, <1>6

-----------------------------------------------------------------------------
(* The inductive invariant *)

Counts(m) == m.free_blocks = Cardinality(m.bitmap)
\* What holds in every state, harm or not, until a descriptor has overwritten something
\* that is no file in use.
Typed ==
    /\ State \in Stores /\ Counts(fs) /\ synced \in Headers /\ Counts(synced)
    /\ file \in [Inodes -> Nat] /\ written \in [Inodes -> SUBSET Nat] /\ files \in Nat
    /\ failed \in BOOLEAN /\ rebooted \in BOOLEAN
\* The files in X read as they should, for these numbers and these places written; a
\* file with the number 0 has been written to through a descriptor of another one.
FilesRead(s, X, num, wr) ==
    \A i \in X : s.inodes[i].type = "file" /\ num[i] # 0 =>
                    FileOK(Slots(s, s.inodes[i]), num[i], wr[i])
Inv ==
    /\ harm # "descriptor" => Typed
    /\ NoHarm => Sane(State, Linked) /\ FilesRead(State, Linked, file, written)
    /\ NoHarm /\ ~failed /\ ~rebooted => NoneLost(State, Linked)
\* The descriptors that outlived what they were opened on.
StaleOK == stale \subseteq Inodes \X Nat

LEMMA AppliedState ==
    ASSUME NEW r, r.s \in Stores, Apply(r)
    PROVE  State' = r.s /\ fs' = r.s.fs
  BY DEF State, Apply, Stores

LEMMA FinishTyped ==
    ASSUME Typed, NEW r, r.s \in Stores, Counts(r.s.fs), r.ok \in BOOLEAN, r.full \in BOOLEAN,
           NEW shell \in BOOLEAN, Finish(r, shell),
           file' \in [Inodes -> Nat], written' \in [Inodes -> SUBSET Nat], files' \in Nat
    PROVE  Typed' /\ State' = r.s
<1>1. State' = r.s /\ fs' = r.s.fs
  BY AppliedState DEF Finish
<1>2. Counts(fs)'
  BY <1>1 DEF Counts
<1>3. PICK h : h = Header(r.s.fs)
  OBVIOUS
<1>4. h \in Headers /\ Counts(h)
  BY <1>3, StoreFields DEF Header, Headers, Counts
<1>5. synced' = h \/ synced' = synced
  BY <1>3 DEF Finish
<1>6. (synced \in Headers)' /\ Counts(synced)'
  <2>1. CASE synced' = h
    BY <1>4, <2>1 DEF Counts
  <2>2. CASE synced' = synced
    BY <2>2 DEF Counts, Typed
  <2>. QED  BY <1>5, <2>1, <2>2
<1>7. failed' \in BOOLEAN /\ rebooted' \in BOOLEAN
  BY DEF Finish, Typed
<1>8. (State \in Stores)'
  BY <1>1
<1>. QED  BY <1>1, <1>2, <1>6, <1>7, <1>8 DEF Typed

LEMMA InvNext ==
    ASSUME Typed', NEW t, State' = t, NEW Y, Sane(t, Y), FilesRead(t, Y, file', written'),
           ~failed' /\ ~rebooted' => NoneLost(t, Y)
    PROVE  Inv'
<1>1. Linked' = Y
  <2>1. PICK r : Sound(t, Y) /\ Tree(t, Y, r)
    BY DEF Sane
  <2>2. LinkedIn(t) = Y
    BY <2>1, TreeLinked
  <2>. QED  BY <2>2 DEF Linked
<1>. QED  BY <1>1 DEF Inv

LEMMA FilesReadKept ==
    ASSUME NEW s, NEW t, NEW Z, NEW num, NEW wr, FilesRead(s, Z, num, wr), FilesKept(s, t, Z),
           NEW num2, NEW wr2, \A j \in Z : num2[j] = num[j] /\ wr2[j] = wr[j]
    PROVE  FilesRead(t, Z, num2, wr2)
  BY DEF FilesRead, FilesKept

LEMMA SaneStore ==
    ASSUME NEW s, NEW X, Sane(s, X)
    PROVE  s \in Stores /\ Counts(s.fs) /\ X \in SUBSET Inodes
  BY DEF Sane, Sound, Counts

\* What the invariant says while no harm is done.
LEMMA InvNow ==
    ASSUME Inv, NoHarm
    PROVE  /\ Typed /\ Sane(State, Linked) /\ FilesRead(State, Linked, file, written)
           /\ ~failed /\ ~rebooted => NoneLost(State, Linked)
           /\ Linked \in SUBSET Inodes /\ ROOT_INODE \in Linked
<1>1. Sane(State, Linked)
  BY DEF Inv
<1>2. ROOT_INODE \in Linked
  <2>1. PICK r : Tree(State, Linked, r)
    BY <1>1 DEF Sane
  <2>. QED  BY <2>1 DEF Tree, TreeShape
<1>3. Linked \in SUBSET Inodes
  BY <1>1, SaneStore
<1>4. harm # "descriptor"
  BY DEF NoHarm
<1>. QED  BY <1>1, <1>2, <1>3, <1>4 DEF Inv

\* The numbers of the files and the places written stay.
SameFiles == UNCHANGED <<file, written, files>>
LEMMA FailedInv ==
    ASSUME Inv, NoHarm, NEW r, OpFailed(State, Linked, r), NEW shell \in BOOLEAN, Finish(r, shell),
           SameFiles
    PROVE  Inv'
<1>1. PICK s, X, t : s = State /\ X = Linked /\ t = r.s
  OBVIOUS
<1>2. r.ok \in BOOLEAN /\ r.full \in BOOLEAN /\ Sane(t, X) /\ FilesKept(s, t, X)
      /\ (~r.full /\ NoneLost(s, X) => NoneLost(t, X))
  BY <1>1 DEF OpFailed
<1>3. r.s \in Stores /\ Counts(r.s.fs)
  BY <1>1, <1>2, SaneStore
<1>4. file' \in [Inodes -> Nat] /\ written' \in [Inodes -> SUBSET Nat] /\ files' \in Nat /\ Typed
      /\ file' = file /\ written' = written
  BY InvNow DEF SameFiles, Typed
<1>5. Typed' /\ State' = t
  BY <1>1, <1>2, <1>3, <1>4, FinishTyped
<1>6. FilesRead(s, X, file, written) /\ (~failed /\ ~rebooted => NoneLost(s, X))
  BY <1>1, InvNow
<1>7. FilesRead(t, X, file', written')
  BY <1>2, <1>4, <1>6, FilesReadKept
<1>8. ~failed' /\ ~rebooted' => NoneLost(t, X)
  BY <1>2, <1>6 DEF Finish
<1>. QED  BY <1>2, <1>5, <1>7, <1>8, InvNext

LEMMA DoneInv ==
    ASSUME Inv, NoHarm, NEW r, NEW Y, OpDone(State, Linked, r, Y), NEW shell \in BOOLEAN,
           Finish(r, shell), FilesRead(r.s, Y, file', written'),
           file' \in [Inodes -> Nat], written' \in [Inodes -> SUBSET Nat], files' \in Nat
    PROVE  Inv'
<1>1. PICK s, X, t : s = State /\ X = Linked /\ t = r.s
  OBVIOUS
<1>2. r.ok \in BOOLEAN /\ r.full \in BOOLEAN /\ Sane(t, Y) /\ (NoneLost(s, X) => NoneLost(t, Y))
  BY <1>1 DEF OpDone
<1>3. r.s \in Stores /\ Counts(r.s.fs)
  BY <1>1, <1>2, SaneStore
<1>4. Typed /\ (~failed /\ ~rebooted => NoneLost(s, X))
  BY <1>1, InvNow
<1>5. Typed' /\ State' = t
  BY <1>1, <1>2, <1>3, <1>4, FinishTyped
<1>6. ~failed' /\ ~rebooted' => NoneLost(t, Y)
  BY <1>2, <1>4 DEF Finish
<1>. QED  BY <1>1, <1>2, <1>5, <1>6, InvNext

\* The places and numbers of files that do not change.
LEMMA DoneKept ==
    ASSUME Inv, NoHarm, NEW r, NEW Y, OpDone(State, Linked, r, Y), NEW shell \in BOOLEAN,
           Finish(r, shell), SameFiles, \A i \in Y \ Linked : r.s.inodes[i].type # "file"
    PROVE  Inv'
<1>1. PICK s, X, t : s = State /\ X = Linked /\ t = r.s
  OBVIOUS
<1>2. FilesKept(s, t, X \cap Y)
  BY <1>1 DEF OpDone
<1>3. file' \in [Inodes -> Nat] /\ written' \in [Inodes -> SUBSET Nat] /\ files' \in Nat
      /\ file' = file /\ written' = written
  BY InvNow DEF SameFiles, Typed
<1>4. FilesRead(s, X \cap Y, file, written)
  BY <1>1, InvNow DEF FilesRead
<1>5. FilesRead(t, X \cap Y, file', written')
  BY <1>2, <1>3, <1>4, FilesReadKept
<1>6. FilesRead(t, Y, file', written')
  BY <1>1, <1>5 DEF FilesRead
<1>. QED  BY <1>1, <1>3, <1>6, DoneInv

LEMMA InvRemoveFile ==
    ASSUME Inv, NEW d \in Linked, NEW n \in Names, NEW shell \in BOOLEAN, RemoveFile(d, n, shell)
    PROVE  Inv'
<1>1. NoHarm /\ Exists(State, d, n) /\ Finish(Unlink(State, d, n), shell) /\ SameFiles
  BY DEF RemoveFile, HasRemoved, MayGoOn, SameFiles
<1>2. PICK s, X, r : s = State /\ X = Linked /\ r = Unlink(State, d, n)
  OBVIOUS
<1>3. Sane(s, X) /\ d \in X /\ Exists(s, d, n) /\ r = Unlink(s, d, n)
  BY <1>1, <1>2, InvNow
<1>4. OpFailed(s, X, r) \/ \E i \in X : OpDone(s, X, r, X \ {i})
  BY <1>3, UnlinkFacts
<1>5. CASE OpFailed(s, X, r)
  BY <1>1, <1>2, <1>5, FailedInv
<1>6. ASSUME NEW i \in X, OpDone(s, X, r, X \ {i})  PROVE Inv'
  <2>1. PICK Y : Y = X \ {i}
    OBVIOUS
  <2>2. OpDone(State, Linked, r, Y) /\ \A j \in Y \ Linked : r.s.inodes[j].type # "file"
    BY <1>2, <1>6, <2>1
  <2>3. Finish(r, shell)
    BY <1>1, <1>2
  <2>. QED  BY <1>1, <2>2, <2>3, DoneKept
<1>. QED  BY <1>4, <1>5, <1>6

LEMMA InvRemoveDir ==
    ASSUME Inv, NEW d \in Linked, NEW n \in Names, NEW shell \in BOOLEAN, RemoveDir(d, n, shell)
    PROVE  Inv'
<1>1. NoHarm /\ Exists(State, d, n) /\ Finish(Rmdir(State, d, n), shell) /\ SameFiles
  BY DEF RemoveDir, HasRemoved, MayGoOn, SameFiles
<1>2. PICK s, X, r : s = State /\ X = Linked /\ r = Rmdir(State, d, n)
  OBVIOUS
<1>3. Sane(s, X) /\ d \in X /\ Exists(s, d, n) /\ r = Rmdir(s, d, n)
  BY <1>1, <1>2, InvNow
<1>4. OpFailed(s, X, r) \/ \E i \in X : OpDone(s, X, r, X \ {i})
  BY <1>3, RmdirFacts
<1>5. CASE OpFailed(s, X, r)
  BY <1>1, <1>2, <1>5, FailedInv
<1>6. ASSUME NEW i \in X, OpDone(s, X, r, X \ {i})  PROVE Inv'
  <2>1. PICK Y : Y = X \ {i}
    OBVIOUS
  <2>2. OpDone(State, Linked, r, Y) /\ \A j \in Y \ Linked : r.s.inodes[j].type # "file"
    BY <1>2, <1>6, <2>1
  <2>3. Finish(r, shell)
    BY <1>1, <1>2
  <2>. QED  BY <1>1, <2>2, <2>3, DoneKept
<1>. QED  BY <1>4, <1>5, <1>6

LEMMA InvMakeDir ==
    ASSUME Inv, NEW d \in Inodes, d \in Linked \/ ~IsDir(State, d), NEW n \in Names,
           NEW shell \in BOOLEAN, MakeDir(d, n, shell)
    PROVE  Inv'
<1>1. /\ NoHarm /\ Finish(CreateDir(State, d, n), shell) /\ SameFiles
      /\ harm' = IF CreateDir(State, d, n).ok /\ d \notin Linked THEN "mkdir" ELSE "none"
  BY DEF MakeDir, HasMade, MayGoOn, NoFileChange, SameFiles
<1>2. PICK s, X, r, i : s = State /\ X = Linked /\ r = CreateDir(State, d, n) /\ i = NextInode(State)
  OBVIOUS
<1>3. Sane(s, X) /\ (d \in X \/ ~IsDir(s, d)) /\ i = NextInode(s) /\ r = CreateDir(s, d, n)
  BY <1>1, <1>2, InvNow
<1>4. \/ OpFailed(s, X, r)
      \/ /\ d \in X /\ i \in Inodes /\ i \notin X /\ OpDone(s, X, r, X \cup {i})
         /\ r.s.inodes[i].type = "dir"
      \/ d \notin X /\ r.ok = TRUE /\ r.full = FALSE /\ Sound(r.s, X \cup {i})
  <2>1. MadeDir(s, X, d, i, r)
    BY <1>3, CreateDirFacts
  <2>. QED  BY <2>1 DEF MadeDir
<1>5. Finish(r, shell)
  BY <1>1, <1>2
<1>6. CASE OpFailed(s, X, r)
  BY <1>1, <1>2, <1>5, <1>6, FailedInv
<1>7. CASE OpDone(s, X, r, X \cup {i}) /\ r.s.inodes[i].type = "dir"
  <2>1. PICK Y : Y = X \cup {i}
    OBVIOUS
  <2>2. OpDone(State, Linked, r, Y) /\ \A j \in Y \ Linked : r.s.inodes[j].type # "file"
    BY <1>2, <1>7, <2>1
  <2>. QED  BY <1>1, <1>5, <2>2, DoneKept
<1>8. CASE d \notin X /\ r.ok = TRUE /\ r.full = FALSE /\ Sound(r.s, X \cup {i})
  <2>1. ~NoHarm'
    BY <1>1, <1>2, <1>8 DEF NoHarm
  <2>2. r.s \in Stores /\ Counts(r.s.fs) /\ r.ok \in BOOLEAN /\ r.full \in BOOLEAN
    BY <1>8 DEF Sound, Counts
  <2>3. file' \in [Inodes -> Nat] /\ written' \in [Inodes -> SUBSET Nat] /\ files' \in Nat /\ Typed
    BY <1>1, InvNow DEF SameFiles, Typed
  <2>4. Typed'
    BY <1>5, <2>2, <2>3, FinishTyped
  <2>. QED  BY <2>1, <2>4 DEF Inv
<1>. QED  BY <1>4, <1>6, <1>7, <1>8

\* A new file in inode i.
LEMMA FilesReadNew ==
    ASSUME NEW s, NEW t, NEW X, NEW i, i \notin X, NEW num, NEW wr, FilesRead(s, X, num, wr),
           FilesKept(s, t, X), NEW num2, NEW wr2, \A j \in X : num2[j] = num[j] /\ wr2[j] = wr[j],
           FileOK(Slots(t, t.inodes[i]), num2[i], wr2[i])
    PROVE  FilesRead(t, X \cup {i}, num2, wr2)
<1>1. FilesRead(t, X, num2, wr2)
  BY FilesReadKept
<1>. QED  BY <1>1 DEF FilesRead

LEMMA StartFileFacts ==
    ASSUME Typed, NEW i \in Inodes, NEW places \in SUBSET Nat, StartFile(i, places)
    PROVE  /\ file' \in [Inodes -> Nat] /\ written' \in [Inodes -> SUBSET Nat] /\ files' \in Nat
           /\ file'[i] = files + 1 /\ written'[i] = places
           /\ \A j \in Inodes : j # i => file'[j] = file[j] /\ written'[j] = written[j]
  BY DEF Typed, StartFile

LEMMA InvOpenCreate ==
    ASSUME Inv, NEW d \in Inodes, d \in Linked \/ ~IsDir(State, d), NEW n \in Names, OpenCreate(d, n)
    PROVE  Inv'
<1>1. /\ NoHarm /\ Finish(CreateFile(State, d, n), FALSE)
      /\ IF CreateFile(State, d, n).ok THEN StartFile(NextInode(State), {}) ELSE NoFileChange
  BY DEF OpenCreate, Opened, MayGoOn
<1>2. PICK s, X, r, i, t :
         s = State /\ X = Linked /\ r = CreateFile(State, d, n) /\ i = NextInode(State) /\ t = r.s
  OBVIOUS
<1>3. Sane(s, X) /\ (d \in X \/ ~IsDir(s, d)) /\ i = NextInode(s) /\ r = CreateFile(s, d, n)
  BY <1>1, <1>2, InvNow
<1>4. \/ OpFailed(s, X, r)
      \/ i \in Inodes /\ i \notin X /\ OpDone(s, X, r, X \cup {i}) /\ Fresh(r.s, i)
  BY <1>3, CreateFileFacts
<1>5. Finish(r, FALSE) /\ IF r.ok THEN StartFile(i, {}) ELSE NoFileChange
  BY <1>1, <1>2
<1>6. CASE OpFailed(s, X, r)
  <2>1. SameFiles
    BY <1>5, <1>6 DEF OpFailed, NoFileChange, SameFiles
  <2>. QED  BY <1>1, <1>2, <1>5, <1>6, <2>1, FailedInv
<1>7. CASE i \in Inodes /\ i \notin X /\ OpDone(s, X, r, X \cup {i}) /\ Fresh(r.s, i)
  <2>1. StartFile(i, {}) /\ FilesKept(s, t, X \cap (X \cup {i}))
    BY <1>2, <1>5, <1>7 DEF OpDone
  <2>2. /\ file' \in [Inodes -> Nat] /\ written' \in [Inodes -> SUBSET Nat] /\ files' \in Nat
        /\ file'[i] = files + 1 /\ written'[i] = {}
        /\ \A j \in Inodes : j # i => file'[j] = file[j] /\ written'[j] = written[j]
    <3>1. Typed /\ {} \in SUBSET Nat
      BY <1>1, InvNow
    <3>. QED  BY <1>7, <2>1, <3>1, StartFileFacts
  <2>3. FilesKept(s, t, X)
    <3>1. X \cap (X \cup {i}) = X
      OBVIOUS
    <3>. QED  BY <2>1, <3>1
  <2>4. \A j \in X : j \in Inodes /\ j # i
    BY <1>1, <1>2, <1>7, InvNow
  <2>5. FileOK(Slots(t, t.inodes[i]), file'[i], written'[i])
    BY <1>2, <1>7, <2>2 DEF Fresh, FileOK
  <2>6. FilesRead(s, X, file, written)
    BY <1>1, <1>2, InvNow
  <2>7. FilesRead(t, X \cup {i}, file', written')
    BY <1>7, <2>2, <2>3, <2>4, <2>5, <2>6, FilesReadNew
  <2>8. PICK Y : Y = X \cup {i}
    OBVIOUS
  <2>9. OpDone(State, Linked, r, Y) /\ FilesRead(r.s, Y, file', written')
    BY <1>2, <1>7, <2>7, <2>8
  <2>10. PICK shell \in BOOLEAN : shell = FALSE
    OBVIOUS
  <2>. QED  BY <1>1, <1>5, <2>2, <2>9, <2>10, DoneInv
<1>. QED  BY <1>4, <1>6, <1>7

LEMMA FileStepSane ==
    ASSUME NEW s, NEW X, Sane(s, X), NEW i \in X, s.inodes[i].type = "file", NEW t, FileStep(s, X, i, t)
    PROVE  Sane(t, X) /\ FilesKept(s, t, X \ {i})
<1>1. PICK r : Tree(s, X, r)
  BY DEF Sane
<1>2. Sound(s, X) /\ Local(s, t, X, i) /\ Sound(t, X) /\ t.inodes[i].type = s.inodes[i].type
      /\ ~IsDir(s, i) /\ X \in SUBSET X
  BY DEF Sane, FileStep, IsDir
<1>3. Tree(t, X, r)
  BY <1>1, <1>2, TreeKept
<1>4. PICK Z : Z = X \ {i}
  OBVIOUS
<1>5. Z \subseteq X /\ i \notin Z
  BY <1>4
<1>6. FilesKept(s, t, Z)
  BY <1>2, <1>5, LocalFiles
<1>. QED  BY <1>2, <1>3, <1>4, <1>6 DEF Sane

LEMMA FilesReadOne ==
    ASSUME NEW s, NEW t, NEW X, NEW i, NEW num, NEW wr, FilesRead(s, X, num, wr),
           FilesKept(s, t, X \ {i}), NEW num2, NEW wr2,
           \A j \in X : j # i => num2[j] = num[j] /\ wr2[j] = wr[j],
           num2[i] # 0 => FileOK(Slots(t, t.inodes[i]), num2[i], wr2[i])
    PROVE  FilesRead(t, X, num2, wr2)
  BY DEF FilesRead, FilesKept

\* A step on file i, which then reads as file f with the places in wr written.
FileDone(s, X, i, r, f, wr) ==
    /\ r.ok \in BOOLEAN /\ r.full \in BOOLEAN /\ FileStep(s, X, i, r.s)
    /\ ~r.full /\ NoneLost(s, X) => NoneLost(r.s, X)
    /\ f # 0 => FileOK(Slots(r.s, r.s.inodes[i]), f, wr)
WrittenAt(i) ==
    /\ file' \in [Inodes -> Nat] /\ files' = files /\ written' \in [Inodes -> SUBSET Nat]
    /\ \A j \in Linked : j # i => file'[j] = file[j] /\ written'[j] = written[j]
LEMMA FileInv ==
    ASSUME Inv, NoHarm, NEW i \in Linked, inodes[i].type = "file",
           NEW r, NEW shell \in BOOLEAN, Finish(r, shell), WrittenAt(i),
           FileDone(State, Linked, i, r, file'[i], written'[i])
    PROVE  Inv'
<1>10. PICK t : t = r.s
  OBVIOUS
<1>11. FileStep(State, Linked, i, t)
  BY <1>10 DEF FileDone
<1>12. r.ok \in BOOLEAN /\ r.full \in BOOLEAN
  BY DEF FileDone
<1>13. ~r.full /\ NoneLost(State, Linked) => NoneLost(t, Linked)
  BY <1>10 DEF FileDone
<1>14. file'[i] # 0 => FileOK(Slots(t, t.inodes[i]), file'[i], written'[i])
  BY <1>10 DEF FileDone
<1>15. file' \in [Inodes -> Nat] /\ files' = files /\ written' \in [Inodes -> SUBSET Nat]
  BY DEF WrittenAt
<1>16. \A j \in Linked : j # i => file'[j] = file[j] /\ written'[j] = written[j]
  BY DEF WrittenAt
<1>1. PICK s, X : s = State /\ X = Linked
  OBVIOUS
<1>2. s.inodes[i].type = "file" /\ i \in X /\ Sane(s, X) /\ FileStep(s, X, i, t)
  <2>1. Sane(s, X)
    BY <1>1, InvNow
  <2>2. s.inodes = inodes
    BY <1>1 DEF State
  <2>. QED  BY <1>1, <1>11, <2>1, <2>2
<1>3. Sane(t, X) /\ FilesKept(s, t, X \ {i})
  BY <1>2, FileStepSane
<1>4. t \in Stores /\ Counts(t.fs)
  BY <1>3, SaneStore
<1>5. Typed /\ FilesRead(s, X, file, written) /\ (~failed /\ ~rebooted => NoneLost(s, X))
  BY <1>1, InvNow
<1>6. file' \in [Inodes -> Nat] /\ files' \in Nat
  BY <1>5, <1>15 DEF Typed
<1>7. Typed' /\ State' = t
  BY <1>4, <1>5, <1>6, <1>10, <1>12, <1>15, FinishTyped
<1>8. FilesRead(t, X, file', written')
  <2>1. PICK num2, wr2 : num2 = file' /\ wr2 = written'
    OBVIOUS
  <2>2. \A j \in X : j # i => num2[j] = file[j] /\ wr2[j] = written[j]
    BY <1>1, <1>16, <2>1
  <2>3. num2[i] # 0 => FileOK(Slots(t, t.inodes[i]), num2[i], wr2[i])
    BY <1>14, <2>1
  <2>4. FilesRead(t, X, num2, wr2)
    BY <1>3, <1>5, <2>2, <2>3, FilesReadOne
  <2>. QED  BY <2>1, <2>4
<1>9. ~failed' /\ ~rebooted' => NoneLost(t, X)
  BY <1>1, <1>5, <1>10, <1>12, <1>13 DEF Finish
<1>. QED  BY <1>3, <1>7, <1>8, <1>9, InvNext

LEMMA InvSysWrite ==
    ASSUME Inv, NEW i \in Inodes, NEW f \in Nat, NEW off \in Offsets, NEW len \in Lengths,
           SysWrite(i, f, off, len)
    PROVE  Inv'
<1>1. /\ NoHarm /\ Finish(WriteAt(State, i, f, off, len), FALSE)
      /\ written' = IF WriteAt(State, i, f, off, len).ok
                    THEN [written EXCEPT ![i] = @ \cup off..(off + len - 1)] ELSE written
      /\ file' = IF f = file[i] THEN file ELSE [file EXCEPT ![i] = 0]
      /\ harm' = IF i \in Linked /\ inodes[i].type = "file" THEN "none" ELSE "descriptor"
      /\ files' = files
  BY DEF SysWrite, HasWritten, MayGoOn
<1>2. CASE ~(i \in Linked /\ inodes[i].type = "file")
  <2>1. harm' = "descriptor"
    BY <1>1, <1>2
  <2>2. ~NoHarm'
    BY <2>1 DEF NoHarm
  <2>. QED  BY <2>1, <2>2 DEF Inv
<1>3. CASE i \in Linked /\ inodes[i].type = "file"
  <2>1. PICK s, X, r, t :
           s = State /\ X = Linked /\ r = WriteAt(State, i, f, off, len) /\ t = r.s
    OBVIOUS
  <2>2. Sane(s, X) /\ Typed /\ FilesRead(s, X, file, written) /\ X \in SUBSET Inodes
    BY <1>1, <2>1, InvNow
  <2>3. Sound(s, X) /\ i \in X /\ s.inodes = inodes
    BY <1>3, <2>1, <2>2 DEF Sane, State
  <2>4. off \in Nat /\ len \in Nat \ {0} /\ s.inodes[i].type = "file" /\ r = WriteAt(s, i, f, off, len)
    BY <1>3, <2>1, <2>3, NextFSAssumption, Constants
  <2>5. /\ r.ok \in BOOLEAN /\ r.full = ~r.ok /\ FileStep(s, X, i, r.s)
        /\ r.ok /\ NoneLost(s, X) => NoneLost(r.s, X)
        /\ \A wr : FileOK(Slots(s, s.inodes[i]), f, wr) =>
              FileOK(Slots(r.s, r.s.inodes[i]), f, IF r.ok THEN wr \cup off..(off + len - 1) ELSE wr)
    BY <2>3, <2>4, WriteAtFacts, ZenonT(60)
  <2>6. PICK places \in SUBSET Nat : places = off..(off + len - 1)
    BY <2>4
  <2>7. written' = IF r.ok THEN [written EXCEPT ![i] = @ \cup places] ELSE written
    BY <1>1, <2>1, <2>6
  <2>8. written \in [Inodes -> SUBSET Nat] /\ file \in [Inodes -> Nat]
    BY <2>2 DEF Typed
  <2>9. /\ written' \in [Inodes -> SUBSET Nat] /\ \A j \in X : j # i => written'[j] = written[j]
        /\ written'[i] = IF r.ok THEN written[i] \cup places ELSE written[i]
    BY <2>2, <2>3, <2>7, <2>8
  <2>10. /\ file' \in [Inodes -> Nat] /\ \A j \in X : j # i => file'[j] = file[j]
         /\ file'[i] # 0 => file'[i] = f /\ file[i] = f
    BY <1>1, <2>2, <2>3, <2>8
  <2>11. file'[i] # 0 => FileOK(Slots(s, s.inodes[i]), f, written[i])
    BY <2>2, <2>3, <2>4, <2>10 DEF FilesRead
  <2>12. file'[i] # 0 => FileOK(Slots(t, t.inodes[i]), file'[i], written'[i])
    BY <2>1, <2>5, <2>6, <2>9, <2>10, <2>11
  <2>13. FileDone(s, X, i, r, file'[i], written'[i])
    BY <2>1, <2>5, <2>12 DEF FileDone
  <2>14. WrittenAt(i)
    BY <1>1, <2>1, <2>9, <2>10 DEF WrittenAt
  <2>15. PICK shell \in BOOLEAN : shell = FALSE
    OBVIOUS
  <2>16. Finish(r, shell) /\ FileDone(State, Linked, i, r, file'[i], written'[i])
    BY <1>1, <2>1, <2>13, <2>15
  <2>. QED  BY <1>1, <1>3, <2>14, <2>16, FileInv
<1>. QED  BY <1>2, <1>3

LEMMA InvWriteRefused ==
    ASSUME Inv, NEW i, WriteRefused(i)
    PROVE  Inv'
<1>1. NoHarm /\ Finish(Error(State), FALSE) /\ SameFiles
  BY DEF WriteRefused, MayGoOn, SameFiles
<1>2. PICK s, X, r : s = State /\ X = Linked /\ r = Error(State)
  OBVIOUS
<1>3. r.s = s /\ r.ok = FALSE /\ r.full = FALSE
  BY <1>2 DEF Error
<1>4. Sane(s, X)
  BY <1>1, <1>2, InvNow
<1>5. FilesKept(s, s, X)
  BY DEF FilesKept
<1>6. OpFailed(s, X, r)
  BY <1>3, <1>4, <1>5 DEF OpFailed
<1>7. PICK shell \in BOOLEAN : shell = FALSE
  OBVIOUS
<1>8. Finish(r, shell) /\ OpFailed(State, Linked, r)
  BY <1>1, <1>2, <1>6, <1>7
<1>. QED  BY <1>1, <1>8, FailedInv

\* truncate leaves what paths can name.
LEMMA CutLinked ==
    ASSUME NEW s, NEW X, Sane(s, X), NEW i \in X, s.inodes[i].type = "file",
           NEW t, Local(s, t, X, i), t.inodes[i].type = "file"
    PROVE  LinkedIn(t) = X
<1>1. PICK r : Tree(s, X, r)
  BY DEF Sane
<1>2. Sound(s, X) /\ ~IsDir(s, i) /\ X \in SUBSET X /\ t.inodes[i].type = s.inodes[i].type
  BY DEF Sane, IsDir
<1>3. Tree(t, X, r)
  BY <1>1, <1>2, TreeKept
<1>4. Sound(t, X \ {i})
  BY <1>2, LocalOthers
<1>5. DirsShaped(t, X)
  <2>1. t \in Stores
    BY DEF Local
  <2>2. ASSUME NEW d \in X, IsDir(t, d)  PROVE DirShape(t, t.inodes[d])
    <3>1. d \in X \ {i}
      BY <2>2 DEF IsDir
    <3>. QED  BY <1>4, <2>2, <3>1, SoundDir
  <2>. QED  BY <2>1, <2>2 DEF DirsShaped
<1>. QED  BY <1>3, <1>5, TreeLinkedIn

LEMMA InvCutFile ==
    ASSUME Inv, NEW i \in Linked, NEW size \in Sizes, NEW shell \in BOOLEAN, CutFile(i, size, shell)
    PROVE  Inv'
<1>1. /\ NoHarm /\ inodes[i].type = "file" /\ Finish(Truncate(State, i, size), shell)
      /\ written' = [written EXCEPT ![i] = {p \in @ : p < size}]
      /\ file' = file /\ files' = files
  BY DEF CutFile, HasCut, MayGoOn
<1>2. PICK s, X, r, t, f :
         s = State /\ X = Linked /\ r = Truncate(State, i, size) /\ t = r.s /\ f = file[i]
  OBVIOUS
<1>3. harm' = IF FreeInUse(t, t.fs.bitmap) THEN "truncate" ELSE "none"
  BY <1>2 DEF CutFile, HasCut
<1>4. Sane(s, X) /\ Typed /\ FilesRead(s, X, file, written) /\ X \in SUBSET Inodes
  BY <1>1, <1>2, InvNow
<1>5. Sound(s, X) /\ i \in X /\ s.inodes = inodes /\ i \in Inodes
  BY <1>2, <1>4 DEF Sane, State
<1>6. size \in 0..(Limit * SLOTS) /\ s.inodes[i].type = "file" /\ r = Truncate(s, i, size)
  BY <1>1, <1>2, <1>5, NextFSAssumption
<1>7. /\ r.ok = TRUE /\ r.full = FALSE
      /\ t \in Stores /\ t.fs.free_blocks = Cardinality(t.fs.bitmap)
      /\ Local(s, t, X, i) /\ t.inodes[i].type = "file"
      /\ BlocksOf(t, t.inodes[i]) \cap t.fs.bitmap = {} =>
           /\ FileStep(s, X, i, t)
           /\ NoneLost(s, X) => NoneLost(t, X)
      /\ \A g, wr : FileOK(Slots(s, s.inodes[i]), g, wr) =>
            FileOK(Slots(t, t.inodes[i]), g, {p \in wr : p < size})
  <2>1. CutDone(s, X, i, size, r)
    BY <1>5, <1>6, TruncateFacts
  <2>2. r.s = t
    BY <1>2
  <2>3. t \in Stores /\ t.fs.free_blocks = Cardinality(t.fs.bitmap)
    BY <2>1, <2>2 DEF CutDone
  <2>4. Local(s, t, X, i) /\ t.inodes[i].type = "file"
    BY <2>1, <2>2 DEF CutDone
  <2>5. BlocksOf(t, t.inodes[i]) \cap t.fs.bitmap = {} => FileStep(s, X, i, t)
    BY <2>1, <2>2 DEF CutDone
  <2>6. BlocksOf(t, t.inodes[i]) \cap t.fs.bitmap = {} => (NoneLost(s, X) => NoneLost(t, X))
    BY <2>1, <2>2 DEF CutDone
  <2>7. \A g, wr : FileOK(Slots(s, s.inodes[i]), g, wr) =>
            FileOK(Slots(t, t.inodes[i]), g, {p \in wr : p < size})
    BY <2>1, <2>2 DEF CutDone
  <2>. QED  BY <2>1, <2>3, <2>4, <2>5, <2>6, <2>7 DEF CutDone
<1>8. written \in [Inodes -> SUBSET Nat] /\ file \in [Inodes -> Nat] /\ files \in Nat
  BY <1>4 DEF Typed
<1>9. /\ written' \in [Inodes -> SUBSET Nat] /\ \A j \in X : j # i => written'[j] = written[j]
      /\ written'[i] = {p \in written[i] : p < size}
  <2>1. PICK cut \in SUBSET Nat : cut = {p \in written[i] : p < size}
    BY <1>5, <1>8
  <2>2. written' = [written EXCEPT ![i] = cut]
    BY <1>1, <2>1
  <2>. QED  BY <1>4, <1>5, <1>8, <2>1, <2>2
<1>10. CASE FreeInUse(t, t.fs.bitmap)
  <2>1. ~NoHarm'
    BY <1>3, <1>10 DEF NoHarm
  <2>2. r.s \in Stores /\ Counts(r.s.fs) /\ r.ok \in BOOLEAN /\ r.full \in BOOLEAN
    BY <1>2, <1>7 DEF Counts
  <2>3. Finish(r, shell) /\ file' \in [Inodes -> Nat] /\ files' \in Nat
    BY <1>1, <1>2, <1>8
  <2>4. Typed'
    BY <1>4, <1>9, <2>2, <2>3, FinishTyped
  <2>. QED  BY <2>1, <2>4 DEF Inv
<1>11. CASE ~FreeInUse(t, t.fs.bitmap)
  <2>1. LinkedIn(t) = X
    BY <1>4, <1>5, <1>6, <1>7, CutLinked
  <2>2. BlocksOf(t, t.inodes[i]) \cap t.fs.bitmap = {}
    BY <1>5, <1>11, <2>1 DEF FreeInUse, Owned
  <2>3. FileStep(s, X, i, t) /\ (NoneLost(s, X) => NoneLost(t, X))
    BY <1>7, <2>2
  <2>4. f # 0 => FileOK(Slots(s, s.inodes[i]), f, written[i])
    BY <1>2, <1>4, <1>5, <1>6 DEF FilesRead
  <2>5. f # 0 => FileOK(Slots(t, t.inodes[i]), f, written'[i])
    BY <1>7, <1>9, <2>4
  <2>6. r.ok \in BOOLEAN /\ r.full \in BOOLEAN
    BY <1>7
  <2>7. FileDone(s, X, i, r, f, written'[i])
    BY <1>2, <2>3, <2>5, <2>6 DEF FileDone
  <2>8. WrittenAt(i)
    BY <1>1, <1>2, <1>8, <1>9 DEF WrittenAt
  <2>9. Finish(r, shell) /\ FileDone(State, Linked, i, r, file'[i], written'[i])
    BY <1>1, <1>2, <2>7
  <2>. QED  BY <1>1, <2>8, <2>9, FileInv
<1>. QED  BY <1>10, <1>11

LEMMA InvShellRewrite ==
    ASSUME Inv, NEW d \in Linked, NEW n \in Names, NEW len \in Lengths, ShellRewrite(d, n, len)
    PROVE  Inv'
<1>1. PICK i : i = Lookup(State, d, n)
  OBVIOUS
<1>2. /\ NoHarm /\ Exists(State, d, n) /\ inodes[i].type = "file"
      /\ HasRewritten(WriteFile(State, i, file[i], len), i, 0..(len - 1))
      /\ file' = file /\ files' = files
  BY <1>1 DEF ShellRewrite, RewriteInode, MayGoOn
<1>3. PICK s, X, r, t, f :
         s = State /\ X = Linked /\ r = WriteFile(State, i, file[i], len) /\ t = r.s /\ f = file[i]
  OBVIOUS
<1>4. Sane(s, X) /\ Typed /\ FilesRead(s, X, file, written) /\ X \in SUBSET Inodes
  BY <1>2, <1>3, InvNow
<1>5. i \in X
  <2>1. PICK q : Tree(s, X, q)
    BY <1>4 DEF Sane
  <2>2. Sound(s, X) /\ d \in X /\ IsDir(s, d) /\ Exists(s, d, n)
    BY <1>2, <1>3, <1>4 DEF Sane, Exists
  <2>3. PICK slots : slots = Slots(s, s.inodes[d])
    OBVIOUS
  <2>4. Lookup(s, d, n) \in X
    BY <2>1, <2>2, <2>3, LookupFacts
  <2>. QED  BY <1>1, <1>3, <2>4
<1>6. Sound(s, X) /\ s.inodes = inodes /\ i \in Inodes
  BY <1>3, <1>4, <1>5 DEF Sane, State
<1>7. len \in Nat \ {0} /\ f \in Nat /\ s.inodes[i].type = "file" /\ r = WriteFile(s, i, f, len)
  BY <1>2, <1>3, <1>4, <1>6, NextFSAssumption DEF Typed
<1>8. PICK places \in SUBSET Nat : places = 0..(len - 1)
  BY <1>7
<1>9. /\ r.ok \in BOOLEAN /\ r.full = ~r.ok
      /\ t \in Stores /\ t.fs.free_blocks = Cardinality(t.fs.bitmap)
      /\ r.ok => /\ FileStep(s, X, i, t)
                 /\ NoneLost(s, X) => NoneLost(t, X)
                 /\ \A wr : FileOK(Slots(s, s.inodes[i]), f, wr) =>
                       FileOK(Slots(t, t.inodes[i]), f, places)
      /\ ~r.ok /\ TruncateInode(Writing(s, s.inodes[i]), 0).ino = [s.inodes[i] EXCEPT !.size = 0] =>
           /\ FileStep(s, X, i, t)
           /\ \A wr : FileOK(Slots(s, s.inodes[i]), f, wr) => FileOK(Slots(t, t.inodes[i]), f, wr)
  <2>1. RewriteDone(s, X, i, f, len, r)
    BY <1>5, <1>6, <1>7, WriteFileFacts
  <2>2. r.s = t /\ 0..(len - 1) = places
    BY <1>3, <1>8
  <2>3. t \in Stores /\ t.fs.free_blocks = Cardinality(t.fs.bitmap)
    BY <2>1, <2>2 DEF RewriteDone
  <2>4. r.ok => FileStep(s, X, i, t)
    BY <2>1, <2>2 DEF RewriteDone
  <2>5. r.ok => (NoneLost(s, X) => NoneLost(t, X))
    BY <2>1, <2>2 DEF RewriteDone
  <2>6. r.ok => \A wr : FileOK(Slots(s, s.inodes[i]), f, wr) => FileOK(Slots(t, t.inodes[i]), f, places)
    BY <2>1, <2>2 DEF RewriteDone
  <2>7. ~r.ok /\ TruncateInode(Writing(s, s.inodes[i]), 0).ino = [s.inodes[i] EXCEPT !.size = 0] =>
           FileStep(s, X, i, t)
    BY <2>1, <2>2 DEF RewriteDone
  <2>8. ~r.ok /\ TruncateInode(Writing(s, s.inodes[i]), 0).ino = [s.inodes[i] EXCEPT !.size = 0] =>
           \A wr : FileOK(Slots(s, s.inodes[i]), f, wr) => FileOK(Slots(t, t.inodes[i]), f, wr)
    BY <2>1, <2>2 DEF RewriteDone
  <2>. QED  BY <2>1, <2>3, <2>4, <2>5, <2>6, <2>7, <2>8 DEF RewriteDone
<1>10. /\ Finish(r, TRUE) /\ written' = IF r.ok THEN [written EXCEPT ![i] = places] ELSE written
       /\ harm' = IF ~r.ok /\ LosesPtrs(inodes[i]) THEN "write_file" ELSE "none"
  BY <1>2, <1>3, <1>8 DEF HasRewritten
<1>11. written \in [Inodes -> SUBSET Nat] /\ file \in [Inodes -> Nat] /\ files \in Nat
  BY <1>4 DEF Typed
<1>12. /\ written' \in [Inodes -> SUBSET Nat] /\ \A j \in X : j # i => written'[j] = written[j]
       /\ written'[i] = IF r.ok THEN places ELSE written[i]
  BY <1>4, <1>6, <1>8, <1>10, <1>11
<1>13. PICK shell \in BOOLEAN : shell = TRUE
  OBVIOUS
<1>14. CASE ~r.ok /\ LosesPtrs(inodes[i])
  <2>1. ~NoHarm'
    BY <1>10, <1>14 DEF NoHarm
  <2>2. r.s \in Stores /\ Counts(r.s.fs) /\ r.ok \in BOOLEAN /\ r.full \in BOOLEAN
    BY <1>3, <1>9 DEF Counts
  <2>3. Finish(r, shell) /\ file' \in [Inodes -> Nat] /\ files' \in Nat
    BY <1>2, <1>10, <1>11, <1>13
  <2>4. Typed'
    BY <1>4, <1>12, <2>2, <2>3, FinishTyped
  <2>. QED  BY <2>1, <2>4 DEF Inv
<1>15. CASE r.ok \/ ~LosesPtrs(inodes[i])
  <2>1. f # 0 => FileOK(Slots(s, s.inodes[i]), f, written[i])
    BY <1>3, <1>4, <1>5, <1>7 DEF FilesRead
  <2>2. /\ FileStep(s, X, i, t)
        /\ f # 0 => FileOK(Slots(t, t.inodes[i]), f, written'[i])
        /\ ~r.full /\ NoneLost(s, X) => NoneLost(t, X)
    <3>1. CASE r.ok
      BY <1>9, <1>12, <2>1, <3>1
    <3>2. CASE ~r.ok
      <4>1. TruncateInode(Writing(s, s.inodes[i]), 0).ino = [s.inodes[i] EXCEPT !.size = 0]
        BY <1>3, <1>6, <1>15, <3>2 DEF LosesPtrs
      <4>. QED  BY <1>9, <1>12, <2>1, <3>2, <4>1
    <3>. QED  BY <3>1, <3>2
  <2>6. r.ok \in BOOLEAN /\ r.full \in BOOLEAN
    BY <1>9
  <2>7. FileDone(s, X, i, r, f, written'[i])
    BY <1>3, <2>2, <2>6 DEF FileDone
  <2>8. WrittenAt(i)
    BY <1>2, <1>3, <1>11, <1>12 DEF WrittenAt
  <2>9. Finish(r, shell) /\ FileDone(State, Linked, i, r, file'[i], written'[i])
    BY <1>2, <1>3, <1>10, <1>13, <2>7
  <2>10. i \in Linked
    BY <1>3, <1>5
  <2>. QED  BY <1>2, <2>8, <2>9, <2>10, FileInv
<1>. QED  BY <1>14, <1>15

LEMMA NewFileCut ==
    ASSUME NEW s
    PROVE  TruncateInode(Writing(s, NewFile), 0).ino = [NewFile EXCEPT !.size = 0]
<1>1. Writing(s, NewFile).ino.size = 0 /\ Writing(s, NewFile).ino = NewFile
  BY EmptyInodes DEF Writing
<1>2. TruncateInode(Writing(s, NewFile), 0) = SetSize(Writing(s, NewFile), 0)
  BY <1>1 DEF TruncateInode
<1>. QED  BY <1>1, <1>2 DEF SetSize, Writing

\* nxwrite of a file that has just been created in inode i, where s was.
WroteNew(s, X, i, f, r, places) ==
    /\ r.ok \in BOOLEAN /\ r.full = ~r.ok /\ Sane(r.s, X \cup {i}) /\ FilesKept(s, r.s, X)
    /\ ~r.full /\ NoneLost(s, X) => NoneLost(r.s, X \cup {i})
    /\ FileOK(Slots(r.s, r.s.inodes[i]), f, IF r.ok THEN places ELSE {})
LEMMA WriteNewFacts ==
    ASSUME NEW s, NEW X, NEW i \in Inodes, i \notin X, NEW c, OpDone(s, X, c, X \cup {i}),
           Fresh(c.s, i), NEW f \in Nat, NEW len \in Nat \ {0}, NEW r, r = WriteFile(c.s, i, f, len)
    PROVE  WroteNew(s, X, i, f, r, 0..(len - 1))
<1>1. PICK u, Y, t : u = c.s /\ Y = X \cup {i} /\ t = r.s
  OBVIOUS
<1>2. /\ Sane(u, Y) /\ FilesKept(s, u, X) /\ (NoneLost(s, X) => NoneLost(u, Y))
      /\ i \in Y /\ Fresh(u, i)
  <2>1. X \cap (X \cup {i}) = X
    OBVIOUS
  <2>2. FilesKept(s, c.s, X \cap (X \cup {i}))
    BY DEF OpDone
  <2>3. FilesKept(s, u, X)
    BY <1>1, <2>1, <2>2
  <2>4. Sane(u, Y) /\ (NoneLost(s, X) => NoneLost(u, Y))
    BY <1>1 DEF OpDone
  <2>. QED  BY <1>1, <2>3, <2>4
<1>3. Sound(u, Y) /\ u.inodes[i] = NewFile /\ u.inodes[i].type = "file" /\ r = WriteFile(u, i, f, len)
  BY <1>1, <1>2, EmptyInodes DEF Sane, Fresh
<1>4. RewriteDone(u, Y, i, f, len, r)
  BY <1>2, <1>3, WriteFileFacts
<1>5. FileOK(Slots(u, u.inodes[i]), f, {})
  BY <1>2 DEF Fresh, FileOK
<1>6. TruncateInode(Writing(u, u.inodes[i]), 0).ino = [u.inodes[i] EXCEPT !.size = 0]
  BY <1>3, NewFileCut
<1>7. r.ok \in BOOLEAN /\ r.full = ~r.ok
  BY <1>4 DEF RewriteDone
<1>8. FileStep(u, Y, i, t)
  BY <1>1, <1>4, <1>6 DEF RewriteDone
<1>9. FileOK(Slots(t, t.inodes[i]), f, IF r.ok THEN 0..(len - 1) ELSE {})
  <2>1. CASE r.ok
    BY <1>1, <1>4, <1>5, <2>1 DEF RewriteDone
  <2>2. CASE ~r.ok
    BY <1>1, <1>4, <1>5, <1>6, <2>2 DEF RewriteDone
  <2>. QED  BY <2>1, <2>2
<1>10. r.ok => (NoneLost(u, Y) => NoneLost(t, Y))
  BY <1>1, <1>4 DEF RewriteDone
<1>11. Sane(t, Y) /\ FilesKept(u, t, Y \ {i})
  BY <1>2, <1>3, <1>8, FileStepSane
<1>12. FilesKept(s, t, X)
  <2>1. Y \ {i} = X
    BY <1>1
  <2>2. FilesKept(u, t, X) /\ X \subseteq X
    BY <1>11, <2>1
  <2>. QED  BY <1>2, <2>2, FilesKeptTrans
<1>13. ~r.full /\ NoneLost(s, X) => NoneLost(t, Y)
  BY <1>2, <1>7, <1>10
<1>. QED  BY <1>1, <1>7, <1>9, <1>11, <1>12, <1>13 DEF WroteNew

LEMMA InvShellWriteNew ==
    ASSUME Inv, NEW d \in Linked, NEW n \in Names, NEW len \in Lengths, ShellWriteNew(d, n, len)
    PROVE  Inv'
<1>1. NoHarm /\ WriteNew(CreateFile(State, d, n), NextInode(State), len)
  BY DEF ShellWriteNew, MayGoOn
<1>2. PICK s, X, c, i :
         s = State /\ X = Linked /\ c = CreateFile(State, d, n) /\ i = NextInode(State)
  OBVIOUS
<1>3. Sane(s, X) /\ d \in X /\ d \in Inodes /\ i = NextInode(s) /\ c = CreateFile(s, d, n)
  BY <1>1, <1>2, InvNow
<1>4. \/ OpFailed(s, X, c)
      \/ i \in Inodes /\ i \notin X /\ OpDone(s, X, c, X \cup {i}) /\ Fresh(c.s, i)
  BY <1>3, CreateFileFacts
<1>5. WriteNew(c, i, len)
  BY <1>1, <1>2
<1>6. PICK shell \in BOOLEAN : shell = TRUE
  OBVIOUS
<1>7. CASE OpFailed(s, X, c)
  <2>1. SameFiles /\ Finish(c, shell)
    BY <1>5, <1>6, <1>7 DEF OpFailed, WriteNew, NoFileChange, SameFiles
  <2>. QED  BY <1>1, <1>2, <1>7, <2>1, FailedInv
<1>8. CASE i \in Inodes /\ i \notin X /\ OpDone(s, X, c, X \cup {i}) /\ Fresh(c.s, i)
  <2>1. Typed /\ FilesRead(s, X, file, written) /\ X \in SUBSET Inodes
        /\ (~failed /\ ~rebooted => NoneLost(s, X))
    BY <1>1, <1>2, InvNow
  <2>2. PICK f \in Nat : f = files + 1
    BY <2>1 DEF Typed
  <2>3. PICK r, t, Y : r = WriteFile(c.s, i, f, len) /\ t = r.s /\ Y = X \cup {i}
    OBVIOUS
  <2>4. len \in Nat \ {0}
    BY NextFSAssumption
  <2>5. WroteNew(s, X, i, f, r, 0..(len - 1))
    BY <1>8, <2>2, <2>3, <2>4, WriteNewFacts
  <2>6. PICK places \in SUBSET Nat : places = IF r.ok THEN 0..(len - 1) ELSE {}
    <3>1. 0..(len - 1) \in SUBSET Nat /\ {} \in SUBSET Nat
      BY <2>4
    <3>2. (IF r.ok THEN 0..(len - 1) ELSE {}) \in SUBSET Nat
      BY <3>1
    <3>. QED  BY <3>2
  <2>7. Finish(r, shell) /\ StartFile(i, places)
    <3>1. FirstWrite(WriteFile(c.s, i, files + 1, len), i, 0..(len - 1))
      BY <1>5, <1>8 DEF WriteNew, OpDone
    <3>. QED  BY <1>6, <2>2, <2>3, <2>6, <3>1 DEF FirstWrite
  <2>8. /\ file' \in [Inodes -> Nat] /\ written' \in [Inodes -> SUBSET Nat] /\ files' \in Nat
        /\ file'[i] = files + 1 /\ written'[i] = places
        /\ \A j \in Inodes : j # i => file'[j] = file[j] /\ written'[j] = written[j]
    BY <1>8, <2>1, <2>7, StartFileFacts
  <2>9. r.ok \in BOOLEAN /\ r.full \in BOOLEAN /\ Sane(t, Y) /\ FilesKept(s, t, X)
    BY <2>3, <2>5 DEF WroteNew
  <2>10. ~r.full /\ NoneLost(s, X) => NoneLost(t, Y)
    BY <2>3, <2>5 DEF WroteNew
  <2>11. FileOK(Slots(t, t.inodes[i]), f, places)
    BY <2>3, <2>5, <2>6 DEF WroteNew
  <2>12. r.s \in Stores /\ Counts(r.s.fs)
    BY <2>3, <2>9, SaneStore
  <2>13. Typed' /\ State' = t
    <3>1. Typed' /\ State' = r.s
      BY <2>1, <2>7, <2>8, <2>9, <2>12, FinishTyped
    <3>. QED  BY <2>3, <3>1
  <2>14. FilesRead(t, Y, file', written')
    <3>1. PICK num2, wr2 : num2 = file' /\ wr2 = written'
      OBVIOUS
    <3>2. \A j \in X : num2[j] = file[j] /\ wr2[j] = written[j]
      BY <1>8, <2>1, <2>8, <3>1
    <3>3. FileOK(Slots(t, t.inodes[i]), num2[i], wr2[i])
      BY <2>2, <2>8, <2>11, <3>1
    <3>4. FilesRead(t, X \cup {i}, num2, wr2)
      BY <1>8, <2>1, <2>9, <3>2, <3>3, FilesReadNew
    <3>. QED  BY <2>3, <3>1, <3>4
  <2>15. ~failed' /\ ~rebooted' => NoneLost(t, Y)
    BY <2>1, <2>7, <2>9, <2>10 DEF Finish
  <2>. QED  BY <2>9, <2>13, <2>14, <2>15, InvNext
<1>. QED  BY <1>4, <1>7, <1>8

LEMMA InvShellChmod ==
    ASSUME Inv, ShellChmod
    PROVE  Inv'
<1>1. NoHarm /\ Finish(Done(State), TRUE) /\ SameFiles
  BY DEF ShellChmod, MayGoOn, NoFileChange, SameFiles
<1>2. PICK s, X, r : s = State /\ X = Linked /\ r = Done(State)
  OBVIOUS
<1>3. r.s = s /\ r.ok = TRUE /\ r.full = FALSE
  BY <1>2 DEF Done
<1>4. Sane(s, X) /\ X \cap X = X
  BY <1>1, <1>2, InvNow
<1>5. FilesKept(s, s, X \cap X)
  BY DEF FilesKept
<1>6. OpDone(s, X, r, X)
  BY <1>3, <1>4, <1>5 DEF OpDone
<1>7. PICK shell \in BOOLEAN : shell = TRUE
  OBVIOUS
<1>8. Finish(r, shell) /\ OpDone(State, Linked, r, X) /\ \A i \in X \ Linked : r.s.inodes[i].type # "file"
  BY <1>1, <1>2, <1>6, <1>7
<1>. QED  BY <1>1, <1>8, DoneKept

\* The same disk under another mount.
Remounted(s, X, t) ==
    /\ t \in Stores /\ t.inodes = s.inodes /\ t.blocks = s.blocks /\ Counts(t.fs)
    /\ t.fs.inode_bitmap = {i \in Inodes : s.inodes[i].type # "free"}
    /\ \A i \in X : BlocksOf(s, s.inodes[i]) \cap t.fs.bitmap = {}
LEMMA RemountSane ==
    ASSUME NEW s, NEW X, Sane(s, X), NEW t, Remounted(s, X, t)
    PROVE  Sane(t, X) /\ FilesKept(s, t, X)
<1>1. PICK r : Sound(s, X) /\ Tree(s, X, r)
  BY DEF Sane
<1>2. t \in Stores /\ t.inodes = s.inodes /\ t.blocks = s.blocks /\ Counts(t.fs) /\ X \in SUBSET Inodes
  BY <1>1 DEF Remounted, Sound
<1>3. ASSUME NEW ino
      PROVE  /\ Pointers(t, ino) = Pointers(s, ino) /\ BlocksOf(t, ino) = BlocksOf(s, ino)
             /\ Slots(t, ino) = Slots(s, ino)
  BY <1>2, Untouched
<1>4. ASSUME NEW i \in X  PROVE InodeOK(t, i)
  <2>1. PICK ino : ino = s.inodes[i] /\ ino = t.inodes[i]
    BY <1>2
  <2>2. InodeOK(s, i)
    BY <1>1 DEF Sound
  <2>3. GoodInode(t, ino)
    BY <1>3, <2>1, <2>2 DEF InodeOK, GoodInode
  <2>4. BlocksOf(t, ino) \cap t.fs.bitmap = {}
    BY <1>3, <2>1 DEF Remounted
  <2>5. i \in t.fs.inode_bitmap
    BY <1>2, <2>2 DEF InodeOK, Remounted
  <2>6. ino.type = "dir" => DirShape(t, ino)
    BY <1>3, <2>1, <2>2 DEF InodeOK, DirShape
  <2>. QED  BY <2>1, <2>2, <2>3, <2>4, <2>5, <2>6 DEF InodeOK
<1>5. \A i, j \in X : i # j => BlocksOf(t, t.inodes[i]) \cap BlocksOf(t, t.inodes[j]) = {}
  BY <1>1, <1>2, <1>3 DEF Sound
<1>6. Sound(t, X)
  BY <1>2, <1>4, <1>5 DEF Sound, Counts
<1>7. Dirs(t, X) = Dirs(s, X)
  BY <1>2 DEF Dirs, IsDir
<1>8. DirSlots(t, X) = DirSlots(s, X)
  BY <1>2, <1>3, <1>7 DEF DirSlots
<1>9. Tree(t, X, r)
  BY <1>1, <1>7, <1>8 DEF Tree
<1>10. FilesKept(s, t, X)
  BY <1>2, <1>3 DEF FilesKept
<1>. QED  BY <1>6, <1>9, <1>10 DEF Sane

LEMMA InvReboot ==
    ASSUME Inv, Reboot
    PROVE  Inv'
<1>1. NoHarm /\ rebooted' = TRUE
  BY DEF Reboot, MayGoOn
<1>2. PICK s, X, t : s = State /\ X = Linked /\ t = State'
  OBVIOUS
<1>3. Sane(s, X) /\ Typed /\ FilesRead(s, X, file, written) /\ X \in SUBSET Inodes
  BY <1>1, <1>2, InvNow
<1>4. t.inodes = s.inodes /\ t.blocks = s.blocks /\ t.fs = fs' /\ s.inodes = inodes
      /\ file' = file /\ written' = written /\ files' = files /\ failed' = failed /\ synced' = synced
  BY <1>2 DEF State, Reboot
<1>5. synced \in Headers /\ Counts(synced) /\ s \in Stores
  BY <1>2, <1>3 DEF Typed
<1>6. PICK ib \in SUBSET Inodes : ib = {i \in Inodes : s.inodes[i].type # "free"}
  OBVIOUS
<1>7. fs' = [bitmap |-> synced.bitmap, free_blocks |-> synced.free_blocks,
             free_inodes |-> synced.free_inodes, inode_bitmap |-> ib]
  BY <1>4, <1>6 DEF Reboot
<1>8. fs' \in Mounts /\ fs'.bitmap = synced.bitmap /\ fs'.free_blocks = synced.free_blocks
      /\ fs'.inode_bitmap = ib
  BY <1>5, <1>7 DEF Headers, Mounts
<1>9. t \in Stores
  <2>1. t = [inodes |-> s.inodes, blocks |-> s.blocks, fs |-> fs']
    BY <1>2, <1>4 DEF State
  <2>2. s.inodes \in [Inodes -> InodeRecs] /\ s.blocks \in [Blocks -> [Cells -> CellValues]]
    BY <1>5, StoreFields
  <2>. QED  BY <1>8, <2>1, <2>2 DEF Stores
<1>10. Counts(fs)'
  BY <1>5, <1>8 DEF Counts
<1>11. Typed'
  <2>1. (State \in Stores)'
    BY <1>2, <1>9
  <2>2. (synced \in Headers)' /\ Counts(synced)'
    BY <1>4, <1>5 DEF Counts
  <2>3. file' \in [Inodes -> Nat] /\ written' \in [Inodes -> SUBSET Nat] /\ files' \in Nat
        /\ failed' \in BOOLEAN /\ rebooted' \in BOOLEAN
    BY <1>1, <1>3, <1>4 DEF Typed
  <2>. QED  BY <1>10, <2>1, <2>2, <2>3 DEF Typed
<1>12. CASE FreeInUse(State, synced.bitmap)
  <2>1. ~NoHarm'
    BY <1>12 DEF Reboot, NoHarm
  <2>. QED  BY <1>11, <2>1 DEF Inv
<1>13. CASE ~FreeInUse(State, synced.bitmap)
  <2>1. \A i \in X : BlocksOf(s, s.inodes[i]) \cap synced.bitmap = {}
    BY <1>2, <1>13 DEF FreeInUse, Owned, Linked
  <2>2. Counts(t.fs)
    BY <1>4, <1>5, <1>8 DEF Counts
  <2>3. Remounted(s, X, t)
    BY <1>4, <1>6, <1>8, <1>9, <2>1, <2>2 DEF Remounted
  <2>4. Sane(t, X) /\ FilesKept(s, t, X)
    BY <1>3, <2>3, RemountSane
  <2>5. FilesRead(t, X, file', written')
    BY <1>3, <1>4, <2>4, FilesReadKept
  <2>6. State' = t
    BY <1>2
  <2>. QED  BY <1>1, <1>11, <2>4, <2>5, <2>6, InvNext
<1>. QED  BY <1>12, <1>13

LEMMA InvStutter ==
    ASSUME Inv, UNCHANGED vars
    PROVE  Inv'
<1>1. State' = State /\ Linked' = Linked
  <2>1. State' = State
    BY DEF State, vars
  <2>. QED  BY <2>1 DEF Linked
<1>2. file' = file /\ written' = written /\ files' = files /\ failed' = failed /\ synced' = synced
      /\ rebooted' = rebooted /\ harm' = harm /\ fs' = fs
  BY DEF vars
<1>3. Typed => Typed'
  BY <1>1, <1>2 DEF Typed, Counts
<1>. QED  BY <1>1, <1>2, <1>3 DEF Inv, NoHarm

\* What format leaves.
Formatted(s) ==
    /\ s.inodes = [i \in Inodes |-> IF i = ROOT_INODE THEN NewDir(1) ELSE FreeInode]
    /\ s.blocks = [b \in Blocks |-> IF b = 1 THEN DirBlock(ROOT_INODE, ROOT_INODE) ELSE ZeroBlock]
    /\ s.fs.bitmap = Blocks \ {1} /\ s.fs.inode_bitmap = {ROOT_INODE}
    /\ s \in Stores /\ Counts(s.fs)
LEMMA RootBlock ==
    /\ DirBlock(ROOT_INODE, ROOT_INODE) \in [Cells -> CellValues]
    /\ DirBlock(ROOT_INODE, ROOT_INODE)[0] = Entry(".", ROOT_INODE)
    /\ DirBlock(ROOT_INODE, ROOT_INODE)[1] = Entry("..", ROOT_INODE)
    /\ \A c \in Cells : c # 0 /\ c # 1 => DirBlock(ROOT_INODE, ROOT_INODE)[c] = Zero
<1>1. PICK e0, e1 : e0 = Entry(".", ROOT_INODE) /\ e1 = Entry("..", ROOT_INODE)
  OBVIOUS
<1>2. e0 \in CellValues /\ e1 \in CellValues
  BY <1>1, CellFacts, Constants
<1>3. DirBlock(ROOT_INODE, ROOT_INODE) = [ZeroBlock EXCEPT ![0] = e0, ![1] = e1]
  BY <1>1 DEF DirBlock
<1>4. 0 \in Cells /\ 1 \in Cells /\ ZeroBlock \in [Cells -> CellValues]
      /\ \A c \in Cells : ZeroBlock[c] = Zero
  BY Constants, ZeroBlockType
<1>. QED  BY <1>1, <1>2, <1>3, <1>4

LEMMA FormatStore ==
    ASSUME Init
    PROVE  Formatted(State)
<1>1. 1 \in Blocks /\ Counts(fs)
  <2>1. 1 \in Blocks /\ IsFiniteSet(Blocks) /\ Cardinality(Blocks) = BLOCKS
    BY Constants
  <2>2. Cardinality(Blocks \ {1}) = Cardinality(Blocks) - 1
    BY <2>1, FS_RemoveElement
  <2>3. fs.bitmap = Blocks \ {1} /\ fs.free_blocks = BLOCKS - 1
    BY DEF Init
  <2>. QED  BY <2>1, <2>2, <2>3 DEF Counts
<1>2. fs \in Mounts
  <2>1. BLOCKS - 1 \in Nat /\ INODES - 1 \in Nat /\ Blocks \ {1} \in SUBSET Blocks
        /\ {ROOT_INODE} \in SUBSET Inodes
    BY Constants
  <2>. QED  BY <2>1 DEF Init, Mounts
<1>3. inodes \in [Inodes -> InodeRecs]
  BY <1>1, EmptyInodes DEF Init
<1>4. blocks \in [Blocks -> [Cells -> CellValues]]
  BY RootBlock, ZeroBlockType DEF Init
<1>5. State \in Stores
  BY <1>2, <1>3, <1>4 DEF State, Stores
<1>. QED  BY <1>1, <1>5 DEF Formatted, Init, State

LEMMA FormatSlots ==
    ASSUME NEW s, Formatted(s)
    PROVE  /\ 1 \in Blocks /\ s.inodes[ROOT_INODE] = NewDir(1)
           /\ Pointers(s, NewDir(1))[0] = 1 /\ \A k \in 0..Limit : k # 0 => Pointers(s, NewDir(1))[k] = 0
           /\ BlocksOf(s, NewDir(1)) = {1} /\ GoodInode(s, NewDir(1))
           /\ Slots(s, NewDir(1))[0] = Entry(".", ROOT_INODE)
           /\ Slots(s, NewDir(1))[1] = Entry("..", ROOT_INODE)
           /\ \A p \in FilePlaces : p >= 2 => Slots(s, NewDir(1))[p] = Zero
<1>1. PICK b \in Blocks : b = 1
  BY Constants
<1>2. /\ Pointers(s, NewDir(b))[0] = b /\ \A k \in 0..Limit : k # 0 => Pointers(s, NewDir(b))[k] = 0
      /\ BlocksOf(s, NewDir(b)) = {b} /\ GoodInode(s, NewDir(b))
      /\ \A p \in FilePlaces : Slots(s, NewDir(b))[p] = IF p < SLOTS THEN s.blocks[b][p] ELSE Zero
  BY NewDirBlocks DEF Formatted
<1>3. s.blocks[b] = DirBlock(ROOT_INODE, ROOT_INODE) /\ s.inodes[ROOT_INODE] = NewDir(b)
  BY <1>1, Constants DEF Formatted
<1>4. 0 \in FilePlaces /\ 1 \in FilePlaces /\ FilePlaces \in SUBSET Nat /\ SLOTS >= 2 /\ SLOTS \in Nat
      /\ 0..(SLOTS - 1) \in SUBSET Cells
  BY FirstPlaces, Constants
<1>5. \A p \in FilePlaces : p >= 2 => Slots(s, NewDir(b))[p] = Zero
  <2>1. SUFFICES ASSUME NEW p \in FilePlaces, p >= 2, p < SLOTS  PROVE s.blocks[b][p] = Zero
    BY <1>2
  <2>2. p \in Cells /\ p # 0 /\ p # 1
    BY <1>4, <2>1
  <2>. QED  BY <1>3, <2>2, RootBlock
<1>6. Slots(s, NewDir(b))[0] = Entry(".", ROOT_INODE) /\ Slots(s, NewDir(b))[1] = Entry("..", ROOT_INODE)
  BY <1>2, <1>3, <1>4, RootBlock
<1>. QED  BY <1>1, <1>2, <1>3, <1>5, <1>6

LEMMA FormatSane ==
    ASSUME NEW s, Formatted(s)
    PROVE  Sane(s, {ROOT_INODE}) /\ NoneLost(s, {ROOT_INODE})
<1>1. PICK ino, slots, X : ino = NewDir(1) /\ slots = Slots(s, ino) /\ X = {ROOT_INODE}
  OBVIOUS
<1>2. /\ 1 \in Blocks /\ s.inodes[ROOT_INODE] = ino
      /\ Pointers(s, ino)[0] = 1 /\ \A k \in 0..Limit : k # 0 => Pointers(s, ino)[k] = 0
      /\ BlocksOf(s, ino) = {1} /\ GoodInode(s, ino)
      /\ slots[0] = Entry(".", ROOT_INODE) /\ slots[1] = Entry("..", ROOT_INODE)
      /\ \A p \in FilePlaces : p >= 2 => slots[p] = Zero
  BY <1>1, FormatSlots
<1>3. ino.type = "dir" /\ ino.size = 2 /\ ino.indirect = 0
  BY <1>1, <1>2, EmptyInodes
<1>4. LastBlock(2) = 0
  <2>1. \A S \in Nat : S >= 2 => 1 \div S = 0
    BY SMTT(30)
  <2>. QED  BY <2>1, Constants DEF LastBlock
<1>5. DirShape(s, ino)
  <2>1. \A k \in 0..(Limit - 1) : k <= LastBlock(ino.size) => Pointers(s, ino)[k] # 0
    BY <1>2, <1>3, <1>4
  <2>2. \A p \in FilePlaces : p >= ino.size => Slots(s, ino)[p] = Zero
    BY <1>1, <1>2, <1>3
  <2>. QED  BY <1>3, <2>1, <2>2 DEF DirShape
<1>6. s \in Stores /\ Counts(s.fs) /\ s.fs.bitmap = Blocks \ {1} /\ s.fs.inode_bitmap = {ROOT_INODE}
      /\ X \in SUBSET Inodes
  BY <1>1, Constants DEF Formatted
<1>7. InodeOK(s, ROOT_INODE)
  BY <1>2, <1>3, <1>5, <1>6 DEF InodeOK
<1>8. Sound(s, X)
  BY <1>1, <1>6, <1>7 DEF Sound, Counts
<1>9. Dirs(s, X) = X /\ DirSlots(s, X) = [d \in X |-> slots]
  <2>1. Dirs(s, X) = X
    BY <1>1, <1>2, <1>3 DEF Dirs, IsDir
  <2>. QED  BY <1>1, <1>2, <2>1 DEF DirSlots
<1>10. PICK slot, r : slot = [d \in X |-> slots] /\ r = [d \in X |-> 0]
  OBVIOUS
<1>11. TreeShape(X, X, slot, r)
  <2>1. /\ slot[ROOT_INODE] = slots /\ \A d \in X : d = ROOT_INODE
    BY <1>1, <1>10
  <2>2. \A p \in FilePlaces, n \in Names : \A j : slots[p] # Entry(n, j)
    <3>1. \A p \in FilePlaces : p >= 2 \/ p = 0 \/ p = 1
      BY FirstPlaces
    <3>2. \A n \in Names : \A j : Entry(n, j) # slots[0] /\ Entry(n, j) # slots[1]
      BY <1>2, NameFacts
    <3>3. \A n, j : Entry(n, j) # Zero
      BY CellFacts
    <3>. QED  BY <1>2, <3>1, <3>2, <3>3
  <2>3. X \in SUBSET Inodes /\ ROOT_INODE \in X /\ r \in [X -> Nat]
    BY <1>1, <1>6, <1>10
  <2>4. \A d \in X : slot[d] = slots
    BY <1>10
  <2>. QED  BY <1>2, <2>1, <2>2, <2>3, <2>4 DEF TreeShape
<1>12. Sane(s, X)
  BY <1>8, <1>9, <1>10, <1>11 DEF Sane, Tree
<1>13. NoneLost(s, X)
  <2>1. Tight(s, ino)
    BY <1>2, <1>3, <1>4, IndexCases DEF Tight
  <2>2. \A b \in Blocks : b \in s.fs.bitmap \/ b \in BlocksOf(s, ino)
    BY <1>2, <1>6
  <2>. QED  BY <1>1, <1>2, <2>1, <2>2 DEF NoneLost
<1>. QED  BY <1>1, <1>12, <1>13

LEMMA InvInit ==
    ASSUME Init
    PROVE  Inv
<1>1. PICK s, X : s = State /\ X = {ROOT_INODE}
  OBVIOUS
<1>2. Formatted(s)
  BY <1>1, FormatStore
<1>3. Sane(s, X) /\ NoneLost(s, X)
  BY <1>1, <1>2, FormatSane
<1>4. Linked = X
  <2>1. PICK r : Sound(s, X) /\ Tree(s, X, r)
    BY <1>3 DEF Sane
  <2>2. LinkedIn(s) = X
    BY <2>1, TreeLinked
  <2>. QED  BY <1>1, <2>2 DEF Linked
<1>5. FilesRead(s, X, file, written)
  <2>1. s.inodes[ROOT_INODE] = NewDir(1) /\ 1 \in Blocks
    BY <1>2, FormatSlots
  <2>2. s.inodes[ROOT_INODE].type = "dir"
    BY <2>1, EmptyInodes
  <2>. QED  BY <1>1, <2>2 DEF FilesRead
<1>6. State \in Stores /\ Counts(fs)
  BY <1>1, <1>2 DEF Formatted, State
<1>7. synced \in Headers /\ Counts(synced)
  <2>1. synced = Header(fs)
    BY DEF Init
  <2>2. fs.bitmap \in SUBSET Blocks /\ fs.free_blocks \in Nat /\ fs.free_inodes \in Nat
    <3>1. s.fs = fs /\ s \in Stores
      BY <1>1, <1>6 DEF State
    <3>. QED  BY <3>1, StoreFields
  <2>. QED  BY <1>6, <2>1, <2>2 DEF Header, Headers, Counts
<1>8. file \in [Inodes -> Nat] /\ written \in [Inodes -> SUBSET Nat] /\ files \in Nat
      /\ failed \in BOOLEAN /\ rebooted \in BOOLEAN
  BY DEF Init
<1>9. Typed
  BY <1>6, <1>7, <1>8 DEF Typed
<1>. QED  BY <1>1, <1>3, <1>4, <1>5, <1>9 DEF Inv

-----------------------------------------------------------------------------
(* The theorems *)

\* A path leads to an inode in use, a descriptor at least to one there is.
LEMMA Reaching ==
    ASSUME Inv, StaleOK
    PROVE  /\ Reached \subseteq Linked
           /\ \A e \in Descriptors : e[1] \in Inodes /\ e[2] \in Nat
<1>1. \A e \in stale : e[1] \in Inodes /\ e[2] \in Nat
  BY DEF StaleOK
<1>2. CASE NoHarm
  <2>1. Reached = Linked /\ Linked \in SUBSET Inodes /\ file \in [Inodes -> Nat]
    BY <1>2, InvNow DEF Reached, Typed
  <2>2. \A e \in {<<i, file[i]>> : i \in Reached} : e[1] \in Inodes /\ e[2] \in Nat
    BY <2>1
  <2>. QED  BY <1>1, <2>1, <2>2 DEF Descriptors
<1>3. CASE ~NoHarm
  <2>1. Reached = {}
    BY <1>3 DEF Reached
  <2>. QED  BY <1>1, <2>1 DEF Descriptors
<1>. QED  BY <1>2, <1>3

LEMMA InvStep ==
    ASSUME Inv, StaleOK, [Next]_vars
    PROVE  Inv'
<1>0. Reached \subseteq Linked
  BY Reaching
<1>1. ASSUME NEW d \in Resolved, NEW n \in Names, OpenCreate(d, n) \/ MakeDir(d, n, FALSE)
      PROVE  Inv'
  <2>1. d \in Inodes /\ (d \in Linked \/ ~IsDir(State, d))
    BY DEF Resolved
  <2>2. CASE OpenCreate(d, n)
    BY <2>1, <2>2, InvOpenCreate
  <2>3. CASE MakeDir(d, n, FALSE)
    <3>1. PICK shell \in BOOLEAN : shell = FALSE
      OBVIOUS
    <3>2. MakeDir(d, n, shell)
      BY <2>3, <3>1
    <3>. QED  BY <2>1, <3>2, InvMakeDir
  <2>. QED  BY <1>1, <2>2, <2>3
<1>2. ASSUME NEW e \in Descriptors, NEW off \in Offsets, NEW len \in Lengths,
             SysWrite(e[1], e[2], off, len)
      PROVE  Inv'
  <2>1. PICK i \in Inodes, f \in Nat : i = e[1] /\ f = e[2]
    BY Reaching
  <2>2. SysWrite(i, f, off, len)
    BY <1>2, <2>1
  <2>. QED  BY <2>2, InvSysWrite
<1>3. ASSUME NEW d \in Reached, NEW n \in Names, MakeDir(d, n, TRUE)  PROVE Inv'
  <2>1. NoHarm
    BY <1>3 DEF MakeDir, MayGoOn
  <2>2. d \in Linked /\ d \in Inodes
    BY <1>0, <2>1, InvNow
  <2>3. PICK shell \in BOOLEAN : shell = TRUE
    OBVIOUS
  <2>4. MakeDir(d, n, shell)
    BY <1>3, <2>3
  <2>. QED  BY <2>2, <2>4, InvMakeDir
<1>4. ASSUME NEW d \in Reached, NEW n \in Names, NEW len \in Lengths,
             ShellRewrite(d, n, len) \/ ShellWriteNew(d, n, len)
      PROVE  Inv'
  BY <1>0, <1>4, InvShellRewrite, InvShellWriteNew
<1>5. ASSUME NEW shell \in BOOLEAN, NEW d \in Reached, NEW n \in Names,
             RemoveFile(d, n, shell) \/ RemoveDir(d, n, shell)
      PROVE  Inv'
  BY <1>0, <1>5, InvRemoveFile, InvRemoveDir
<1>6. ASSUME NEW shell \in BOOLEAN, NEW i \in Reached, NEW size \in Sizes, CutFile(i, size, shell)
      PROVE  Inv'
  BY <1>0, <1>6, InvCutFile
<1>7. CASE ProgramStep
  BY <1>1, <1>2, <1>7, InvWriteRefused DEF ProgramStep
<1>8. CASE ShellStep
  BY <1>3, <1>4, <1>8, InvShellChmod DEF ShellStep
<1>9. CASE SharedStep
  BY <1>5, <1>6, <1>9 DEF SharedStep
<1>10. CASE Reboot
  BY <1>10, InvReboot
<1>11. CASE Stop \/ UNCHANGED vars
  BY <1>11, InvStutter DEF Stop
<1>. QED  BY <1>7, <1>8, <1>9, <1>10, <1>11 DEF Next

LEMMA StaleRemoved ==
    ASSUME Inv, NoHarm, StaleOK, NEW d \in Linked, NEW n \in Names, Exists(State, d, n),
           NEW r, NEW shell, HasRemoved(r, Lookup(State, d, n), shell)
    PROVE  StaleOK'
<1>1. PICK s, X, i : s = State /\ X = Linked /\ i = Lookup(State, d, n)
  OBVIOUS
<1>2. Sane(s, X) /\ X \in SUBSET Inodes /\ file \in [Inodes -> Nat]
  BY <1>1, InvNow DEF Typed
<1>3. PICK q : Sound(s, X) /\ Tree(s, X, q)
  BY <1>2 DEF Sane
<1>4. d \in X /\ IsDir(s, d) /\ Exists(s, d, n)
  BY <1>1 DEF Exists
<1>5. PICK slots : slots = Slots(s, s.inodes[d])
  OBVIOUS
<1>6. Lookup(s, d, n) \in X
  BY <1>3, <1>4, <1>5, LookupFacts
<1>7. i \in Inodes /\ file[i] \in Nat
  BY <1>1, <1>2, <1>6
<1>8. stale' = stale \cup {<<i, file[i]>>} \/ stale' = stale
  BY <1>1 DEF HasRemoved
<1>. QED  BY <1>7, <1>8 DEF StaleOK

LEMMA StaleStep ==
    ASSUME Inv, StaleOK, [Next]_vars
    PROVE  StaleOK'
<1>1. ASSUME stale' = stale \/ stale' = {}  PROVE StaleOK'
  BY <1>1 DEF StaleOK
<1>2. CASE ProgramStep
  <2>1. stale' = stale
    BY <1>2 DEF ProgramStep, OpenCreate, Opened, StartFile, NoFileChange, MakeDir, SysWrite, WriteRefused
  <2>. QED  BY <1>1, <2>1
<1>3. CASE ShellStep
  <2>1. stale' = stale
    BY <1>3 DEF ShellStep, ShellChmod, MakeDir, ShellRewrite, ShellWriteNew, WriteNew, FirstWrite,
                StartFile, NoFileChange
  <2>. QED  BY <1>1, <2>1
<1>4. CASE SharedStep
  <2>1. ASSUME NEW shell \in BOOLEAN, NEW d \in Reached, NEW n \in Names,
               RemoveFile(d, n, shell) \/ RemoveDir(d, n, shell)
        PROVE  StaleOK'
    <3>1. NoHarm /\ Exists(State, d, n) /\ d \in Linked
      BY <2>1, Reaching DEF RemoveFile, RemoveDir, MayGoOn
    <3>2. PICK r : HasRemoved(r, Lookup(State, d, n), shell)
      BY <2>1 DEF RemoveFile, RemoveDir
    <3>. QED  BY <3>1, <3>2, StaleRemoved
  <2>2. ASSUME NEW shell \in BOOLEAN, NEW i \in Reached, NEW size \in Sizes, CutFile(i, size, shell)
        PROVE  StaleOK'
    BY <1>1, <2>2 DEF CutFile
  <2>. QED  BY <1>4, <2>1, <2>2 DEF SharedStep
<1>5. CASE Reboot
  BY <1>1, <1>5 DEF Reboot
<1>6. CASE Stop \/ UNCHANGED vars
  BY <1>1, <1>6 DEF Stop, vars
<1>. QED  BY <1>2, <1>3, <1>4, <1>5, <1>6 DEF Next

\* The inductive invariant: until harm is done the inodes that paths can name form a tree
\* whose directories hold nothing but its entries, their blocks are apart and not free,
\* every file that only its own descriptors have written to reads as it should, and no
\* block is lost while no call has run out of space.  A write through any descriptor is
\* covered: what it may overwrite is not checked, so one to a directory, or to an inode
\* that a failed create left behind, is harm.
THEOREM Invariant == Spec => [](Inv /\ StaleOK)
<1>1. Init => Inv /\ StaleOK
  <2>1. Init => StaleOK
    BY DEF Init, StaleOK
  <2>. QED  BY <2>1, InvInit
<1>2. Inv /\ StaleOK /\ [Next]_vars => (Inv /\ StaleOK)'
  BY InvStep, StaleStep
<1>. QED  BY <1>1, <1>2, PTL DEF Spec

LEMMA InvTypeOK ==
    ASSUME Inv, harm # "descriptor"
    PROVE  TypeOK
<1>1. PICK s : s = State
  OBVIOUS
<1>2. s \in Stores /\ s.inodes = inodes /\ s.blocks = blocks /\ s.fs = fs /\ Counts(fs)
  BY <1>1 DEF Inv, Typed, State
<1>3. /\ inodes \in [Inodes -> InodeRecs] /\ blocks \in [Blocks -> [Cells -> CellValues]]
      /\ fs.bitmap \in SUBSET Blocks /\ fs.free_blocks \in Nat
      /\ fs.inode_bitmap \in SUBSET Inodes /\ fs.free_inodes \in Nat
      /\ Cardinality(fs.bitmap) \in Nat /\ Cardinality(fs.bitmap) <= BLOCKS
  BY <1>2, StoreFields
<1>4. fs.free_blocks \in 0..BLOCKS
  BY <1>2, <1>3, Constants DEF Counts
<1>5. \A i \in Inodes : /\ inodes[i].type \in {"free", "file", "dir"}
                        /\ inodes[i].size \in 0..(Limit * SLOTS)
                        /\ inodes[i].direct \in [0..(DIRECT_PTRS - 1) -> {0} \cup Blocks]
                        /\ inodes[i].indirect \in {0} \cup Blocks
  BY <1>3 DEF InodeRecs, PtrValues
<1>6. DOMAIN blocks = Blocks /\ \A b \in Blocks : DOMAIN blocks[b] = Cells
  BY <1>3
<1>. QED  BY <1>3, <1>4, <1>5, <1>6 DEF TypeOK

\* The inode table, the data blocks and the mounted bitmaps keep their types, and
\* free_blocks never exceeds the device: with or without harm, but for the state that a
\* write to a directory or to an inode left behind leads to.
THEOREM Types == Spec => [](harm # "descriptor" => TypeOK)
<1>1. Inv => (harm # "descriptor" => TypeOK)
  BY InvTypeOK
<1>. QED  BY <1>1, Invariant, PTL

\* What the invariant says of a single inode in use.
LEMMA InvInode ==
    ASSUME Inv, NoHarm, NEW i \in Linked
    PROVE  /\ i \in Inodes /\ State.inodes[i] = inodes[i] /\ InodeOK(State, i)
           /\ \A k \in 0..Limit : Pointers(State, inodes[i])[k] \in PtrValues
           /\ \A k \in 0..Limit : Pointers(State, inodes[i])[k] # 0 =>
                 Pointers(State, inodes[i])[k] \in BlocksOf(State, inodes[i])
<1>1. PICK s, X, ino : s = State /\ X = Linked /\ ino = inodes[i]
  OBVIOUS
<1>2. Sound(s, X) /\ i \in X /\ s.inodes[i] = ino
  BY <1>1, InvNow DEF Sane, State
<1>3. InodeOK(s, i) /\ i \in Inodes
  BY <1>2 DEF Sound
<1>4. GoodInode(s, ino)
  BY <1>2, <1>3 DEF InodeOK
<1>5. BlocksOf(s, ino) = {Pointers(s, ino)[k] : k \in 0..Limit} \ {0}
  BY PointersFacts
<1>6. /\ \A k \in 0..Limit : Pointers(s, ino)[k] \in PtrValues
      /\ \A k \in 0..Limit : Pointers(s, ino)[k] # 0 => Pointers(s, ino)[k] \in BlocksOf(s, ino)
  BY <1>4, <1>5 DEF GoodInode
<1>. QED  BY <1>1, <1>2, <1>3, <1>6

LEMMA InvBlocks ==
    ASSUME Inv
    PROVE  BlocksOwnedOnce
<1>1. SUFFICES ASSUME NoHarm
               PROVE  /\ \A i, j \in Linked, k, m \in 0..Limit :
                            LET b == Pointers(State, inodes[i])[k]
                            IN b # 0 /\ b = Pointers(State, inodes[j])[m] => i = j /\ k = m
                      /\ ~FreeInUse(State, fs.bitmap)
                      /\ fs.free_blocks = Cardinality(fs.bitmap)
  BY DEF BlocksOwnedOnce
<1>2. PICK s, X : s = State /\ X = Linked
  OBVIOUS
<1>3. Sound(s, X) /\ s.inodes = inodes /\ s.fs = fs
  BY <1>1, <1>2, InvNow DEF Sane, State
<1>4. ASSUME NEW i \in X, NEW j \in X, NEW k \in 0..Limit, NEW m \in 0..Limit,
             Pointers(s, inodes[i])[k] # 0, Pointers(s, inodes[i])[k] = Pointers(s, inodes[j])[m]
      PROVE  i = j /\ k = m
  <2>1. /\ Pointers(s, inodes[i])[k] \in BlocksOf(s, inodes[i])
        /\ Pointers(s, inodes[j])[m] \in BlocksOf(s, inodes[j])
    <3>1. Pointers(s, inodes[i])[k] \in BlocksOf(s, inodes[i])
      BY <1>1, <1>2, <1>4, InvInode
    <3>2. Pointers(s, inodes[j])[m] \in BlocksOf(s, inodes[j])
      BY <1>1, <1>2, <1>4, InvInode
    <3>. QED  BY <3>1, <3>2
  <2>2. i = j
    BY <1>3, <1>4, <2>1 DEF Sound
  <2>3. GoodInode(s, inodes[i])
    BY <1>3 DEF Sound, InodeOK
  <2>. QED  BY <1>4, <2>2, <2>3 DEF GoodInode
<1>5. ~FreeInUse(s, fs.bitmap)
  <2>1. \A i \in X : BlocksOf(s, s.inodes[i]) \cap fs.bitmap = {}
    BY <1>3 DEF Sound, InodeOK
  <2>2. LinkedIn(s) = X
    BY <1>2 DEF Linked
  <2>. QED  BY <2>1, <2>2 DEF FreeInUse, Owned
<1>6. fs.free_blocks = Cardinality(fs.bitmap)
  BY <1>3 DEF Sound
<1>. QED  BY <1>2, <1>4, <1>5, <1>6

\* Until harm is done no block is in use twice or both in use and free, and free_blocks
\* counts the free ones: alloc_block, free_block and the rollbacks of create_dir.
THEOREM OwnedOnce == Spec => []BlocksOwnedOnce
<1>1. Inv => BlocksOwnedOnce
  BY InvBlocks
<1>. QED  BY <1>1, Invariant, PTL

LEMMA InvNoLeak ==
    ASSUME Inv
    PROVE  NoLeak
<1>1. SUFFICES ASSUME NoHarm, ~failed, ~rebooted  PROVE Owned(State) \cup fs.bitmap = Blocks
  BY DEF NoLeak
<1>2. PICK s, X : s = State /\ X = Linked
  OBVIOUS
<1>3. NoneLost(s, X) /\ s.inodes = inodes /\ s.fs = fs /\ LinkedIn(s) = X
  BY <1>1, <1>2, InvNow DEF State, Linked
<1>4. \A b \in Blocks : b \in fs.bitmap \/ \E i \in X : b \in BlocksOf(s, s.inodes[i])
  BY <1>3 DEF NoneLost
<1>5. \A i \in X : BlocksOf(s, s.inodes[i]) \subseteq Blocks
  <2>1. SUFFICES ASSUME NEW i \in X  PROVE BlocksOf(s, inodes[i]) \subseteq Blocks
    BY <1>3
  <2>2. \A k \in 0..Limit : Pointers(s, inodes[i])[k] \in PtrValues
    BY <1>1, <1>2, InvInode
  <2>3. BlocksOf(s, inodes[i]) = {Pointers(s, inodes[i])[k] : k \in 0..Limit} \ {0}
    BY PointersFacts
  <2>. QED  BY <2>2, <2>3 DEF PtrValues
<1>6. Owned(s) = UNION {BlocksOf(s, s.inodes[i]) : i \in X}
  BY <1>3 DEF Owned
<1>7. fs.bitmap \subseteq Blocks
  BY <1>1, InvTypeOK DEF TypeOK, NoHarm
<1>. QED  BY <1>2, <1>4, <1>5, <1>6, <1>7

\* As long as no call ran out of space, the machine was not switched off and no harm is
\* done, unlink, rmdir, truncate and the rollbacks give back every block that was taken; a
\* write through the descriptor of a removed file takes none, it is refused.
THEOREM NothingLeaks == Spec => []NoLeak
<1>1. Inv => NoLeak
  BY InvNoLeak
<1>. QED  BY <1>1, Invariant, PTL

\* truncate's old_last_block - DIRECT_PTRS + 1 does not underflow: an inode that has an
\* indirect block is larger than its direct blocks.
THEOREM LargeIfIndirect == Spec => []IndirectNeeded
<1>1. Inv => IndirectNeeded
  <2>1. SUFFICES ASSUME Inv, NoHarm, NEW i \in Linked, inodes[i].indirect # 0
                 PROVE  inodes[i].size > DIRECT_PTRS * SLOTS
    BY DEF IndirectNeeded
  <2>2. State.inodes[i] = inodes[i] /\ InodeOK(State, i)
    BY <2>1, InvInode
  <2>. QED  BY <2>1, <2>2 DEF InodeOK
<1>. QED  BY <1>1, Invariant, PTL

LEMMA InvReadBack ==
    ASSUME Inv
    PROVE  ReadBack
<1>1. SUFFICES ASSUME NoHarm, NEW i \in Linked, inodes[i].type = "file", file[i] # 0,
                      NEW p \in 0..(inodes[i].size - 1)
               PROVE  \/ ReadUnit(i, p) = Data(file[i], p)
                      \/ ReadUnit(i, p) = Zero /\ p \notin written[i]
  BY DEF ReadBack
<1>2. PICK s, ino : s = State /\ ino = inodes[i]
  OBVIOUS
<1>3. i \in Inodes /\ s.inodes[i] = ino /\ ino.size \in 0..(Limit * SLOTS)
  <2>1. i \in Inodes /\ State.inodes[i] = inodes[i]
    BY <1>1, InvInode
  <2>2. inodes[i].size \in 0..(Limit * SLOTS)
    BY <1>1, <2>1, InvTypeOK DEF TypeOK, NoHarm
  <2>. QED  BY <1>2, <2>1, <2>2
<1>4. p \in FilePlaces
  <2>1. Limit * SLOTS \in Nat
    BY Constants
  <2>. QED  BY <1>1, <1>2, <1>3, <2>1 DEF FilePlaces
<1>5. FileOK(Slots(s, ino), file[i], written[i])
  <2>1. FilesRead(s, Linked, file, written)
    BY <1>1, <1>2, InvNow
  <2>. QED  BY <1>1, <1>2, <1>3, <2>1 DEF FilesRead
<1>6. ReadUnit(i, p) = Slots(s, ino)[p]
  <2>1. p \div SLOTS \in 0..(Limit - 1)
    BY <1>4, PlaceCells
  <2>2. BlockAt(s, ino, p \div SLOTS) = Pointers(s, ino)[p \div SLOTS]
    BY <2>1, PointersFacts
  <2>3. Slots(s, ino)[p] = Unit(s, ino, p \div SLOTS, p % SLOTS)
    BY <1>4, SlotsFacts
  <2>. QED  BY <1>2, <2>2, <2>3 DEF ReadUnit, CellAt, Unit
<1>. QED  BY <1>4, <1>5, <1>6 DEF FileOK

\* Until harm is done a file that no descriptor of another file has written to reads back
\* what write and write_file put there, and elsewhere zeros or its own older data, through
\* any sequence of writes at any place, cuts and reuse of blocks and inodes.
THEOREM ReadsBack == Spec => []ReadBack
<1>1. Inv => ReadBack
  BY InvReadBack
<1>. QED  BY <1>1, Invariant, PTL

\* The places of a directory that hold the entry of a name, and the inode it names.
Named(s, d) == {p \in Used(s, d) : CellAt(s, s.inodes[d], p)[2] \in Names}
KidAt(s, d, p) == CellAt(s, s.inodes[d], p)[3]
LEMMA NamedFacts ==
    ASSUME NEW s, NEW X, NEW r, Sound(s, X), Tree(s, X, r), NEW d \in X, IsDir(s, d),
           NEW slots, slots = Slots(s, s.inodes[d])
    PROVE  /\ \A p \in Named(s, d) : /\ p \in FilePlaces /\ KidAt(s, d, p) \in X
                                     /\ \E n \in Names : slots[p] = Entry(n, KidAt(s, d, p))
           /\ \A p \in FilePlaces, n \in Names : \A j : slots[p] = Entry(n, j) =>
                 p \in Named(s, d) /\ KidAt(s, d, p) = j
<1>1. PICK ino : ino = s.inodes[d]
  OBVIOUS
<1>2. s \in Stores /\ d \in Inodes /\ DirShape(s, s.inodes[d])
  BY SoundDir
<1>3. /\ Places(s, d) = 0..(ino.size - 1)
      /\ \A p \in 0..(ino.size - 1) : CellAt(s, ino, p) = slots[p]
      /\ Used(s, d) = {p \in FilePlaces : slots[p] # Zero}
  <2>1. DirRead(s, d, ino)
    BY <1>1, <1>2, DirReads
  <2>. QED  BY <1>1, <2>1 DEF DirRead
<1>4. \A p \in Used(s, d) : p \in FilePlaces /\ slots[p] # Zero /\ CellAt(s, ino, p) = slots[p]
  <2>1. Used(s, d) \subseteq Places(s, d)
    BY DEF Used
  <2>. QED  BY <1>3, <2>1
<1>5. ASSUME NEW p \in Named(s, d)
      PROVE  /\ p \in FilePlaces /\ KidAt(s, d, p) \in X
             /\ \E n \in Names : slots[p] = Entry(n, KidAt(s, d, p))
  <2>1. p \in FilePlaces /\ slots[p] # Zero /\ CellAt(s, ino, p) = slots[p] /\ slots[p][2] \in Names
    BY <1>1, <1>4 DEF Named
  <2>2. PICK n \in Names \cup {".", ".."}, j \in X :
           slots[p] = Entry(n, j) /\ slots[p][2] = n /\ slots[p][3] = j
    BY <2>1, DirCells
  <2>. QED  BY <1>1, <2>1, <2>2 DEF KidAt
<1>6. ASSUME NEW p \in FilePlaces, NEW n \in Names, NEW j, slots[p] = Entry(n, j)
      PROVE  p \in Named(s, d) /\ KidAt(s, d, p) = j
  <2>1. Entry(n, j) # Zero /\ Entry(n, j)[2] = n /\ Entry(n, j)[3] = j
    BY CellFacts
  <2>2. p \in Used(s, d) /\ CellAt(s, ino, p) = Entry(n, j)
    BY <1>3, <1>4, <1>6, <2>1
  <2>. QED  BY <1>1, <2>1, <2>2 DEF Named, KidAt
<1>. QED  BY <1>5, <1>6

\* dir_lookup of "." and "..".
LEMMA DotLookup ==
    ASSUME NEW s, NEW X, NEW r, Sound(s, X), Tree(s, X, r), NEW d \in X, IsDir(s, d)
    PROVE  /\ Exists(s, d, ".") /\ Lookup(s, d, ".") = d
           /\ Exists(s, d, "..") /\ Slots(s, s.inodes[d])[1] = Entry("..", Lookup(s, d, ".."))
<1>1. PICK slots : slots = Slots(s, s.inodes[d])
  OBVIOUS
<1>2. d \in Dirs(s, X) /\ DirSlots(s, X)[d] = slots
  BY <1>1 DEF Dirs, DirSlots
<1>3. PICK u \in X : slots[0] = Entry(".", d) /\ slots[1] = Entry("..", u)
  BY <1>2 DEF Tree, TreeShape
<1>4. \A p \in FilePlaces : p >= 2 => slots[p] = Zero \/ \E n \in Names, j \in X : slots[p] = Entry(n, j)
  BY <1>2 DEF Tree, TreeShape
<1>5. 0 \in FilePlaces /\ 1 \in FilePlaces /\ \A p \in FilePlaces : p >= 2 \/ p = 0 \/ p = 1
  BY FirstPlaces
<1>6. /\ \A i, j : Entry(".", i) # Entry("..", j)
      /\ \A n \in Names : \A i, j : Entry(n, i) # Entry(".", j) /\ Entry(n, i) # Entry("..", j)
      /\ \A n, i : Entry(n, i) # Zero
  BY NameFacts, CellFacts
<1>7. \A p \in FilePlaces : \A j : slots[p] = Entry(".", j) => p = 0
  <2>1. ASSUME NEW p \in FilePlaces, NEW j, slots[p] = Entry(".", j), p >= 2  PROVE FALSE
    BY <1>4, <1>6, <2>1
  <2>2. slots[1] # slots[0] /\ \A j : slots[1] # Entry(".", j)
    BY <1>3, <1>6
  <2>. QED  BY <1>5, <2>1, <2>2
<1>8. \A p \in FilePlaces : \A j : slots[p] = Entry("..", j) => p = 1
  <2>1. ASSUME NEW p \in FilePlaces, NEW j, slots[p] = Entry("..", j), p >= 2  PROVE FALSE
    BY <1>4, <1>6, <2>1
  <2>2. \A j : slots[0] # Entry("..", j)
    BY <1>3, <1>6
  <2>. QED  BY <1>5, <2>1, <2>2
<1>9. ASSUME NEW n, NEW p \in FilePlaces, NEW v \in X, slots[p] = Entry(n, v),
             \A q \in FilePlaces : \A j : slots[q] = Entry(n, j) => q = p
      PROVE  Exists(s, d, n) /\ slots[p] = Entry(n, Lookup(s, d, n))
  <2>1. /\ Exists(s, d, n) => /\ Min(Holding(s, d, n)) \in FilePlaces
                              /\ slots[Min(Holding(s, d, n))] = Entry(n, Lookup(s, d, n))
        /\ ~Exists(s, d, n) => \A q \in FilePlaces, j \in X : slots[q] # Entry(n, j)
    BY <1>1, LookupFacts
  <2>2. Exists(s, d, n)
    BY <1>9, <2>1
  <2>3. Min(Holding(s, d, n)) = p
    BY <1>9, <2>1, <2>2
  <2>. QED  BY <2>1, <2>2, <2>3
<1>10. Exists(s, d, ".") /\ slots[0] = Entry(".", Lookup(s, d, "."))
  BY <1>3, <1>5, <1>7, <1>9
<1>11. Exists(s, d, "..") /\ slots[1] = Entry("..", Lookup(s, d, ".."))
  BY <1>3, <1>5, <1>8, <1>9
<1>12. Lookup(s, d, ".") = d
  BY <1>3, <1>10, CellFacts
<1>. QED  BY <1>1, <1>10, <1>11, <1>12

\* Every inode but the root has one entry.
LEMMA OneEdge ==
    ASSUME NEW s, NEW X, NEW r, Sound(s, X), Tree(s, X, r), NEW i \in X, i # ROOT_INODE
    PROVE  \E d, p : /\ d \in X /\ IsDir(s, d) /\ p \in Named(s, d) /\ KidAt(s, d, p) = i
                     /\ \A e \in X : \A q \in Named(s, e) :
                           IsDir(s, e) /\ KidAt(s, e, q) = i => e = d /\ q = p
<1>1. \A d \in X : IsDir(s, d) => d \in Dirs(s, X) /\ DirSlots(s, X)[d] = Slots(s, s.inodes[d])
  BY DEF Dirs, DirSlots
<1>2. PICK d \in Dirs(s, X), p \in FilePlaces, n \in Names : DirSlots(s, X)[d][p] = Entry(n, i)
  BY DEF Tree, TreeShape
<1>3. d \in X /\ IsDir(s, d)
  BY DEF Dirs
<1>4. p \in Named(s, d) /\ KidAt(s, d, p) = i
  <2>1. PICK slots : slots = Slots(s, s.inodes[d]) /\ slots[p] = Entry(n, i)
    BY <1>1, <1>2, <1>3
  <2>. QED  BY <1>3, <2>1, NamedFacts
<1>5. ASSUME NEW e \in X, NEW q \in Named(s, e), IsDir(s, e), KidAt(s, e, q) = i
      PROVE  e = d /\ q = p
  <2>1. PICK slots : slots = Slots(s, s.inodes[e])
    OBVIOUS
  <2>2. q \in FilePlaces /\ \E m \in Names : slots[q] = Entry(m, i)
    BY <1>5, <2>1, NamedFacts
  <2>3. PICK m \in Names : DirSlots(s, X)[e][q] = Entry(m, i)
    BY <1>1, <1>5, <2>1, <2>2
  <2>4. e \in Dirs(s, X)
    BY <1>1, <1>5
  <2>. QED  BY <1>2, <2>2, <2>3, <2>4 DEF Tree, TreeShape
<1>. QED  BY <1>3, <1>4, <1>5

LEMMA InvTree ==
    ASSUME Inv
    PROVE  TreeSound
<1>. DEFINE live == Linked
            Children(d) == {p \in Used(State, d) : CellAt(State, inodes[d], p)[2] \in Names}
            Edges == UNION {{<<d, p>> : p \in Children(d)} : d \in {e \in live : IsDir(State, e)}}
            Child(e) == CellAt(State, inodes[e[1]], e[2])[3]
<1>1. SUFFICES ASSUME NoHarm
      PROVE  /\ \A i \in live : i \in fs.inode_bitmap /\ inodes[i].type # "free"
             /\ \A d \in live : IsDir(State, d) => Places(State, d) = 0..(inodes[d].size - 1)
             /\ \A i \in live \ {ROOT_INODE} : Cardinality({e \in Edges : Child(e) = i}) = 1
             /\ \A e \in Edges : IsDir(State, Child(e)) =>
                   /\ Exists(State, Child(e), ".") /\ Lookup(State, Child(e), ".") = Child(e)
                   /\ Exists(State, Child(e), "..") /\ Lookup(State, Child(e), "..") = e[1]
  BY DEF TreeSound
<1>2. PICK s, X : s = State /\ X = Linked
  OBVIOUS
<1>3. PICK r : Sound(s, X) /\ Tree(s, X, r)
  BY <1>1, <1>2, InvNow DEF Sane
<1>4. s.inodes = inodes /\ s.fs = fs
  BY <1>2 DEF State
<1>5. \A d : Children(d) = Named(s, d)
  BY <1>2, <1>4 DEF Named
<1>6. \A e : e \in Edges <=> \E d \in X : \E p \in Named(s, d) : IsDir(s, d) /\ e = <<d, p>>
  BY <1>2, <1>5
<1>7. \A d, p : Child(<<d, p>>) = KidAt(s, d, p)
  BY <1>2, <1>4 DEF KidAt
<1>. HIDE DEF Children, Edges, Child
<1>8. ASSUME NEW i \in live  PROVE i \in fs.inode_bitmap /\ inodes[i].type # "free"
  BY <1>2, <1>3, <1>4 DEF Sound, InodeOK
<1>9. ASSUME NEW d \in live, IsDir(State, d)  PROVE Places(State, d) = 0..(inodes[d].size - 1)
  <2>1. d \in X /\ IsDir(s, d)
    BY <1>2, <1>9
  <2>2. s \in Stores /\ d \in Inodes /\ DirShape(s, s.inodes[d])
    BY <1>3, <2>1, SoundDir
  <2>3. Places(s, d) = 0..(s.inodes[d].size - 1)
    BY <2>2, DirView
  <2>. QED  BY <1>2, <1>4, <2>3
<1>10. ASSUME NEW i \in live, i # ROOT_INODE  PROVE Cardinality({e \in Edges : Child(e) = i}) = 1
  <2>1. i \in X
    BY <1>2
  <2>2. PICK d, p : /\ d \in X /\ IsDir(s, d) /\ p \in Named(s, d) /\ KidAt(s, d, p) = i
                    /\ \A e \in X : \A q \in Named(s, e) :
                          IsDir(s, e) /\ KidAt(s, e, q) = i => e = d /\ q = p
    BY <1>3, <1>10, <2>1, OneEdge
  <2>3. <<d, p>> \in Edges /\ Child(<<d, p>>) = i
    BY <1>6, <1>7, <2>2
  <2>4. ASSUME NEW e \in Edges, Child(e) = i  PROVE e = <<d, p>>
    <3>1. PICK c, q : c \in X /\ q \in Named(s, c) /\ IsDir(s, c) /\ e = <<c, q>>
      BY <1>6
    <3>2. KidAt(s, c, q) = i
      BY <1>7, <2>4, <3>1
    <3>. QED  BY <2>2, <3>1, <3>2
  <2>5. {e \in Edges : Child(e) = i} = {<<d, p>>}
    BY <2>3, <2>4
  <2>6. Cardinality({<<d, p>>}) = 1
    BY FS_Singleton
  <2>. QED  BY <2>5, <2>6
<1>11. ASSUME NEW e \in Edges, IsDir(State, Child(e))
       PROVE  /\ Exists(State, Child(e), ".") /\ Lookup(State, Child(e), ".") = Child(e)
              /\ Exists(State, Child(e), "..") /\ Lookup(State, Child(e), "..") = e[1]
  <2>1. PICK d, p : d \in X /\ p \in Named(s, d) /\ IsDir(s, d) /\ e = <<d, p>>
    BY <1>6
  <2>2. PICK j : j = Child(e) /\ j = KidAt(s, d, p)
    BY <1>7, <2>1
  <2>3. PICK slots : slots = Slots(s, s.inodes[d])
    OBVIOUS
  <2>4. p \in FilePlaces /\ j \in X /\ \E n \in Names : slots[p] = Entry(n, j)
    <3>1. d \in X /\ p \in Named(s, d) /\ IsDir(s, d)
      BY <2>1
    <3>2. \A q \in Named(s, d) : /\ q \in FilePlaces /\ KidAt(s, d, q) \in X
                                 /\ \E n \in Names : slots[q] = Entry(n, KidAt(s, d, q))
      BY <1>3, <2>3, <3>1, NamedFacts
    <3>. QED  BY <2>2, <3>1, <3>2
  <2>5. IsDir(s, j)
    BY <1>2, <1>11, <2>2
  <2>6. /\ Exists(s, j, ".") /\ Lookup(s, j, ".") = j
        /\ Exists(s, j, "..") /\ Slots(s, s.inodes[j])[1] = Entry("..", Lookup(s, j, ".."))
    BY <1>3, <2>4, <2>5, DotLookup
  <2>7. \A c \in X : IsDir(s, c) => c \in Dirs(s, X) /\ DirSlots(s, X)[c] = Slots(s, s.inodes[c])
    BY DEF Dirs, DirSlots
  <2>8. PICK n \in Names : DirSlots(s, X)[d][p] = Entry(n, j)
    BY <2>1, <2>3, <2>4, <2>7
  <2>9. d \in Dirs(s, X) /\ j \in Dirs(s, X)
    BY <2>1, <2>4, <2>5, <2>7
  <2>10. DirSlots(s, X)[j][1] = Entry("..", d)
    BY <1>3, <2>4, <2>8, <2>9 DEF Tree, TreeShape
  <2>11. Entry("..", d) = Entry("..", Lookup(s, j, ".."))
    BY <2>4, <2>5, <2>6, <2>7, <2>10
  <2>12. Lookup(s, j, "..") = d
    BY <2>11, CellFacts
  <2>. QED  BY <1>2, <2>1, <2>2, <2>6, <2>12
<1>. QED  BY <1>8, <1>9, <1>10, <1>11

\* Until harm is done the entries of the directories form a tree over inodes in use: every
\* inode but the root has one entry, itself as "." and its parent as "..", and a search
\* sees all of a directory, through creation, removal, the rollbacks and a reboot.  A
\* write through the descriptor of a directory, which write accepts, is such harm.
THEOREM TreeStays == Spec => []TreeSound
<1>1. Inv => TreeSound
  BY InvTree
<1>. QED  BY <1>1, Invariant, PTL

\* truncate can only do harm by a cut within the range of the indirect block: a cut to no
\* more than the direct blocks frees no block that an inode still has.
CutHarmless ==
    \A i \in Linked, size \in Sizes, shell \in BOOLEAN :
        CutFile(i, size, shell) /\ size <= DIRECT_PTRS * SLOTS => NoHarm'
LEMMA DirectCut ==
    ASSUME Inv, NEW i \in Linked, NEW size \in Sizes, NEW shell \in BOOLEAN,
           CutFile(i, size, shell), size <= DIRECT_PTRS * SLOTS
    PROVE  NoHarm'
<1>1. NoHarm /\ inodes[i].type = "file"
  BY DEF CutFile, MayGoOn
<1>2. PICK s, X, r, t : s = State /\ X = Linked /\ r = Truncate(State, i, size) /\ t = r.s
  OBVIOUS
<1>3. harm' = IF FreeInUse(t, t.fs.bitmap) THEN "truncate" ELSE "none"
  BY <1>2 DEF CutFile, HasCut
<1>4. Sane(s, X)
  BY <1>1, <1>2, InvNow
<1>5. Sound(s, X) /\ i \in X /\ s.inodes = inodes
  BY <1>2, <1>4 DEF Sane, State
<1>6. size \in 0..(Limit * SLOTS) /\ s.inodes[i].type = "file" /\ r = Truncate(s, i, size)
  BY <1>1, <1>2, <1>5, NextFSAssumption
<1>7. CutDone(s, X, i, size, r)
  BY <1>5, <1>6, TruncateFacts
<1>8. LastBlock(size) < DIRECT_PTRS
  <2>2. DIRECT_PTRS * SLOTS \in Nat /\ size \in Nat /\ DIRECT_PTRS \in Nat
    BY <1>6, Constants
  <2>1. LastBlock(size) \in Nat /\ (LastBlock(size) >= DIRECT_PTRS => size > DIRECT_PTRS * SLOTS)
    BY <2>2, LastBlockFacts
  <2>. QED  BY <2>1, <2>2
<1>9. FileStep(s, X, i, t)
  BY <1>2, <1>7, <1>8 DEF CutDone
<1>10. Sane(t, X)
  BY <1>4, <1>5, <1>6, <1>9, FileStepSane
<1>11. LinkedIn(t) = X /\ Sound(t, X)
  <2>1. PICK q : Sound(t, X) /\ Tree(t, X, q)
    BY <1>10 DEF Sane
  <2>. QED  BY <2>1, TreeLinked
<1>12. ~FreeInUse(t, t.fs.bitmap)
  <2>1. \A j \in X : BlocksOf(t, t.inodes[j]) \cap t.fs.bitmap = {}
    BY <1>11 DEF Sound, InodeOK
  <2>. QED  BY <1>11, <2>1 DEF FreeInUse, Owned
<1>. QED  BY <1>3, <1>12 DEF NoHarm

\* Every cut of a file to its direct blocks or less leaves the allocator and the inodes in
\* agreement: what TruncateFreesUnused says fails only within the indirect range.
THEOREM CutsHarmless == Spec => [][CutHarmless]_vars
<1>1. Inv /\ [Next]_vars => [CutHarmless]_vars
  BY DirectCut DEF CutHarmless
<1>. QED  BY <1>1, Invariant, PTL DEF Spec
=============================================================================
