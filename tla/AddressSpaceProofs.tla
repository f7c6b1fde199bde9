------------------------- MODULE AddressSpaceProofs -------------------------
(***************************************************************************)
(* Proofs about AddressSpace for any number of tasks, spaces, heap pages    *)
(* and frames: copy-on-write is sound, and the spaces implement memories of *)
(* their own (PrivateMemory).                                               *)
(***************************************************************************)
EXTENDS AddressSpace, WellFoundedInduction, FiniteSetTheorems, TLAPS

\* A set of natural numbers with a bound and a member has its Max as a member.
LEMMA MaxIsMember ==
    ASSUME NEW n \in Nat, NEW S \in SUBSET (0..n), S # {}
    PROVE  Max(S) \in S /\ \A k \in S : k <= Max(S)
<1>. DEFINE R == {n - k : k \in S}
<1>1. R \subseteq Nat /\ R # {}
  OBVIOUS
<1>2. \E m \in R : \A k \in R : ~ (<<k, m>> \in OpToRel(<, Nat))
  BY <1>1, NatLessThanWellFounded, WFMin
<1>3. \A m, k \in R : ~ (<<k, m>> \in OpToRel(<, Nat)) => m <= k
  BY <1>1 DEF OpToRel
<1>4. PICK m \in R : \A k \in R : m <= k
  BY <1>2, <1>3
<1>5. PICK x \in S : m = n - x
  OBVIOUS
<1>6. \A k \in S : x >= k
  BY <1>4, <1>5
<1>7. \E z \in S : \A y \in S : z >= y
  BY <1>6
<1>. QED
  BY <1>7 DEF Max

-----------------------------------------------------------------------------
(* The pages and the image of a new program *)

\* The text, the heap and the stack are different pages, and the image is two.
LEMMA PagesDiffer ==
    /\ Text \in Pages /\ Stack \in Pages /\ Heap \subseteq Pages
    /\ Text # Stack /\ Text \notin Heap /\ Stack \notin Heap
    /\ Pages = {Text, Stack} \cup Heap
    /\ Cardinality(Image) = 2 /\ Cardinality(Image \ {Stack}) = 1
    /\ Pages \subseteq Nat
<1>1. /\ Text \in Pages /\ Stack \in Pages /\ Heap \subseteq Pages
      /\ Text # Stack /\ Text \notin Heap /\ Stack \notin Heap
      /\ Pages = {Text, Stack} \cup Heap /\ Pages \subseteq Nat
  BY AddressSpaceAssumption DEF Text, Stack, Heap, Pages
<1>2. Cardinality({Text}) = 1 /\ IsFiniteSet({Text})
  BY FS_Singleton
<1>3. Cardinality({Text} \cup {Stack}) = 2
  BY <1>1, <1>2, FS_AddElement
<1>4. Image = {Text} \cup {Stack} /\ Image \ {Stack} = {Text}
  BY <1>1 DEF Image
<1>. QED
  BY <1>1, <1>2, <1>3, <1>4

\* The frames of a new image are the second and the third that the loader takes.
LEMMA ImageFrames ==
    ASSUME frames \in Nat
    PROVE  ImageFrame(Text) = frames + 2 /\ ImageFrame(Stack) = frames + 3
<1>1. {q \in Image : q <= Text} = {Text} /\ {q \in Image : q <= Stack} = Image
  BY AddressSpaceAssumption DEF Image, Text, Stack
<1>2. Cardinality({Text}) = 1
  BY FS_Singleton
<1>. QED
  BY <1>1, <1>2, PagesDiffer DEF ImageFrame

\* The table of a new image: two fresh frames, the text not writable.
LEMMA ImageTableIs ==
    ASSUME frames \in Nat, frames + 3 <= FRAMES
    PROVE  /\ ImageTable \in [Pages -> Entries]
           /\ ImageTable[Text] = [frame |-> frames + 2, writable |-> FALSE, cow |-> FALSE]
           /\ ImageTable[Stack] = [frame |-> frames + 3, writable |-> TRUE, cow |-> FALSE]
           /\ \A p \in Pages : p \notin {Text, Stack} => ImageTable[p] = NoEntry
<1>1. ImageTable = [p \in Pages |->
          IF p = Text THEN [frame |-> frames + 2, writable |-> FALSE, cow |-> FALSE]
          ELSE IF p = Stack THEN [frame |-> frames + 3, writable |-> TRUE, cow |-> FALSE]
          ELSE NoEntry]
  BY ImageFrames, PagesDiffer DEF ImageTable, Image, NewTable
<1>2. /\ [frame |-> frames + 2, writable |-> FALSE, cow |-> FALSE] \in Entries
      /\ [frame |-> frames + 3, writable |-> TRUE, cow |-> FALSE] \in Entries
      /\ NoEntry \in Entries
  BY AddressSpaceAssumption DEF Entries, NoEntry
<1>. QED
  BY <1>1, <1>2, PagesDiffer

-----------------------------------------------------------------------------
(* mmap *)

\* map_user_region maps the pages it finds free, each with a frame of its own.
LEMMA MappedIs ==
    ASSUME TypeOK, NEW t \in Tasks, cr3[t] \in Spaces, NEW n \in Heap,
           mmapNext[t] + n <= HEAP + 1
    PROVE  /\ Mapped(t, n) \in 0..n /\ Mapped(t, n) <= Left
           /\ Window(t, Mapped(t, n)) \subseteq Heap
           /\ \A p \in Window(t, Mapped(t, n)) : pt[cr3[t]][p] = NoEntry
           /\ Taken(t, n) \in Nat /\ Mapped(t, n) <= Taken(t, n) /\ Taken(t, n) <= Left
<1>. DEFINE S == {j \in 0..n : Mappable(t, j)}
<1>1. /\ n \in Nat /\ n > 0 /\ mmapNext[t] \in Nat /\ mmapNext[t] >= 1
      /\ frames \in Nat /\ frames <= FRAMES /\ FRAMES \in Nat /\ Left \in Nat
      /\ HEAP \in Nat
  BY AddressSpaceAssumption DEF TypeOK, Heap, Left
<1>2. 0 \in S
  <2>1. Window(t, 0) = {}
    BY <1>1 DEF Window
  <2>. QED  BY <1>1, <2>1 DEF Mappable
<1>3. Max(S) \in S
  BY <1>1, <1>2, MaxIsMember
<1>4. Mapped(t, n) \in 0..n /\ Mappable(t, Mapped(t, n))
  BY <1>3 DEF Mapped
<1>5. Window(t, Mapped(t, n)) \subseteq Heap
  BY <1>1, <1>4 DEF Window, Heap
<1>. QED
  BY <1>1, <1>4, <1>5 DEF Mappable, Taken

-----------------------------------------------------------------------------
(* Page tables *)

\* A space whose entries are kept, cleared or moved to frames that are handed out
\* in the same step shares no writable frame with another.
LEMMA RemapKeeps ==
    ASSUME MemoryInv, NEW s0 \in Spaces, NEW T \in [Pages -> Entries],
           pt' = [pt EXCEPT ![s0] = T], frames' \in Nat, frames <= frames',
           \A p \in Pages : \/ T[p] = pt[s0][p]
                            \/ T[p] = NoEntry
                            \/ T[p].frame \in (frames + 1)..frames',
           \A p, q \in Pages : T[p].frame = T[q].frame /\ T[p].frame > frames => p = q,
           \A p \in Pages : T[p].frame = 0 => T[p] = NoEntry,
           ~T[Text].writable /\ ~T[Text].cow
    PROVE  EntriesInv' /\ NoWritableSharing'
<1>1. /\ pt \in [Spaces -> [Pages -> Entries]] /\ pt' \in [Spaces -> [Pages -> Entries]]
      /\ frames \in Nat /\ pt'[s0] = T /\ NoEntry.frame = 0
      /\ \A s \in Spaces : s # s0 => pt'[s] = pt[s]
  BY DEF MemoryInv, TypeOK, NoEntry
<1>2. \A s \in Spaces, p \in Pages : pt[s][p].frame \in Nat /\ pt'[s][p].frame \in Nat
  BY <1>1, AddressSpaceAssumption DEF Entries
<1>3. EntriesInv'
  BY <1>1 DEF EntriesInv, MemoryInv
<1>4. ASSUME NEW s \in Spaces, NEW p \in Pages, pt'[s][p].frame # 0
      PROVE  pt'[s][p].frame <= frames' /\ (pt'[s][p].frame <= frames => pt'[s][p] = pt[s][p])
  <2>1. CASE s = s0
    BY <1>1, <1>2, <1>4, <2>1 DEF MemoryInv, NoWritableSharing
  <2>2. CASE s # s0
    BY <1>1, <1>2, <1>4, <2>2 DEF MemoryInv, NoWritableSharing
  <2>. QED  BY <2>1, <2>2
<1>5. ASSUME NEW s \in Spaces, NEW p \in Pages, pt'[s][p].frame # 0,
             NEW u \in Spaces, NEW q \in Pages, pt'[u][q].frame = pt'[s][p].frame
      PROVE  p = q /\ (s # u => ~pt'[s][p].writable)
  <2>1. CASE pt'[s][p].frame <= frames
    BY <1>4, <1>5, <2>1 DEF MemoryInv, NoWritableSharing
  <2>2. CASE pt'[s][p].frame > frames
    <3>1. s = s0 /\ u = s0
      BY <1>1, <1>2, <1>5, <2>2 DEF MemoryInv, NoWritableSharing
    <3>. QED  BY <1>1, <1>5, <2>2, <3>1
  <2>. QED  BY <1>1, <1>2, <2>1, <2>2
<1>6. NoWritableSharing'
  BY <1>4, <1>5 DEF NoWritableSharing
<1>. QED
  BY <1>3, <1>6

\* What fork makes of an entry: the same frame, not writable.
LEMMA ShareLeafIs ==
    ASSUME NEW e \in Entries
    PROVE  /\ ShareLeaf(e) \in Entries /\ ShareLeaf(e).frame = e.frame
           /\ ~ShareLeaf(e).writable
           /\ ~e.writable => ShareLeaf(e) = e
BY DEF ShareLeaf, Entries

\* fork: parent and child share every frame the child gets, and none is writable.
LEMMA ForkKeeps ==
    ASSUME MemoryInv, NEW s0 \in Spaces, NEW c \in Spaces, c > made, s0 <= made,
           NEW P \in SUBSET Pages,
           pt' = [pt EXCEPT ![s0] = SharedTable(s0, Pages), ![c] = SharedTable(s0, P)],
           frames' \in Nat, frames <= frames'
    PROVE  /\ pt' \in [Spaces -> [Pages -> Entries]]
           /\ EntriesInv' /\ NoWritableSharing'
<1>1. /\ pt \in [Spaces -> [Pages -> Entries]] /\ frames \in Nat /\ s0 # c
      /\ NoEntry \in Entries /\ NoEntry.frame = 0 /\ ~NoEntry.writable /\ ~NoEntry.cow
  BY AddressSpaceAssumption DEF MemoryInv, TypeOK, NoEntry, Entries, Spaces
<1>2. \A p \in Pages : /\ ShareLeaf(pt[s0][p]) \in Entries
                       /\ ShareLeaf(pt[s0][p]).frame = pt[s0][p].frame
                       /\ ~ShareLeaf(pt[s0][p]).writable
                       /\ ~pt[s0][p].writable => ShareLeaf(pt[s0][p]) = pt[s0][p]
  BY <1>1, ShareLeafIs
<1>3. /\ SharedTable(s0, Pages) \in [Pages -> Entries]
      /\ SharedTable(s0, P) \in [Pages -> Entries]
      /\ \A p \in Pages : /\ SharedTable(s0, Pages)[p] = ShareLeaf(pt[s0][p])
                          /\ \/ SharedTable(s0, P)[p] = ShareLeaf(pt[s0][p])
                             \/ SharedTable(s0, P)[p] = NoEntry
  BY <1>1, <1>2 DEF SharedTable
<1>4. /\ pt' \in [Spaces -> [Pages -> Entries]]
      /\ pt'[s0] = SharedTable(s0, Pages) /\ pt'[c] = SharedTable(s0, P)
      /\ \A s \in Spaces : s \notin {s0, c} => pt'[s] = pt[s]
  BY <1>1, <1>3
<1>5. \A s \in Spaces, p \in Pages : pt[s][p].frame \in Nat /\ pt'[s][p].frame \in Nat
  BY <1>1, <1>4, AddressSpaceAssumption DEF Entries
<1>6. EntriesInv'
  <2>. SUFFICES ASSUME NEW s \in Spaces, NEW p \in Pages
                PROVE  /\ pt'[s][p].frame = 0 => pt'[s][p] = NoEntry
                       /\ p = Text => ~pt'[s][p].writable /\ ~pt'[s][p].cow
    BY DEF EntriesInv
  <2>1. /\ pt[s][p].frame = 0 => pt[s][p] = NoEntry
        /\ pt[s0][p].frame = 0 => pt[s0][p] = NoEntry
        /\ p = Text => ~pt[s][p].writable /\ ~pt[s][p].cow
        /\ p = Text => ~pt[s0][p].writable /\ ~pt[s0][p].cow
    BY DEF MemoryInv, EntriesInv
  <2>. QED  BY <1>1, <1>2, <1>3, <1>4, <2>1
\* Every entry has the frame of an old entry at the same page, and is writable
\* only if it is that entry.
<1>7. ASSUME NEW s \in Spaces, NEW p \in Pages, pt'[s][p].frame # 0
      PROVE  /\ \E r \in Spaces : /\ pt'[s][p].frame = pt[r][p].frame
                                  /\ pt'[s][p].writable => s = r /\ pt[r][p].writable /\ s \notin {s0, c}
  BY <1>1, <1>2, <1>3, <1>4, <1>7
<1>8. ASSUME NEW s \in Spaces, NEW p \in Pages, pt'[s][p].frame # 0
      PROVE  pt'[s][p].frame <= frames'
  BY <1>1, <1>5, <1>7, <1>8 DEF MemoryInv, NoWritableSharing
<1>9. ASSUME NEW s \in Spaces, NEW p \in Pages, pt'[s][p].frame # 0,
             NEW u \in Spaces, NEW q \in Pages, pt'[u][q].frame = pt'[s][p].frame
      PROVE  p = q /\ (s # u => ~pt'[s][p].writable)
  <2>1. PICK r \in Spaces : /\ pt'[s][p].frame = pt[r][p].frame
                            /\ pt'[s][p].writable => s = r /\ pt[r][p].writable /\ s \notin {s0, c}
    BY <1>7, <1>9
  <2>2. p = q
    <3>1. PICK v \in Spaces : pt'[u][q].frame = pt[v][q].frame
      BY <1>7, <1>9
    <3>. QED  BY <1>9, <2>1, <3>1 DEF MemoryInv, NoWritableSharing
  <2>3. ASSUME s # u, pt'[s][p].writable PROVE FALSE
    <3>1. s = r /\ pt[s][p].writable /\ s \notin {s0, c} /\ pt[s][p].frame # 0
      BY <1>9, <2>1, <2>3
    <3>2. CASE u \in {s0, c}
      <4>1. pt[s0][p].frame = pt[s][p].frame
        BY <1>1, <1>2, <1>3, <1>4, <1>9, <2>1, <2>2, <3>1, <3>2
      <4>. QED  BY <3>1, <4>1 DEF MemoryInv, NoWritableSharing
    <3>3. CASE u \notin {s0, c}
      BY <1>4, <1>9, <2>1, <2>2, <2>3, <3>1, <3>3 DEF MemoryInv, NoWritableSharing
    <3>. QED  BY <3>2, <3>3
  <2>. QED  BY <2>2, <2>3
<1>10. NoWritableSharing'
  BY <1>8, <1>9 DEF NoWritableSharing
<1>. QED
  BY <1>4, <1>6, <1>10

-----------------------------------------------------------------------------
(* The inductive invariant *)

LEMMA MemoryInit == Init => MemoryInv
<1>. SUFFICES ASSUME Init PROVE MemoryInv
  OBVIOUS
<1>1. NoEntry \in Entries /\ NoEntry.frame = 0 /\ ~NoEntry.writable /\ ~NoEntry.cow
  BY AddressSpaceAssumption DEF NoEntry, Entries
<1>2. \A s \in Spaces, p \in Pages : pt[s][p] = NoEntry
  BY DEF Init
<1>3. TypeOK
  BY <1>1, AddressSpaceAssumption DEF Init, TypeOK
<1>4. SpacesInv
  BY AddressSpaceAssumption DEF Init, SpacesInv, NewTable
<1>. QED
  BY <1>1, <1>2, <1>3, <1>4 DEF MemoryInv, EntriesInv, NoWritableSharing

\* A step that leaves the page tables alone, and may only hand out frames.
LEMMA TablesUntouched ==
    ASSUME MemoryInv, UNCHANGED pt, frames' \in Nat, frames <= frames'
    PROVE  EntriesInv' /\ NoWritableSharing'
<1>1. \A s \in Spaces, p \in Pages : pt[s][p].frame \in Nat /\ frames \in Nat
  BY AddressSpaceAssumption DEF MemoryInv, TypeOK, Entries
<1>2. EntriesInv'
  BY DEF MemoryInv, EntriesInv
<1>3. NoWritableSharing'
  BY <1>1 DEF MemoryInv, NoWritableSharing
<1>. QED
  BY <1>2, <1>3

\* The loader up to the moment the new space is stored, and its failures.
LEMMA LoadKeeps ==
    ASSUME MemoryInv, NEW t \in Tasks \cup {Loader},
           \/ LoadStart(t) \/ LoadRejected(t) \/ LoadLock(t) \/ LoadPanic(t)
           \/ LoadFail(t) \/ RelocateFail(t) \/ StackRefused(t)
    PROVE  MemoryInv'
<1>. USE DEF MemoryInv
<1>1. CASE LoadStart(t) \/ LoadRejected(t) \/ LoadLock(t) \/ LoadPanic(t)
  <2>0. UNCHANGED <<frames, content, pt, upper, made, cr3, home, mmapNext>>
    BY <1>1 DEF LoadStart, LoadRejected, LoadLock, LoadPanic, Panic, allocVars, taskVars
  <2>1. TypeOK'
    BY <1>1, <2>0 DEF TypeOK, LoadStart, LoadRejected, LoadLock, LoadPanic, Panic, allocVars,
                      taskVars, Goto, LoadReturn
  <2>2. SpacesInv'
    BY <1>1, <2>0 DEF TypeOK, SpacesInv, LoadStart, LoadRejected, LoadLock, LoadPanic, Panic,
                      allocVars, taskVars, Goto, LoadReturn, NewTable
  <2>. QED  BY <2>0, <2>1, <2>2, TablesUntouched DEF TypeOK
<1>2. CASE LoadFail(t) \/ RelocateFail(t) \/ StackRefused(t)
  <2>1. PICK k \in 0..2 : LoadError(t, k)
    BY <1>2, PagesDiffer DEF LoadFail, RelocateFail, StackRefused
  <2>2. frames' \in 0..FRAMES /\ frames <= frames' /\ frames' \in Nat
    <3>1. frames' = frames + 1 + k /\ FRAMES - frames > k
      BY <2>1 DEF LoadError, Left
    <3>2. frames \in 0..FRAMES /\ FRAMES \in Nat
      BY AddressSpaceAssumption DEF TypeOK
    <3>. QED  BY <3>1, <3>2
  <2>3. TypeOK'
    BY <2>1, <2>2 DEF TypeOK, LoadError, LoadReturn, Goto
  <2>4. SpacesInv'
    BY <2>1 DEF TypeOK, SpacesInv, LoadError, LoadReturn, Goto, NewTable, Mapping
  <2>. QED  BY <2>1, <2>2, <2>3, <2>4, TablesUntouched DEF LoadError
<1>. QED
  BY <1>1, <1>2

\* The new space is stored.
LEMMA LoadMapKeeps ==
    ASSUME MemoryInv, NEW t \in Tasks \cup {Loader}, LoadMap(t)
    PROVE  MemoryInv'
<1>. USE DEF MemoryInv
<1>. DEFINE s0 == made + 1
<1>1. /\ frames \in Nat /\ frames' = frames + 3 /\ frames' <= FRAMES /\ FRAMES \in Nat
      /\ made \in Nat /\ s0 \in Spaces /\ made' = s0
      /\ pt' = [pt EXCEPT ![s0] = ImageTable]
  BY PagesDiffer, AddressSpaceAssumption DEF LoadMap, Left, TypeOK, Spaces
<1>2. /\ ImageTable \in [Pages -> Entries]
      /\ ImageTable[Text] = [frame |-> frames + 2, writable |-> FALSE, cow |-> FALSE]
      /\ ImageTable[Stack] = [frame |-> frames + 3, writable |-> TRUE, cow |-> FALSE]
      /\ \A p \in Pages : p \notin {Text, Stack} => ImageTable[p] = NoEntry
  BY <1>1, ImageTableIs
<1>3. EntriesInv' /\ NoWritableSharing'
  <2>. DEFINE T == ImageTable
  <2>1. /\ T[Text].frame = frames + 2 /\ T[Stack].frame = frames + 3
        /\ ~T[Text].writable /\ ~T[Text].cow /\ NoEntry.frame = 0
    BY <1>2 DEF NoEntry
  <2>2. \A p \in Pages : T[p] = NoEntry \/ T[p].frame \in (frames + 1)..frames'
    BY <1>1, <1>2, <2>1
  <2>3. \A p, q \in Pages : T[p].frame = T[q].frame /\ T[p].frame > frames => p = q
    BY <1>1, <1>2, <2>1
  <2>4. \A p \in Pages : T[p].frame = 0 => T[p] = NoEntry
    BY <1>1, <1>2, <2>1
  <2>5. T \in [Pages -> Entries]
    BY <1>2
  <2>. HIDE DEF T
  <2>6. pt' = [pt EXCEPT ![s0] = T]
    BY <1>1 DEF T
  <2>7. frames' \in Nat /\ frames <= frames' /\ s0 \in Spaces
    BY <1>1
  <2>. HIDE DEF s0
  <2>. QED  BY <2>1, <2>2, <2>3, <2>4, <2>5, <2>6, <2>7, RemapKeeps
<1>4. content' \in [1..FRAMES -> Values \cup {Zero, Code, Junk, Args}]
  BY DEF TypeOK, LoadMap, ImageContent
<1>5. /\ pc[t] = "mapping" /\ pc' = [pc EXCEPT ![t] = "loaded"]
      /\ UNCHANGED <<machine, cr3, mmapNext>> /\ lock' = Nobody
  BY DEF LoadMap, Goto, Mapping
<1>6. TypeOK'
  BY <1>1, <1>2, <1>4, <1>5 DEF TypeOK, LoadMap, Regions, Spaces
<1>7. SpacesInv'
  BY <1>1, <1>5 DEF TypeOK, SpacesInv, Spaces, NewTable
<1>. QED
  BY <1>3, <1>6, <1>7

\* exec and spawn switch to the last space; exits and faults that are not resolved.
LEMMA SwitchKeeps ==
    ASSUME MemoryInv, NEW t \in Tasks, NEW p \in Pages,
           \/ ExecSwitch(t) \/ Spawn(t) \/ SpinOnMemory(t) \/ ForkPanic(t)
           \/ SegFault(t, p) \/ KernelFault(t, p) \/ Exit(t)
    PROVE  MemoryInv'
<1>. USE DEF MemoryInv
<1>0. UNCHANGED <<frames, content, pt, upper, made>>
  BY DEF ExecSwitch, Spawn, SpinOnMemory, ForkPanic, SegFault, KernelFault, Exit, Panic,
         allocVars, taskVars
<1>1. made \in Nat /\ t # Loader
  BY AddressSpaceAssumption DEF TypeOK
<1>2. CASE ExecSwitch(t)
  <2>1. TypeOK'
    BY <1>0, <1>1, <1>2 DEF TypeOK, ExecSwitch, Goto
  <2>2. SpacesInv'
    BY <1>0, <1>1, <1>2 DEF TypeOK, ExecSwitch, Goto, SpacesInv, NewTable
  <2>. QED  BY <1>0, <2>1, <2>2, TablesUntouched, SMTT(60) DEF TypeOK
<1>3. CASE Spawn(t)
  <2>1. TypeOK'
    <3>1. /\ pc' = [pc EXCEPT ![t] = "user", ![Loader] = "idle"]
          /\ cr3' = [cr3 EXCEPT ![t] = made] /\ home' = [home EXCEPT ![t] = home[Loader]]
          /\ mmapNext' = [mmapNext EXCEPT ![t] = 1] /\ UNCHANGED <<machine, lock>>
      BY <1>3 DEF Spawn
    <3>2. pc' \in [Tasks \cup {Loader} -> {"unborn", "idle", "user", "read", "mapping", "loaded", "dead"}]
      BY <3>1 DEF TypeOK
    <3>3. cr3' \in [Tasks -> 0..MaxSpaces] /\ home' \in [Tasks \cup {Loader} -> 0..MaxSpaces]
      BY <3>1 DEF TypeOK
    <3>4. mmapNext' \in [Tasks -> 1..(HEAP + 1)]
      BY <3>1, AddressSpaceAssumption DEF TypeOK
    <3>. QED  BY <1>0, <3>1, <3>2, <3>3, <3>4 DEF TypeOK
  <2>2. SpacesInv'
    BY <1>0, <1>1, <1>3 DEF TypeOK, Spawn, SpacesInv, NewTable
  <2>. QED  BY <1>0, <2>1, <2>2, TablesUntouched, SMTT(60) DEF TypeOK
<1>4. CASE SpinOnMemory(t) \/ ForkPanic(t) \/ KernelFault(t, p)
  <2>1. TypeOK'
    BY <1>0, <1>4 DEF TypeOK, SpinOnMemory, ForkPanic, KernelFault, Panic, taskVars
  <2>2. SpacesInv'
    BY <1>0, <1>4 DEF TypeOK, SpinOnMemory, ForkPanic, KernelFault, Panic, taskVars, SpacesInv, NewTable
  <2>. QED  BY <1>0, <2>1, <2>2, TablesUntouched, SMTT(60) DEF TypeOK
<1>5. CASE SegFault(t, p) \/ Exit(t)
  <2>1. TypeOK'
    BY <1>0, <1>5 DEF TypeOK, SegFault, Exit, Goto
  <2>2. SpacesInv'
    BY <1>0, <1>1, <1>5 DEF TypeOK, SegFault, Exit, Goto, SpacesInv, NewTable, InUser
  <2>. QED  BY <1>0, <2>1, <2>2, TablesUntouched, SMTT(60) DEF TypeOK
<1>. QED
  BY <1>2, <1>3, <1>4, <1>5

\* fork
LEMMA SysForkKeeps ==
    ASSUME MemoryInv, NEW t \in Tasks, NEW c \in Tasks, SysFork(t, c)
    PROVE  MemoryInv'
<1>. USE DEF MemoryInv
<1>. DEFINE s0 == cr3[t]
            c0 == made + 1
<1>1. /\ frames \in Nat /\ frames' = frames + 1 /\ frames' \in 0..FRAMES /\ made \in Nat
      /\ c0 \in Spaces /\ made' = c0 /\ s0 \in 1..made /\ s0 \in Spaces
  BY AddressSpaceAssumption DEF SysFork, Enter, InUser, Left, TypeOK, SpacesInv, Spaces
<1>2. PICK P \in SUBSET Pages :
        pt' = [pt EXCEPT ![s0] = SharedTable(s0, Pages), ![c0] = SharedTable(s0, P)]
  BY PagesDiffer DEF SysFork, Copied
<1>3. /\ pt' \in [Spaces -> [Pages -> Entries]] /\ EntriesInv' /\ NoWritableSharing'
  <2>. HIDE DEF s0, c0
  <2>1. c0 > made /\ s0 <= made /\ frames' \in Nat /\ frames <= frames'
    BY <1>1 DEF c0
  <2>. QED  BY <1>1, <1>2, <2>1, ForkKeeps
<1>4. /\ upper' = [upper EXCEPT ![made + 1] = {}] /\ pc' = [pc EXCEPT ![c] = "user"]
      /\ cr3' = [cr3 EXCEPT ![c] = c0] /\ home' = [home EXCEPT ![c] = c0]
      /\ mmapNext' = [mmapNext EXCEPT ![c] = 1] /\ UNCHANGED <<machine, content, lock>>
  BY DEF SysFork, Goto
<1>5. c0 \in 0..MaxSpaces /\ 1 \in 1..(HEAP + 1)
  BY <1>1, AddressSpaceAssumption DEF Spaces
<1>6. TypeOK'
  BY <1>1, <1>3, <1>4, <1>5 DEF TypeOK
<1>7. \A s \in Spaces : s > made' => pt'[s] = pt[s]
  BY <1>1, <1>2 DEF TypeOK, Spaces
<1>8. SpacesInv'
  <2>1. \A u \in Tasks : pc'[u] # "unborn" => cr3'[u] \in 1..made'
    BY <1>1, <1>4, AddressSpaceAssumption, SMTT(60) DEF TypeOK, SpacesInv
  <2>2. \A s \in Spaces : s > made' => pt'[s] = NewTable
    BY <1>1, <1>7 DEF SpacesInv, Spaces
  <2>. QED  BY <1>1, <2>1, <2>2 DEF SpacesInv, NewTable
<1>. QED
  BY <1>3, <1>6, <1>8

\* A store changes what a frame holds and nothing else.
LEMMA StoreKeeps ==
    ASSUME MemoryInv, NEW t \in Tasks, NEW p \in Pages, NEW v \in Values, Store(t, p, v)
    PROVE  MemoryInv'
<1>. USE DEF MemoryInv
<1>1. TypeOK'
  BY DEF Store, TypeOK, taskVars
<1>2. SpacesInv'
  BY DEF Store, SpacesInv, taskVars, NewTable
<1>3. UNCHANGED pt /\ frames' \in Nat /\ frames <= frames'
  BY DEF Store, TypeOK
<1>. QED
  BY <1>1, <1>2, <1>3, TablesUntouched

\* A copy-on-write fault gives the page a frame of its own.
LEMMA CowFaultKeeps ==
    ASSUME MemoryInv, NEW t \in Tasks, NEW p \in Pages, NEW v \in Values, CowFault(t, p, v)
    PROVE  MemoryInv'
<1>. USE DEF MemoryInv
<1>. DEFINE s0 == cr3[t]
            e0 == pt[s0][p]
            T == [pt[s0] EXCEPT ![p] = PrivateLeaf(e0)]
<1>1. /\ frames \in Nat /\ frames' = frames + 1 /\ frames' \in 0..FRAMES /\ frames' \in Nat
      /\ s0 \in Spaces /\ pc[t] = "user" /\ made \in Nat
      /\ e0 \in Entries /\ e0.frame # 0 /\ e0.cow /\ p # Text
  <2>1. s0 \in 1..made /\ made \in 0..MaxSpaces
    BY DEF CowFault, Enter, InUser, SpacesInv, TypeOK
  <2>2. s0 \in Spaces
    BY <2>1, AddressSpaceAssumption DEF Spaces
  <2>3. e0 \in Entries /\ e0.frame # 0 /\ e0.cow
    BY <2>2 DEF CowFault, Resolvable, TypeOK
  <2>4. p # Text
    BY <2>2, <2>3 DEF EntriesInv
  <2>5. frames \in Nat /\ frames' = frames + 1 /\ frames' \in 0..FRAMES /\ pc[t] = "user"
    BY AddressSpaceAssumption DEF CowFault, Resolvable, Left, TypeOK, Enter, InUser
  <2>. QED  BY <2>1, <2>2, <2>3, <2>4, <2>5
<1>2. pt' = [pt EXCEPT ![s0] = T]
  BY <1>1 DEF CowFault, TypeOK
<1>3. /\ PrivateLeaf(e0) \in Entries /\ PrivateLeaf(e0).frame = frames + 1
  BY <1>1 DEF PrivateLeaf, Entries
<1>4. /\ T \in [Pages -> Entries] /\ T[p].frame = frames + 1
      /\ \A q \in Pages : q # p => T[q] = pt[s0][q]
  BY <1>1, <1>3 DEF TypeOK
<1>5. \A q \in Pages : q # p => T[q].frame \in Nat /\ T[q].frame <= frames
  <2>1. \A q \in Pages : pt[s0][q].frame \in Nat
    BY <1>1, AddressSpaceAssumption DEF TypeOK, Entries
  <2>. QED  BY <1>1, <1>4, <2>1 DEF NoWritableSharing
<1>6. EntriesInv' /\ NoWritableSharing'
  <2>1. /\ ~T[Text].writable /\ ~T[Text].cow
        /\ \A q \in Pages : T[q].frame = 0 => T[q] = NoEntry
    BY <1>1, <1>4, PagesDiffer DEF EntriesInv
  <2>2. /\ \A q \in Pages : T[q] = pt[s0][q] \/ T[q].frame \in (frames + 1)..frames'
        /\ \A q, r \in Pages : T[q].frame = T[r].frame /\ T[q].frame > frames => q = r
    BY <1>1, <1>4, <1>5
  <2>3. /\ frames <= frames' /\ frames' \in Nat /\ s0 \in Spaces
        /\ pt' = [pt EXCEPT ![s0] = T] /\ T \in [Pages -> Entries]
    BY <1>1, <1>2, <1>4
  <2>. HIDE DEF T, s0, e0, MemoryInv
  <2>. QED  BY <2>1, <2>2, <2>3, RemapKeeps, ZenonT(60)
<1>7. content' \in [1..FRAMES -> Values \cup {Zero, Code, Junk, Args}]
  <2>1. e0.frame \in 1..FRAMES
    BY <1>1, AddressSpaceAssumption DEF Entries
  <2>. QED  BY <1>1, <2>1 DEF CowFault, TypeOK
<1>8. pc' = pc \/ pc' = [pc EXCEPT ![t] = "dead"]
  BY DEF CowFault, Goto
<1>9. UNCHANGED <<machine, upper, made, lock, cr3, home, mmapNext>>
  BY DEF CowFault
<1>10. TypeOK'
  <2>1. pt' \in [Spaces -> [Pages -> Entries]]
    BY <1>2, <1>4 DEF TypeOK
  <2>2. pc' \in [Tasks \cup {Loader} ->
                   {"unborn", "idle", "user", "read", "mapping", "loaded", "dead"}]
    BY <1>8 DEF TypeOK
  <2>. QED  BY <1>1, <1>7, <1>9, <2>1, <2>2 DEF TypeOK
<1>11. SpacesInv'
  <2>1. \A s \in Spaces : s > made => pt'[s] = pt[s]
    <3>1. s0 \in 1..made
      BY <1>1 DEF SpacesInv
    <3>. QED  BY <1>1, <1>2, <3>1 DEF TypeOK, Spaces
  <2>. QED  BY <1>1, <1>8, <1>9, <2>1 DEF SpacesInv, TypeOK, NewTable
<1>. QED
  BY <1>6, <1>10, <1>11

\* mmap: pages that were free get frames of their own, in order.
LEMMA SysMmapKeeps ==
    ASSUME MemoryInv, NEW t \in Tasks, NEW n \in Heap, SysMmap(t, n)
    PROVE  MemoryInv'
<1>. USE DEF MemoryInv
<1>. DEFINE s0 == cr3[t]
            k == Mapped(t, n)
            m == mmapNext[t]
            T == [p \in Pages |-> IF p \in Window(t, k) THEN HeapLeaf(t, p) ELSE pt[s0][p]]
<1>1. /\ s0 \in 1..made /\ s0 \in Spaces /\ made \in Nat /\ pc[t] = "user"
      /\ frames \in Nat /\ m \in Nat /\ m >= 1 /\ m + n <= HEAP + 1 /\ n \in Nat
      /\ FRAMES \in Nat /\ HEAP \in Nat
  <2>1. s0 \in 1..made /\ made \in 0..MaxSpaces /\ pc[t] = "user"
    BY DEF SysMmap, Enter, InUser, SpacesInv, TypeOK
  <2>. QED  BY <2>1, AddressSpaceAssumption DEF SysMmap, TypeOK, Spaces, Heap
<1>2. /\ k \in 0..n /\ k <= Left /\ Window(t, k) \subseteq Heap
      /\ Taken(t, n) \in Nat /\ k <= Taken(t, n) /\ Taken(t, n) <= Left
      /\ \A p \in Window(t, k) : pt[s0][p] = NoEntry
  BY <1>1, MappedIs
<1>3. /\ frames' = frames + Taken(t, n) /\ frames' \in Nat /\ frames <= frames'
      /\ frames + k <= frames' /\ frames' <= FRAMES
  BY <1>1, <1>2 DEF SysMmap, Left
<1>4. pt' = [pt EXCEPT ![s0] = T]
  BY <1>1 DEF SysMmap, MapHeap, TypeOK
<1>5. ASSUME NEW p \in Window(t, k)
      PROVE  /\ HeapLeaf(t, p).frame = frames + 1 + p - m
             /\ HeapLeaf(t, p).frame \in (frames + 1)..(frames + k)
             /\ HeapLeaf(t, p) \in Entries
  <2>1. p \in m..(m + k - 1)
    BY DEF Window
  <2>2. frames + 1 + p - m \in (frames + 1)..(frames + k) /\ frames + 1 + p - m \in 0..FRAMES
    BY <1>1, <1>2, <1>3, <2>1
  <2>. QED  BY <2>2 DEF HeapLeaf, Entries
<1>6. \A p \in Pages : pt[s0][p] \in Entries /\ pt[s0][p].frame \in Nat /\ pt[s0][p].frame <= frames
  <2>1. \A p \in Pages : pt[s0][p] \in Entries /\ pt[s0][p].frame \in Nat
    BY <1>1, AddressSpaceAssumption DEF TypeOK, Entries
  <2>. QED  BY <1>1, <2>1 DEF NoWritableSharing
<1>7. /\ T \in [Pages -> Entries]
      /\ \A p \in Pages : \/ T[p] = pt[s0][p] /\ p \notin Window(t, k)
                          \/ T[p] = HeapLeaf(t, p) /\ p \in Window(t, k)
  BY <1>5, <1>6
<1>8. EntriesInv' /\ NoWritableSharing'
  <2>1. /\ ~T[Text].writable /\ ~T[Text].cow
        /\ \A p \in Pages : T[p].frame = 0 => T[p] = NoEntry
    BY <1>1, <1>2, <1>5, <1>7, PagesDiffer DEF EntriesInv
  <2>2. \A p \in Pages : T[p] = pt[s0][p] \/ T[p].frame \in (frames + 1)..frames'
    BY <1>1, <1>2, <1>3, <1>5, <1>7
  <2>3. \A p, q \in Pages : T[p].frame = T[q].frame /\ T[p].frame > frames => p = q
    <3>1. \A p \in Pages : T[p].frame > frames => p \in Window(t, k) /\ T[p].frame = frames + 1 + p - m
      BY <1>1, <1>5, <1>6, <1>7
    <3>2. \A p, q \in Pages : frames + 1 + p - m = frames + 1 + q - m => p = q
      BY <1>1, PagesDiffer
    <3>. HIDE DEF T, k, m
    <3>. QED  BY <3>1, <3>2
  <2>4. s0 \in Spaces /\ frames' \in Nat /\ frames <= frames'
    BY <1>1, <1>3
  <2>. HIDE DEF T, s0, k, m, MemoryInv
  <2>. QED  BY <1>4, <1>7, <2>1, <2>2, <2>3, <2>4, RemapKeeps
<1>9. content' \in [1..FRAMES -> Values \cup {Zero, Code, Junk, Args}]
  BY DEF SysMmap, MapHeap, TypeOK
<1>10. /\ mmapNext' = [mmapNext EXCEPT ![t] = @ + n]
       /\ upper' \in [Spaces -> SUBSET Regions] /\ UNCHANGED <<machine, made, lock, pc, cr3, home>>
  BY <1>1 DEF SysMmap, TypeOK, Regions
<1>11. TypeOK'
  <2>1. pt' \in [Spaces -> [Pages -> Entries]]
    BY <1>4, <1>7 DEF TypeOK
  <2>2. mmapNext' \in [Tasks -> 1..(HEAP + 1)]
    BY <1>1, <1>10 DEF TypeOK
  <2>. QED  BY <1>3, <1>9, <1>10, <2>1, <2>2 DEF TypeOK
<1>12. SpacesInv'
  <2>1. \A s \in Spaces : s > made => pt'[s] = pt[s]
    BY <1>1, <1>4 DEF TypeOK, Spaces
  <2>. QED  BY <1>10, <2>1 DEF SpacesInv, NewTable
<1>. QED
  BY <1>8, <1>11, <1>12

\* munmap
LEMMA SysMunmapKeeps ==
    ASSUME MemoryInv, NEW t \in Tasks, NEW P \in Ranges, SysMunmap(t, P)
    PROVE  MemoryInv'
<1>. USE DEF MemoryInv
<1>. DEFINE s0 == cr3[t]
            T == [p \in Pages |-> IF p \in P THEN NoEntry ELSE pt[s0][p]]
<1>1. s0 \in 1..made /\ s0 \in Spaces /\ made \in Nat /\ frames \in Nat
  <2>1. s0 \in 1..made /\ made \in 0..MaxSpaces
    BY DEF SysMunmap, Enter, InUser, SpacesInv, TypeOK
  <2>. QED  BY <2>1, AddressSpaceAssumption DEF TypeOK, Spaces
<1>2. pt' = [pt EXCEPT ![s0] = T]
  BY <1>1 DEF SysMunmap, TypeOK
<1>3. UNCHANGED <<machine, frames, content, upper, made, lock, pc, cr3, home, mmapNext>>
  BY DEF SysMunmap, allocVars, taskVars
<1>4. NoEntry \in Entries /\ NoEntry.frame = 0 /\ ~NoEntry.writable /\ ~NoEntry.cow
  BY AddressSpaceAssumption DEF NoEntry, Entries
<1>5. /\ T \in [Pages -> Entries]
      /\ \A p \in Pages : T[p] = pt[s0][p] \/ T[p] = NoEntry
  BY <1>1, <1>4 DEF TypeOK
<1>6. EntriesInv' /\ NoWritableSharing'
  <2>1. /\ ~T[Text].writable /\ ~T[Text].cow
        /\ \A p \in Pages : T[p].frame = 0 => T[p] = NoEntry
    BY <1>1, <1>4, <1>5, PagesDiffer DEF EntriesInv
  <2>2. \A p \in Pages : T[p].frame <= frames /\ T[p].frame \in Nat
    <3>1. \A p \in Pages : pt[s0][p].frame \in Nat
      BY <1>1, AddressSpaceAssumption DEF TypeOK, Entries
    <3>. QED  BY <1>1, <1>4, <1>5, <3>1 DEF NoWritableSharing
  <2>3. \A p, q \in Pages : T[p].frame = T[q].frame /\ T[p].frame > frames => p = q
    BY <1>1, <2>2
  <2>4. s0 \in Spaces /\ frames' \in Nat /\ frames <= frames'
    BY <1>1, <1>3
  <2>. HIDE DEF T, s0, MemoryInv
  <2>. QED  BY <1>2, <1>5, <2>1, <2>3, <2>4, RemapKeeps, ZenonT(60)
<1>7. TypeOK'
  BY <1>2, <1>3, <1>5 DEF TypeOK
<1>8. SpacesInv'
  <2>1. \A s \in Spaces : s > made => pt'[s] = pt[s]
    BY <1>1, <1>2 DEF TypeOK, Spaces
  <2>. QED  BY <1>3, <2>1 DEF SpacesInv, NewTable
<1>. QED
  BY <1>6, <1>7, <1>8

LEMMA MemoryStep == MemoryInv /\ [Next]_vars => MemoryInv'
<1>. SUFFICES ASSUME MemoryInv, [Next]_vars PROVE MemoryInv'
  OBVIOUS
<1>1. ASSUME NEW t \in Tasks \cup {Loader}, LoadStep(t) PROVE MemoryInv'
  BY <1>1, LoadKeeps, LoadMapKeeps DEF LoadStep
<1>2. ASSUME NEW t \in Tasks, UserStep(t) \/ Spawn(t) PROVE MemoryInv'
  <2>1. CASE ExecSwitch(t) \/ Spawn(t) \/ SpinOnMemory(t) \/ ForkPanic(t) \/ Exit(t)
    BY <2>1, SwitchKeeps, PagesDiffer
  <2>2. CASE \E p \in Pages : SegFault(t, p) \/ KernelFault(t, p)
    BY <2>2, SwitchKeeps
  <2>3. CASE \E c \in Tasks : SysFork(t, c)
    BY <2>3, SysForkKeeps
  <2>4. CASE \E p \in Pages, v \in Values : Store(t, p, v) \/ CowFault(t, p, v)
    BY <2>4, StoreKeeps, CowFaultKeeps
  <2>5. CASE \E n \in Heap : SysMmap(t, n)
    BY <2>5, SysMmapKeeps
  <2>6. CASE \E P \in Ranges : SysMunmap(t, P)
    BY <2>6, SysMunmapKeeps
  <2>. QED  BY <1>2, <2>1, <2>2, <2>3, <2>4, <2>5, <2>6 DEF UserStep
<1>3. ASSUME UNCHANGED vars PROVE MemoryInv'
  <2>1. UNCHANGED <<machine, frames, content, pt, upper, made, lock, pc, cr3, home, mmapNext>>
    BY <1>3 DEF vars, allocVars, taskVars
  <2>. QED
    BY <2>1 DEF MemoryInv, TypeOK, SpacesInv, EntriesInv, NoWritableSharing, NewTable
<1>. QED
  BY <1>1, <1>2, <1>3 DEF Next, Halted, Finished

\* The invariant holds throughout: page tables are typed, spaces that were not
\* stored map nothing, and programs run in stored ones.
THEOREM MemoryInvariant == Spec => []MemoryInv
BY MemoryInit, MemoryStep, PTL DEF Spec

\* Copy-on-write is sound (cow_fork_address_space, page_fault_handler): no frame is
\* mapped by two spaces of which one may write to it, although frames are shared,
\* copied and unmapped in any order and nobody counts references.
THEOREM SharingSound == Spec => []NoWritableSharing
<1>1. MemoryInv => NoWritableSharing
  BY DEF MemoryInv
<1>. QED
  BY <1>1, MemoryInvariant, PTL

-----------------------------------------------------------------------------
(* AddressSpace implements PrivateMemory *)

\* What all spaces read: the variable of PrivateMemory.
Memory == [s \in Spaces |-> [p \in Pages |-> Reads(s, p)]]

\* The steps of PrivateMemory in terms of what the spaces read.
LEMMA AbstractStore ==
    ASSUME NEW s \in Spaces, NEW p \in Pages, NEW v, p # Text,
           Reads(s, p) # Unmapped, Reads(s, p)' = v,
           \A u \in Spaces, q \in Pages : u # s \/ q # p => Reads(u, q)' = Reads(u, q)
    PROVE  Private!Store(s, p, v)
<1>1. Memory' = [Memory EXCEPT ![s][p] = v]
  BY DEF Memory
<1>. QED
  BY <1>1 DEF Private!Store, Memory

LEMMA AbstractFill ==
    ASSUME NEW s \in Spaces,
           \A p \in Pages : Reads(s, p) = Unmapped,
           \A p \in Pages : Reads(s, p)' \in Values \cup {Zero, Code, Junk, Args, Unmapped},
           \A u \in Spaces, q \in Pages : u # s => Reads(u, q)' = Reads(u, q)
    PROVE  Private!Fill(s)
<1>1. Memory' = [Memory EXCEPT ![s] = Memory'[s]]
  BY DEF Memory
<1>2. Memory'[s] \in [Pages -> (Values \cup {Zero, Code, Junk, Args}) \cup {Unmapped}]
  BY DEF Memory
<1>3. \A p \in Pages : Memory[s][p] = Unmapped
  BY DEF Memory
<1>. QED
  BY <1>1, <1>2, <1>3 DEF Private!Fill, Private!Empty, Memory

LEMMA AbstractCopy ==
    ASSUME NEW s \in Spaces, NEW c \in Spaces, NEW P \in SUBSET Pages,
           \A p \in Pages : Reads(c, p) = Unmapped,
           \A p \in Pages : Reads(c, p)' = IF p \in P THEN Reads(s, p) ELSE Unmapped,
           \A u \in Spaces, q \in Pages : u # c => Reads(u, q)' = Reads(u, q)
    PROVE  Private!Copy(s, c)
<1>1. Memory' = [Memory EXCEPT ![c] = [p \in Pages |-> IF p \in P THEN Memory[s][p] ELSE Unmapped]]
  BY DEF Memory
<1>2. \A p \in Pages : Memory[c][p] = Unmapped
  BY DEF Memory
<1>. QED
  BY <1>1, <1>2 DEF Private!Copy, Private!Empty, Memory

LEMMA AbstractMap ==
    ASSUME NEW s \in Spaces, NEW P \in SUBSET Pages,
           \A p \in P : Reads(s, p) = Unmapped,
           \A p \in Pages : Reads(s, p)' = IF p \in P THEN Zero ELSE Reads(s, p),
           \A u \in Spaces, q \in Pages : u # s => Reads(u, q)' = Reads(u, q)
    PROVE  Private!Map(s, P)
<1>1. Memory' = [Memory EXCEPT ![s] = [p \in Pages |-> IF p \in P THEN Zero ELSE Memory[s][p]]]
  BY DEF Memory
<1>2. \A p \in P : Memory[s][p] = Unmapped
  BY DEF Memory
<1>. QED
  BY <1>1, <1>2 DEF Private!Map, Memory

LEMMA AbstractUnmap ==
    ASSUME NEW s \in Spaces, NEW P \in SUBSET Pages,
           \A p \in Pages : Reads(s, p)' = IF p \in P THEN Unmapped ELSE Reads(s, p),
           \A u \in Spaces, q \in Pages : u # s => Reads(u, q)' = Reads(u, q)
    PROVE  Private!Unmap(s, P)
<1>1. Memory' = [Memory EXCEPT ![s] = [p \in Pages |-> IF p \in P THEN Unmapped ELSE Memory[s][p]]]
  BY DEF Memory
<1>. QED
  BY <1>1 DEF Private!Unmap, Memory

\* Nothing reads differently: a stutter.
LEMMA AbstractStutter ==
    ASSUME \A u \in Spaces, q \in Pages : Reads(u, q)' = Reads(u, q)
    PROVE  UNCHANGED Memory
BY DEF Memory

\* What an entry reads, and that a mapped page never reads as an unmapped one.
LEMMA ReadsIs ==
    ASSUME MemoryInv, NEW s \in Spaces, NEW p \in Pages
    PROVE  /\ pt[s][p].frame = 0 => Reads(s, p) = Unmapped /\ pt[s][p] = NoEntry
           /\ pt[s][p].frame # 0 =>
                /\ pt[s][p].frame \in 1..FRAMES /\ pt[s][p].frame <= frames
                /\ Reads(s, p) = content[pt[s][p].frame]
                /\ Reads(s, p) # Unmapped
<1>1. pt[s][p] \in Entries /\ NoEntry.frame = 0
  BY DEF MemoryInv, TypeOK, NoEntry
<1>2. CASE pt[s][p].frame = 0
  BY <1>2 DEF MemoryInv, EntriesInv, Reads
<1>3. CASE pt[s][p].frame # 0
  <2>1. pt[s][p].frame \in 1..FRAMES
    BY <1>1, <1>3, AddressSpaceAssumption DEF Entries
  <2>2. content[pt[s][p].frame] # Unmapped
    <3>1. content[pt[s][p].frame] \in Values \cup {Zero, Code, Junk, Args}
      BY <2>1 DEF MemoryInv, TypeOK
    <3>2. Unmapped \notin Values \cup {Zero, Code, Junk, Args}
      BY AddressSpaceAssumption DEF Unmapped, Zero, Code, Junk, Args
    <3>. QED  BY <3>1, <3>2
  <2>. QED
    BY <1>1, <1>3, <2>1, <2>2 DEF Reads, MemoryInv, NoWritableSharing
<1>. QED
  BY <1>2, <1>3

\* An entry that stays reads the same when no frame handed out before changes.
LEMMA ReadsKept ==
    ASSUME MemoryInv, NEW s \in Spaces, NEW p \in Pages,
           pt'[s][p].frame = pt[s][p].frame, pt'[s][p].frame = 0 => pt'[s][p] = NoEntry,
           NoEntry.frame = 0,
           \A f \in 1..FRAMES : f <= frames => content'[f] = content[f]
    PROVE  Reads(s, p)' = Reads(s, p)
<1>1. CASE pt[s][p].frame = 0
  BY <1>1, ReadsIs DEF Reads
<1>2. CASE pt[s][p].frame # 0
  <2>1. pt'[s][p] # NoEntry
    BY <1>2
  <2>. QED  BY <1>2, <2>1, ReadsIs DEF Reads
<1>. QED
  BY <1>1, <1>2

\* Steps that change neither tables nor frames in use are stutters.
LEMMA QuietStutters ==
    ASSUME MemoryInv, UNCHANGED <<pt, content>>
    PROVE  UNCHANGED Memory
BY AbstractStutter DEF Reads

\* A new image fills a space that reads nothing.
LEMMA LoadMapFills ==
    ASSUME MemoryInv, MemoryInv', NEW t \in Tasks \cup {Loader}, LoadMap(t)
    PROVE  \E s \in Spaces : Private!Fill(s)
<1>0. PICK s0 \in Spaces : s0 = made + 1
  BY AddressSpaceAssumption DEF LoadMap, MemoryInv, TypeOK, Spaces
<1>1. /\ s0 > made /\ pt' = [pt EXCEPT ![s0] = ImageTable]
      /\ frames \in Nat /\ FRAMES \in Nat /\ NoEntry.frame = 0
  BY <1>0, AddressSpaceAssumption DEF LoadMap, MemoryInv, TypeOK, Spaces, NoEntry
<1>2. \A p \in Pages : Reads(s0, p) = Unmapped
  BY <1>1 DEF MemoryInv, SpacesInv, NewTable, Reads
<1>3. \A p \in Pages : Reads(s0, p)' \in Values \cup {Zero, Code, Junk, Args, Unmapped}
  <2>. TAKE p \in Pages
  <2>1. pt'[s0][p] \in Entries /\ (pt'[s0][p] # NoEntry => pt'[s0][p].frame \in 1..FRAMES)
    BY <1>1, AddressSpaceAssumption DEF MemoryInv, TypeOK, EntriesInv, Entries
  <2>. QED  BY <1>1, <2>1 DEF Reads, MemoryInv, TypeOK
<1>4. \A f \in 1..FRAMES : f <= frames => content'[f] = content[f]
  BY <1>1, ImageFrames DEF LoadMap, ImageContent
<1>5. \A u \in Spaces, q \in Pages : u # s0 => Reads(u, q)' = Reads(u, q)
  <2>. SUFFICES ASSUME NEW u \in Spaces, NEW q \in Pages, u # s0
                PROVE  Reads(u, q)' = Reads(u, q)
    OBVIOUS
  <2>1. pt'[u][q] = pt[u][q]
    BY <1>1 DEF MemoryInv, TypeOK
  <2>2. pt'[u][q].frame = 0 => pt'[u][q] = NoEntry
    BY DEF MemoryInv, EntriesInv
  <2>. QED  BY <1>1, <1>4, <2>1, <2>2, ReadsKept
<1>. QED
  BY <1>1, <1>2, <1>3, <1>5, AbstractFill

\* fork is a snapshot.
LEMMA ForkCopies ==
    ASSUME MemoryInv, MemoryInv', NEW t \in Tasks, NEW c \in Tasks, SysFork(t, c)
    PROVE  \E s, u \in Spaces : Private!Copy(s, u)
<1>1. PICK s0 \in Spaces : s0 = cr3[t] /\ s0 \in 1..made
  BY AddressSpaceAssumption DEF SysFork, Enter, InUser, MemoryInv, TypeOK, SpacesInv, Spaces
<1>2. PICK c0 \in Spaces : c0 = made + 1
  BY AddressSpaceAssumption DEF SysFork, MemoryInv, TypeOK, Spaces
<1>3. c0 > made /\ s0 # c0 /\ UNCHANGED content /\ NoEntry.frame = 0
  BY <1>1, <1>2 DEF SysFork, MemoryInv, TypeOK, NoEntry
<1>4. PICK P \in SUBSET Pages :
        pt' = [pt EXCEPT ![s0] = SharedTable(s0, Pages), ![c0] = SharedTable(s0, P)]
  BY <1>1, <1>2, PagesDiffer DEF SysFork, Copied
<1>5. \A p \in Pages : /\ pt'[s0][p].frame = pt[s0][p].frame
                       /\ p \in P => pt'[c0][p].frame = pt[s0][p].frame
                       /\ p \notin P => pt'[c0][p] = NoEntry
  <2>0. \A p \in Pages : pt[s0][p] \in Entries
    BY DEF MemoryInv, TypeOK
  <2>1. \A p \in Pages : ShareLeaf(pt[s0][p]).frame = pt[s0][p].frame
    BY <2>0, ShareLeafIs
  <2>2. pt'[s0] = SharedTable(s0, Pages) /\ pt'[c0] = SharedTable(s0, P)
    BY <1>3, <1>4 DEF MemoryInv, TypeOK
  <2>. QED  BY <2>1, <2>2 DEF SharedTable
<1>6. \A u \in Spaces, q \in Pages : u \notin {s0, c0} => pt'[u][q] = pt[u][q]
  BY <1>3, <1>4 DEF MemoryInv, TypeOK
<1>7. \A u \in Spaces, q \in Pages : pt'[u][q].frame = 0 => pt'[u][q] = NoEntry
  BY DEF MemoryInv, EntriesInv
<1>8. \A p \in Pages : Reads(c0, p) = Unmapped
  BY <1>3 DEF MemoryInv, SpacesInv, NewTable, Reads
<1>9. \A p \in Pages : Reads(c0, p)' = IF p \in P THEN Reads(s0, p) ELSE Unmapped
  <2>. TAKE p \in Pages
  <2>1. CASE p \notin P
    BY <1>5, <2>1 DEF Reads
  <2>2. CASE p \in P /\ pt[s0][p].frame = 0
    BY <1>3, <1>5, <1>7, <2>2, ReadsIs DEF Reads
  <2>3. CASE p \in P /\ pt[s0][p].frame # 0
    BY <1>3, <1>5, <2>3, ReadsIs DEF Reads
  <2>. QED  BY <2>1, <2>2, <2>3
<1>30. \A u \in Spaces, q \in Pages : u # c0 => Reads(u, q)' = Reads(u, q)
  <2>. SUFFICES ASSUME NEW u \in Spaces, NEW q \in Pages, u # c0
                PROVE  Reads(u, q)' = Reads(u, q)
    OBVIOUS
  <2>1. pt'[u][q].frame = pt[u][q].frame
    BY <1>5, <1>6
  <2>. QED  BY <1>3, <1>7, <2>1, ReadsKept
<1>. QED
  BY <1>3, <1>8, <1>9, <1>30, AbstractCopy

\* A store that the page tables allow is a store to one page of one space.
LEMMA StoreStores ==
    ASSUME MemoryInv, MemoryInv', NEW t \in Tasks, NEW p \in Pages, NEW v \in Values,
           Store(t, p, v)
    PROVE  \E s \in Spaces : Private!Store(s, p, v)
<1>1. PICK s0 \in Spaces : s0 = cr3[t]
  BY AddressSpaceAssumption DEF Store, InUser, MemoryInv, TypeOK, SpacesInv, Spaces
<1>. DEFINE f == pt[s0][p].frame
<1>2. /\ pt[s0][p].writable /\ p # Text /\ f # 0 /\ UNCHANGED pt
      /\ content' = [content EXCEPT ![f] = v]
  BY <1>1 DEF Store, CanWrite, MemoryInv, EntriesInv, NoEntry
<1>3. Reads(s0, p) # Unmapped /\ f \in 1..FRAMES /\ pt[s0][p] # NoEntry
  BY <1>2, ReadsIs DEF NoEntry
<1>4. Reads(s0, p)' = v
  BY <1>2, <1>3 DEF Reads, MemoryInv, TypeOK
<1>5. \A u \in Spaces, q \in Pages : u # s0 \/ q # p => Reads(u, q)' = Reads(u, q)
  <2>. SUFFICES ASSUME NEW u \in Spaces, NEW q \in Pages, u # s0 \/ q # p
                PROVE  Reads(u, q)' = Reads(u, q)
    OBVIOUS
  <2>1. pt[u][q].frame # f
    BY <1>2 DEF MemoryInv, NoWritableSharing
  <2>2. pt[u][q] # NoEntry => pt[u][q].frame \in 1..FRAMES
    BY ReadsIs
  <2>. QED  BY <1>2, <2>1, <2>2 DEF Reads, MemoryInv, TypeOK
<1>. QED
  BY <1>2, <1>3, <1>4, <1>5, AbstractStore

\* A copy-on-write fault is the store that caused it, or not seen at all.
LEMMA CowFaultStores ==
    ASSUME MemoryInv, MemoryInv', NEW t \in Tasks, NEW p \in Pages, NEW v \in Values,
           CowFault(t, p, v)
    PROVE  (\E s \in Spaces : Private!Store(s, p, v)) \/ UNCHANGED Memory
<1>1. PICK s0 \in Spaces : s0 = cr3[t]
  BY AddressSpaceAssumption DEF CowFault, Enter, InUser, MemoryInv, TypeOK, SpacesInv, Spaces
<1>. DEFINE f == pt[s0][p].frame
<1>2. f # 0 /\ pt[s0][p].cow /\ pt[s0][p] \in Entries
  BY <1>1 DEF CowFault, Resolvable, MemoryInv, TypeOK
<1>3. p # Text /\ Reads(s0, p) # Unmapped /\ Reads(s0, p) = content[f] /\ f \in 1..FRAMES
  BY <1>2, ReadsIs DEF MemoryInv, EntriesInv
<1>4. frames \in Nat /\ frames + 1 \in 1..FRAMES
  BY AddressSpaceAssumption DEF CowFault, Resolvable, Left, MemoryInv, TypeOK
<1>5. /\ pt'[s0][p].frame = frames + 1 /\ pt'[s0][p] # NoEntry
      /\ \A u \in Spaces, q \in Pages : u # s0 \/ q # p => pt'[u][q] = pt[u][q]
  <2>1. pt' = [pt EXCEPT ![s0][p] = PrivateLeaf(pt[s0][p])]
    BY <1>1 DEF CowFault
  <2>2. PrivateLeaf(pt[s0][p]).frame = frames + 1
    BY <1>2 DEF PrivateLeaf, Entries
  <2>3. /\ pt'[s0][p] = PrivateLeaf(pt[s0][p])
        /\ \A u \in Spaces, q \in Pages : u # s0 \/ q # p => pt'[u][q] = pt[u][q]
    BY <2>1 DEF MemoryInv, TypeOK
  <2>4. NoEntry.frame = 0
    BY DEF NoEntry
  <2>. QED  BY <1>4, <2>2, <2>3, <2>4
<1>6. /\ \A g \in 1..FRAMES : g <= frames => content'[g] = content[g]
      /\ content'[frames + 1] = v \/ content'[frames + 1] = content[f]
  BY <1>1, <1>4 DEF CowFault, MemoryInv, TypeOK
<1>7. \A u \in Spaces, q \in Pages : u # s0 \/ q # p => Reads(u, q)' = Reads(u, q)
  <2>. SUFFICES ASSUME NEW u \in Spaces, NEW q \in Pages, u # s0 \/ q # p
                PROVE  Reads(u, q)' = Reads(u, q)
    OBVIOUS
  <2>1. pt'[u][q] = pt[u][q] /\ (pt'[u][q].frame = 0 => pt'[u][q] = NoEntry)
    BY <1>5 DEF MemoryInv, EntriesInv
  <2>2. NoEntry.frame = 0
    BY DEF NoEntry
  <2>. QED  BY <1>6, <2>1, <2>2, ReadsKept
<1>8. Reads(s0, p)' = content'[frames + 1]
  BY <1>5 DEF Reads
<1>9. CASE content'[frames + 1] = v
  BY <1>3, <1>7, <1>8, <1>9, AbstractStore
<1>10. CASE content'[frames + 1] = content[f]
  BY <1>3, <1>7, <1>8, <1>10, AbstractStutter
<1>. QED
  BY <1>6, <1>9, <1>10

\* mmap maps cleared pages where nothing was, in one space.
LEMMA MmapMaps ==
    ASSUME MemoryInv, MemoryInv', NEW t \in Tasks, NEW n \in Heap, SysMmap(t, n)
    PROVE  \E s \in Spaces : \E P \in SUBSET Pages : Private!Map(s, P)
<1>1. PICK s0 \in Spaces : s0 = cr3[t]
  BY AddressSpaceAssumption DEF SysMmap, Enter, InUser, MemoryInv, TypeOK, SpacesInv, Spaces
<1>2. PICK P \in SUBSET Pages : P = Window(t, Mapped(t, n))
  BY <1>1, MappedIs, PagesDiffer DEF SysMmap, MemoryInv
<1>3. /\ Mapped(t, n) \in Nat /\ frames \in Nat /\ mmapNext[t] \in Nat /\ mmapNext[t] >= 1
      /\ frames + Mapped(t, n) <= FRAMES /\ FRAMES \in Nat
      /\ \A p \in P : pt[s0][p] = NoEntry
  <2>1. /\ Mapped(t, n) \in 0..n /\ Mapped(t, n) <= Left
        /\ \A p \in P : pt[s0][p] = NoEntry
    BY <1>1, <1>2, MappedIs DEF SysMmap, MemoryInv
  <2>2. /\ frames \in Nat /\ FRAMES \in Nat /\ mmapNext[t] \in Nat /\ mmapNext[t] >= 1
        /\ n \in Nat
    BY AddressSpaceAssumption DEF MemoryInv, TypeOK, Heap
  <2>. QED  BY <2>1, <2>2 DEF Left
<1>4. /\ pt' = [pt EXCEPT ![s0] = [p \in Pages |-> IF p \in P THEN HeapLeaf(t, p) ELSE pt[s0][p]]]
      /\ content' = [g \in 1..FRAMES |->
                       IF g \in (frames + 1)..(frames + Mapped(t, n)) THEN Zero ELSE content[g]]
  BY <1>1, <1>2 DEF SysMmap, MapHeap, MemoryInv, TypeOK
<1>5. \A p \in P : Reads(s0, p) = Unmapped
  BY <1>3 DEF Reads
<1>6. \A g \in 1..FRAMES : g <= frames => content'[g] = content[g]
  BY <1>3, <1>4
<1>7. NoEntry.frame = 0 /\ \A u \in Spaces, q \in Pages : pt'[u][q].frame = 0 => pt'[u][q] = NoEntry
  BY DEF NoEntry, MemoryInv, EntriesInv
<1>8. \A u \in Spaces, q \in Pages : u # s0 \/ q \notin P => Reads(u, q)' = Reads(u, q)
  <2>. SUFFICES ASSUME NEW u \in Spaces, NEW q \in Pages, u # s0 \/ q \notin P
                PROVE  Reads(u, q)' = Reads(u, q)
    OBVIOUS
  <2>1. pt'[u][q] = pt[u][q]
    BY <1>4 DEF MemoryInv, TypeOK
  <2>. QED  BY <1>6, <1>7, <2>1, ReadsKept
<1>9. \A p \in P : Reads(s0, p)' = Zero
  <2>. TAKE p \in P
  <2>1. pt'[s0][p] = HeapLeaf(t, p)
    BY <1>4 DEF MemoryInv, TypeOK
  <2>2. p \in mmapNext[t]..(mmapNext[t] + Mapped(t, n) - 1)
    BY <1>2 DEF Window
  <2>3. /\ HeapLeaf(t, p).frame \in (frames + 1)..(frames + Mapped(t, n))
        /\ HeapLeaf(t, p).frame \in 1..FRAMES
    BY <1>3, <2>2 DEF HeapLeaf
  <2>4. content'[HeapLeaf(t, p).frame] = Zero
    BY <1>4, <2>3
  <2>5. HeapLeaf(t, p) # NoEntry
    BY <1>3, <1>7, <2>3
  <2>. QED  BY <2>1, <2>4, <2>5 DEF Reads
<1>. QED
  BY <1>5, <1>8, <1>9, AbstractMap

\* munmap takes pages from one space.
LEMMA MunmapUnmaps ==
    ASSUME MemoryInv, MemoryInv', NEW t \in Tasks, NEW R \in Ranges, SysMunmap(t, R)
    PROVE  \E s \in Spaces : \E P \in SUBSET Pages : Private!Unmap(s, P)
<1>1. PICK s0 \in Spaces : s0 = cr3[t]
  BY AddressSpaceAssumption DEF SysMunmap, Enter, InUser, MemoryInv, TypeOK, SpacesInv, Spaces
<1>2. PICK P \in SUBSET Pages : P = R \cap Pages
  OBVIOUS
<1>3. /\ pt' = [pt EXCEPT ![s0] = [p \in Pages |-> IF p \in P THEN NoEntry ELSE pt[s0][p]]]
      /\ UNCHANGED content
  BY <1>1, <1>2 DEF SysMunmap, MemoryInv, TypeOK, allocVars
<1>4. \A u \in Spaces, q \in Pages : u # s0 \/ q \notin P => pt'[u][q] = pt[u][q]
  BY <1>3 DEF MemoryInv, TypeOK
<1>5. \A q \in Pages : q \in P => pt'[s0][q] = NoEntry
  BY <1>3 DEF MemoryInv, TypeOK
<1>6. \A p \in Pages : Reads(s0, p)' = IF p \in P THEN Unmapped ELSE Reads(s0, p)
  BY <1>3, <1>4, <1>5 DEF Reads
<1>7. \A u \in Spaces, q \in Pages : u # s0 => Reads(u, q)' = Reads(u, q)
  BY <1>3, <1>4 DEF Reads
<1>. QED
  BY <1>6, <1>7, AbstractUnmap

\* Every step of the kernel is a step of PrivateMemory or a stutter.
LEMMA StepIsPrivate ==
    ASSUME MemoryInv, MemoryInv', [Next]_vars
    PROVE  [Private!Next]_Memory
<1>1. ASSUME NEW t \in Tasks \cup {Loader}, LoadStep(t) PROVE [Private!Next]_Memory
  <2>1. CASE LoadMap(t)
    BY <2>1, LoadMapFills DEF Private!Next
  <2>2. CASE /\ \/ LoadStart(t) \/ LoadRejected(t) \/ LoadLock(t) \/ LoadPanic(t)
                \/ LoadFail(t) \/ RelocateFail(t) \/ StackRefused(t)
    <3>1. UNCHANGED <<pt, content>>
      BY <2>2 DEF LoadStart, LoadRejected, LoadLock, LoadPanic, Panic, LoadFail, RelocateFail,
                  StackRefused, LoadError, allocVars
    <3>. QED  BY <3>1, QuietStutters
  <2>. QED  BY <1>1, <2>1, <2>2 DEF LoadStep
<1>2. ASSUME NEW t \in Tasks, UserStep(t) \/ Spawn(t) PROVE [Private!Next]_Memory
  <2>1. CASE \/ ExecSwitch(t) \/ Spawn(t) \/ SpinOnMemory(t) \/ ForkPanic(t) \/ Exit(t)
             \/ \E p \in Pages : SegFault(t, p) \/ KernelFault(t, p)
    <3>1. UNCHANGED <<pt, content>>
      BY <2>1 DEF ExecSwitch, Spawn, SpinOnMemory, ForkPanic, Exit, SegFault, KernelFault, Panic,
                  allocVars
    <3>. QED  BY <3>1, QuietStutters
  <2>2. CASE \E c \in Tasks : SysFork(t, c)
    BY <2>2, ForkCopies DEF Private!Next
  <2>3. CASE \E p \in Pages, v \in Values : Store(t, p, v)
    BY <2>3, StoreStores DEF Private!Next
  <2>4. CASE \E p \in Pages, v \in Values : CowFault(t, p, v)
    BY <2>4, CowFaultStores DEF Private!Next
  <2>5. CASE \E n \in Heap : SysMmap(t, n)
    BY <2>5, MmapMaps DEF Private!Next
  <2>6. CASE \E R \in Ranges : SysMunmap(t, R)
    BY <2>6, MunmapUnmaps DEF Private!Next
  <2>. QED  BY <1>2, <2>1, <2>2, <2>3, <2>4, <2>5, <2>6 DEF UserStep
<1>3. ASSUME UNCHANGED vars PROVE UNCHANGED Memory
  BY <1>3, QuietStutters DEF vars, allocVars
<1>. QED
  BY <1>1, <1>2, <1>3 DEF Next, Halted, Finished

\* The address spaces implement memories of their own (memory.rs: "isolates"): what a
\* program reads changes only by its own stores, mmap and munmap, a fork is a
\* snapshot, and copy-on-write is never seen.
THEOREM SpacesIsolated == Spec => Isolation
<1>1. Init => Private!Init
  BY DEF Init, Private!Init, Reads
<1>2. MemoryInv /\ MemoryInv' /\ [Next]_vars => [Private!Next]_Memory
  BY StepIsPrivate
<1>. QED
  BY <1>1, <1>2, MemoryInvariant, PTL DEF Spec, Isolation, Private!Spec, Memory
=============================================================================
