-------------------------- MODULE DescriptorsProofs --------------------------
(***************************************************************************)
(* Proofs about Descriptors, for any number of programs, any limits on      *)
(* tables and pipes and any bounds: the counters of a pipe are the numbers  *)
(* of its open ends, a waiting call keeps its end and its pipe, and the     *)
(* bytes of a pipe come out as they went in.                                *)
(***************************************************************************)
EXTENDS Descriptors, FiniteSetTheorems, SequenceTheorems, TLAPS

-----------------------------------------------------------------------------
(* Descriptors and what they refer to *)

\* What a descriptor refers to: the kinds are distinct, and an end of a pipe has
\* one pipe and one direction.
LEMMA FileKinds ==
    /\ NoFile \in Files /\ Stream \in Files
    /\ \A p \in Pipes : \A w \in BOOLEAN : PipeEnd(p, w) \in Files
    /\ \A s \in Socks : Socket(s) \in Files
    /\ \A p, w : PipeEnd(p, w) # NoFile /\ PipeEnd(p, w) # Stream
    /\ \A p, w, s : PipeEnd(p, w) # Socket(s)
    /\ \A p, q, v, w : PipeEnd(p, v) = PipeEnd(q, w) => p = q /\ v = w
<1>1. \A p \in Pipes : \A w \in BOOLEAN : PipeEnd(p, w) \in Files
  <2> TAKE p \in Pipes
  <2> TAKE w \in BOOLEAN
  <2>1. PipeEnd(p, w) \in {PipeEnd(q, v) : q \in Pipes, v \in BOOLEAN}
    OBVIOUS
  <2> QED
    BY <2>1 DEF Files
<1>2. NoFile \in Files /\ Stream \in Files /\ \A s \in Socks : Socket(s) \in Files
  BY DEF Files
<1>3. \A p, w : PipeEnd(p, w) # NoFile /\ PipeEnd(p, w) # Stream
  BY DEF PipeEnd, NoFile, Stream
<1>4. \A p, w, s : PipeEnd(p, w) # Socket(s)
  BY DEF PipeEnd, Socket
<1>5. \A p, q, v, w : PipeEnd(p, v) = PipeEnd(q, w) => p = q /\ v = w
  BY DEF PipeEnd
<1> QED
  BY <1>1, <1>2, <1>3, <1>4, <1>5

\* The descriptors in files that are this end of the pipe; EndsIn is their number.
Ends(files, p, w) == {fd \in Fds : files[fd] = PipeEnd(p, w)}

\* Holders, for a table given as a parameter.
HoldersIn(tab, p, w) == {h \in Programs \X Fds : tab[h[1]][h[2]] = PipeEnd(p, w)}

Count(tab, p, w) == Cardinality(HoldersIn(tab, p, w))

\* There are finitely many descriptors, so ends can be counted.
LEMMA EndsFinite ==
    ASSUME NEW files, NEW p, NEW w
    PROVE  /\ IsFiniteSet(Fds) /\ IsFiniteSet(Ends(files, p, w))
           /\ EndsIn(files, p, w) = Cardinality(Ends(files, p, w))
           /\ EndsIn(files, p, w) \in Nat
           /\ EndsIn(files, p, w) = 0 <=> \A fd \in Fds : files[fd] # PipeEnd(p, w)
<1>1. IsFiniteSet(Fds)
  BY FS_Interval, DescriptorsAssumption DEF Fds
<1>2. Ends(files, p, w) \in SUBSET Fds
  BY DEF Ends
<1>3. IsFiniteSet(Ends(files, p, w))
  BY <1>1, <1>2, FS_Subset
<1>4. EndsIn(files, p, w) = Cardinality(Ends(files, p, w))
  BY DEF EndsIn, Ends
<1>5. EndsIn(files, p, w) \in Nat
  BY <1>3, <1>4, FS_CardinalityType
<1>6. EndsIn(files, p, w) = 0 <=> Ends(files, p, w) = {}
  BY <1>3, <1>4, FS_EmptySet
<1>7. Ends(files, p, w) = {} <=> \A fd \in Fds : files[fd] # PipeEnd(p, w)
  BY DEF Ends
<1> QED
  BY <1>1, <1>3, <1>4, <1>5, <1>6, <1>7

LEMMA HoldersFinite ==
    ASSUME NEW tab, NEW p, NEW w
    PROVE  /\ IsFiniteSet(HoldersIn(tab, p, w))
           /\ Count(tab, p, w) \in Nat
           /\ Count(tab, p, w) = 0 <=> HoldersIn(tab, p, w) = {}
<1>1. IsFiniteSet(Fds)
  BY EndsFinite
<1>2. IsFiniteSet(Programs \X Fds)
  BY <1>1, FS_Product, DescriptorsAssumption
<1>3. HoldersIn(tab, p, w) \in SUBSET (Programs \X Fds)
  BY DEF HoldersIn
<1>4. IsFiniteSet(HoldersIn(tab, p, w))
  BY <1>2, <1>3, FS_Subset
<1> QED
  BY <1>4, FS_CardinalityType, FS_EmptySet DEF Count

\* What program t holds of an end, when files is its table.
Held(t, files, p, w) == {t} \X Ends(files, p, w)

\* The pairs of one program with its descriptors are as many as the descriptors.
LEMMA OneProgramsEnds ==
    ASSUME NEW t, NEW files, NEW p, NEW w
    PROVE  /\ IsFiniteSet(Held(t, files, p, w))
           /\ Cardinality(Held(t, files, p, w)) = EndsIn(files, p, w)
<1>1. IsFiniteSet({t}) /\ Cardinality({t}) = 1
  BY FS_Singleton
<1>2. IsFiniteSet(Ends(files, p, w)) /\ EndsIn(files, p, w) = Cardinality(Ends(files, p, w))
      /\ EndsIn(files, p, w) \in Nat
  BY EndsFinite
<1>3. /\ IsFiniteSet({t} \X Ends(files, p, w))
      /\ Cardinality({t} \X Ends(files, p, w)) = Cardinality({t}) * Cardinality(Ends(files, p, w))
  BY <1>1, <1>2, FS_Product
<1> QED
  BY <1>1, <1>2, <1>3 DEF Held

\* The tables when program t gets the table files.
Replaced(tab, t, files) == [tab EXCEPT ![t] = files]

\* When the table of one program is replaced, an end's holders change by what that
\* program holds.
LEMMA TableReplaced ==
    ASSUME NEW tab, tab \in [Programs -> [Fds -> Files]],
           NEW t \in Programs, NEW files, NEW p, NEW w
    PROVE  /\ Count(Replaced(tab, t, files), p, w) + EndsIn(tab[t], p, w)
                = Count(tab, p, w) + EndsIn(files, p, w)
           /\ EndsIn(tab[t], p, w) <= Count(tab, p, w)
<1> DEFINE Rest == {h \in Programs \X Fds : h[1] # t /\ tab[h[1]][h[2]] = PipeEnd(p, w)}
           new == Replaced(tab, t, files)
           Mine(f) == Held(t, f, p, w)
<1>1. /\ HoldersIn(tab, p, w) = Rest \cup Mine(tab[t])
      /\ Rest \cap Mine(tab[t]) = {} /\ Rest \cap Mine(files) = {}
  BY DEF HoldersIn, Ends, Held
<1>2. HoldersIn(new, p, w) = Rest \cup Mine(files)
  BY DEF HoldersIn, Ends, Held, Replaced
<1>3. IsFiniteSet(Rest)
  <2>1. Rest \in SUBSET HoldersIn(tab, p, w)
    BY DEF HoldersIn
  <2> QED
    BY <2>1, HoldersFinite, FS_Subset
<1> HIDE DEF Rest, new
<1>4. \A f : IsFiniteSet(Mine(f)) /\ Cardinality(Mine(f)) = EndsIn(f, p, w)
  BY OneProgramsEnds
<1> HIDE DEF Mine
<1>u. /\ Cardinality(Rest \cup Mine(tab[t]))
           = Cardinality(Rest) + Cardinality(Mine(tab[t])) - Cardinality(Rest \cap Mine(tab[t]))
      /\ Cardinality(Rest \cup Mine(files))
           = Cardinality(Rest) + Cardinality(Mine(files)) - Cardinality(Rest \cap Mine(files))
  BY <1>3, <1>4, FS_Union
<1>5. /\ Count(tab, p, w) = Cardinality(Rest) + EndsIn(tab[t], p, w) - 0
      /\ Count(new, p, w) = Cardinality(Rest) + EndsIn(files, p, w) - 0
  <2>1. Cardinality({}) = 0
    BY FS_EmptySet
  <2> QED
    BY <1>1, <1>2, <1>4, <1>u, <2>1, Zenon DEF Count
<1>6. Cardinality(Rest) \in Nat /\ EndsIn(tab[t], p, w) \in Nat /\ EndsIn(files, p, w) \in Nat
  BY <1>3, FS_CardinalityType, EndsFinite
<1> QED
  BY <1>5, <1>6 DEF new

\* The table files when descriptor fd becomes x.
WithFile(files, fd, x) == [files EXCEPT ![fd] = x]

\* When one descriptor is replaced, the ends change by what it was and what it is.
LEMMA FileReplaced ==
    ASSUME NEW files, files \in [Fds -> Files], NEW fd \in Fds, NEW x, NEW p, NEW w
    PROVE  EndsIn(WithFile(files, fd, x), p, w) + (IF files[fd] = PipeEnd(p, w) THEN 1 ELSE 0)
             = EndsIn(files, p, w) + (IF x = PipeEnd(p, w) THEN 1 ELSE 0)
<1> DEFINE new == WithFile(files, fd, x)
           Rest == Ends(files, p, w) \ {fd}
<1>1. /\ Ends(files, p, w) = IF files[fd] = PipeEnd(p, w) THEN Rest \cup {fd} ELSE Rest
      /\ Ends(new, p, w) = IF x = PipeEnd(p, w) THEN Rest \cup {fd} ELSE Rest
      /\ fd \notin Rest
  BY DEF Ends, WithFile
<1>2. IsFiniteSet(Rest)
  <2>1. Rest \in SUBSET Ends(files, p, w)
    OBVIOUS
  <2> QED
    BY <2>1, EndsFinite, FS_Subset
<1> HIDE DEF Rest, new
<1>3. Cardinality(Rest) \in Nat /\ Cardinality(Rest \cup {fd}) = Cardinality(Rest) + 1
  BY <1>1, <1>2, FS_AddElement, FS_CardinalityType
<1>4. /\ EndsIn(files, p, w) = Cardinality(Ends(files, p, w))
      /\ EndsIn(new, p, w) = Cardinality(Ends(new, p, w))
  BY EndsFinite
<1> QED
  BY <1>1, <1>3, <1>4 DEF new

-----------------------------------------------------------------------------
(* Counting the ends of a pipe *)

PipeRecords == [live : BOOLEAN, buf : Seq(Bytes), read_ends : Nat, write_ends : Nat]

\* The pipe q has r read ends and w write ends: EndsCounted, for one pipe.
CountedBy(q, r, w) ==
    /\ q.live => q.read_ends = r /\ q.write_ends = w /\ r + w > 0
    /\ ~q.live => w = 0 /\ q = NoPipe

LEMMA NoPipeIs == NoPipe \in PipeRecords /\ ~NoPipe.live /\ NoPipe.buf = <<>>
                  /\ NoPipe.read_ends = 0 /\ NoPipe.write_ends = 0
<1>1. <<>> \in Seq(Bytes)
  BY EmptySeq
<1>2. FALSE \in BOOLEAN
  OBVIOUS
<1> QED
  BY <1>1, <1>2 DEF NoPipe, PipeRecords

\* A pipe of which dr read ends and dw write ends are given up: ReleaseEnds.
Dropped(q, dr, dw) == IF q.live /\ dr + dw > 0 THEN Released(q, dr, dw) ELSE q

\* A pipe of which dr read ends and dw write ends are duplicated: CloneTaskFds.
Dupped(q, dr, dw) ==
    IF q.live THEN [q EXCEPT !.read_ends = @ + dr, !.write_ends = @ + dw] ELSE q

\* What becomes of pipe q when ends are given up and r and w of them are left: the
\* pipe goes with its last end and not before.
DropKeeps(q, q2, r, w) ==
    /\ q2 \in PipeRecords /\ CountedBy(q2, r, w)
    /\ q2.live => q.live /\ q2.buf = q.buf
    /\ q2 = NoPipe \/ q2.buf = q.buf
    /\ q.live /\ r + w > 0 => q2.live
    /\ q = NoPipe => q2 = NoPipe

\* What becomes of pipe q when ends are duplicated and there are r and w then.
DupKeeps(q, q2, r, w) ==
    /\ q2 \in PipeRecords /\ CountedBy(q2, r, w)
    /\ (q2.live <=> q.live) /\ q2.buf = q.buf
    /\ q = NoPipe => q2 = NoPipe

\* Releasing ends keeps the counts right.
LEMMA ReleasedCounted ==
    ASSUME NEW q \in PipeRecords, NEW r \in Nat, NEW w \in Nat, CountedBy(q, r, w),
           NEW r2 \in Nat, NEW w2 \in Nat, NEW dr \in Nat, NEW dw \in Nat,
           r2 + dr = r, w2 + dw = w, NEW q2, q2 = Dropped(q, dr, dw)
    PROVE  DropKeeps(q, q2, r2, w2)
<1> USE NoPipeIs DEF Dropped, DropKeeps
<1>1. CASE q.live /\ dr + dw > 0
  <2>1. q.read_ends = r /\ q.write_ends = w
    BY <1>1 DEF CountedBy
  <2>2. CASE r2 + w2 = 0
    <3>1. q2 = NoPipe
      BY <1>1, <2>1, <2>2 DEF Released
    <3> QED
      BY <1>1, <2>2, <3>1 DEF CountedBy
  <2>3. CASE r2 + w2 > 0
    <3>a. /\ (IF q.read_ends > dr THEN q.read_ends - dr ELSE 0) = r2
          /\ (IF q.write_ends > dw THEN q.write_ends - dw ELSE 0) = w2
      BY <2>1
    <3>b. ~(r2 = 0 /\ w2 = 0)
      BY <2>3
    <3>c. q2 = Released(q, dr, dw)
      BY <1>1, Zenon
    <3>1. q2 = [q EXCEPT !.read_ends = r2, !.write_ends = w2]
      BY <3>a, <3>b, <3>c, Zenon DEF Released
    <3>2. /\ q2 \in PipeRecords
          /\ q2.live = q.live /\ q2.buf = q.buf /\ q2.read_ends = r2 /\ q2.write_ends = w2
      BY <3>1 DEF PipeRecords
    <3> QED
      BY <1>1, <2>3, <3>2 DEF CountedBy
  <2> QED
    BY <2>2, <2>3
<1>2. CASE ~(q.live /\ dr + dw > 0)
  <2>1. q2 = q
    BY <1>2, Zenon
  <2>2. q.live => dr = 0 /\ dw = 0
    BY <1>2
  <2> QED
    BY <2>1, <2>2 DEF CountedBy
<1> QED
  BY <1>1, <1>2

\* Counting the ends a child inherits keeps the counts right.
LEMMA AddedCounted ==
    ASSUME NEW q \in PipeRecords, NEW r \in Nat, NEW w \in Nat, CountedBy(q, r, w),
           NEW r2 \in Nat, NEW w2 \in Nat, NEW dr \in Nat, NEW dw \in Nat,
           r2 = r + dr, w2 = w + dw, dw <= w, NEW q2, q2 = Dupped(q, dr, dw)
    PROVE  DupKeeps(q, q2, r2, w2)
<1> USE NoPipeIs DEF Dupped, DupKeeps
<1>1. CASE q.live
  <2>1. q.read_ends = r /\ q.write_ends = w
    BY <1>1 DEF CountedBy
  <2>2. q2 = [q EXCEPT !.read_ends = r2, !.write_ends = w2]
    BY <1>1, <2>1
  <2>3. /\ q2 \in PipeRecords
        /\ (q2.live <=> q.live) /\ q2.buf = q.buf /\ q2.read_ends = r2 /\ q2.write_ends = w2
    BY <2>2 DEF PipeRecords
  <2> QED
    BY <1>1, <2>1, <2>3 DEF CountedBy
<1>2. CASE ~q.live
  <2>1. q = NoPipe /\ w = 0 /\ w2 = 0
    BY <1>2 DEF CountedBy
  <2>2. q2 = q
    BY <1>2, Zenon
  <2>3. CountedBy(q2, r2, w2)
    BY <2>1, <2>2 DEF CountedBy
  <2>4. (q2.live <=> q.live) /\ q2.buf = q.buf /\ q2 \in PipeRecords
    BY <2>2
  <2> QED
    BY <2>1, <2>2, <2>3, <2>4
<1> QED
  BY <1>1, <1>2

-----------------------------------------------------------------------------
(* alloc_fd *)

\* alloc_fd takes the number it starts with when that one is free.
LEMMA FreeFdIs ==
    ASSUME NEW files, NEW n \in Fds, files[n] = NoFile
    PROVE  FreeFd(files, n) = n
<1> DEFINE K == {k \in 0..MAX_FDS_PER_TASK : Tried(n, k) \in Fds /\ files[Tried(n, k)] = NoFile}
<1>1. Tried(n, 0) = n
  BY DEF Tried
<1>2. 0 \in K
  BY <1>1, DescriptorsAssumption
<1>3. K \subseteq Nat
  BY DescriptorsAssumption
<1> HIDE DEF K
<1>4. Min(K) = 0
  <2>1. 0 \in K /\ \A y \in K : 0 =< y
    BY <1>2, <1>3
  <2>2. Min(K) \in K /\ \A y \in K : Min(K) =< y
    BY <2>1 DEF Min
  <2>3. Min(K) \in Nat /\ Min(K) =< 0
    BY <1>2, <1>3, <2>2, Zenon
  <2> QED
    BY <2>3
<1> QED
  BY <1>1, <1>4 DEF FreeFd, K

\* A descriptor more keeps the table within its limit.
LEMMA RoomForOne ==
    ASSUME NEW files, files \in [Fds -> Files], HasRoom(files), NEW fd \in Fds, NEW x
    PROVE  Cardinality(Open([files EXCEPT ![fd] = x])) <= MAX_FDS_PER_TASK
<1> DEFINE new == [files EXCEPT ![fd] = x]
<1>1. IsFiniteSet(Fds) /\ Open(files) \in SUBSET Fds
  BY EndsFinite DEF Open
<1>2. IsFiniteSet(Open(files))
  BY <1>1, FS_Subset
<1>3. /\ IsFiniteSet(Open(files) \cup {fd})
      /\ Cardinality(Open(files) \cup {fd}) <= Cardinality(Open(files)) + 1
      /\ Cardinality(Open(files)) \in Nat
  <2>1. /\ IsFiniteSet(Open(files) \cup {fd})
        /\ Cardinality(Open(files) \cup {fd})
             = IF fd \in Open(files) THEN Cardinality(Open(files)) ELSE Cardinality(Open(files)) + 1
    BY <1>2, FS_AddElement
  <2>2. Cardinality(Open(files)) \in Nat
    BY <1>2, FS_CardinalityType
  <2> QED
    BY <2>1, <2>2
<1>4. Open(new) \in SUBSET (Open(files) \cup {fd})
  BY DEF Open
<1> HIDE DEF new
<1>5. /\ Cardinality(Open(new)) <= Cardinality(Open(files) \cup {fd})
      /\ Cardinality(Open(new)) \in Nat /\ Cardinality(Open(files) \cup {fd}) \in Nat
  BY <1>3, <1>4, FS_Subset, FS_CardinalityType
<1> QED
  BY <1>3, <1>5, DescriptorsAssumption DEF HasRoom, new

\* Fewer descriptors keep the table within its limit.
LEMMA OpenShrinks ==
    ASSUME NEW files, NEW new, Open(new) \subseteq Open(files),
           Cardinality(Open(files)) <= MAX_FDS_PER_TASK
    PROVE  Cardinality(Open(new)) <= MAX_FDS_PER_TASK
<1>1. IsFiniteSet(Fds) /\ Open(files) \in SUBSET Fds
  BY EndsFinite DEF Open
<1>2. IsFiniteSet(Open(files)) /\ Cardinality(Open(files)) \in Nat
  BY <1>1, FS_Subset, FS_CardinalityType
<1>3. Cardinality(Open(new)) <= Cardinality(Open(files)) /\ Cardinality(Open(new)) \in Nat
  BY <1>2, FS_Subset, FS_CardinalityType
<1> QED
  BY <1>2, <1>3, DescriptorsAssumption

-----------------------------------------------------------------------------
(* The invariant in terms of counts *)

CountsOK ==
    \A p \in Pipes : CountedBy(pipes[p], Count(table, p, FALSE), Count(table, p, TRUE))

FreshPipes ==
    \A p \in Pipes :
        p >= nextPipe => /\ pipes[p] = NoPipe /\ sent[p] = <<>> /\ out[p] = <<>>
                         /\ Count(table, p, FALSE) = 0

LEMMA CountsAre ==
    /\ EndsCounted <=> TypeOK /\ CountsOK
    /\ PipesInv <=> FreshPipes
<1>1. \A p, w : /\ Holders(p, w) = HoldersIn(table, p, w)
                /\ Cardinality(Holders(p, w)) = Count(table, p, w)
                /\ Holders(p, w) = {} <=> Count(table, p, w) = 0
  <2> TAKE p, w
  <2>1. Holders(p, w) = HoldersIn(table, p, w)
    BY DEF Holders, HoldersIn
  <2>2. Count(table, p, w) = 0 <=> HoldersIn(table, p, w) = {}
    BY HoldersFinite
  <2> QED
    BY <2>1, <2>2, Zenon DEF Count
<1>2. EndsCounted <=> TypeOK /\ CountsOK
  BY <1>1 DEF EndsCounted, CountsOK, CountedBy
<1>3. PipesInv <=> FreshPipes
  BY <1>1 DEF PipesInv, FreshPipes
<1> QED
  BY <1>2, <1>3

LEMMA CountsWillBe ==
    /\ EndsCounted' <=> TypeOK' /\ CountsOK'
    /\ PipesInv' <=> FreshPipes'
<1>1. \A p, w : /\ Holders(p, w)' = HoldersIn(table', p, w)
                /\ Cardinality(Holders(p, w)') = Count(table', p, w)
                /\ Holders(p, w)' = {} <=> Count(table', p, w) = 0
  <2> TAKE p, w
  <2>1. Holders(p, w)' = HoldersIn(table', p, w)
    BY DEF Holders, HoldersIn
  <2>2. Count(table', p, w) = 0 <=> HoldersIn(table', p, w) = {}
    BY HoldersFinite
  <2> QED
    BY <2>1, <2>2, Zenon DEF Count
<1>2. EndsCounted' <=> TypeOK' /\ CountsOK'
  BY <1>1 DEF EndsCounted, CountsOK, CountedBy
<1>3. PipesInv' <=> FreshPipes'
  BY <1>1 DEF PipesInv, FreshPipes
<1> QED
  BY <1>2, <1>3

\* The bytes of a program in the pipes, without the sets.
LEMMA SentByIs ==
    \A t, n : n \in SentBy(t) <=>
        \E p \in Pipes : \E k \in DOMAIN sent[p] : sent[p][k][1] = t /\ n = sent[p][k][2]
BY DEF SentBy

LEMMA SentByWillBe ==
    \A t, n : n \in SentBy(t)' <=>
        \E p \in Pipes : \E k \in DOMAIN sent'[p] : sent'[p][k][1] = t /\ n = sent'[p][k][2]
BY DEF SentBy

-----------------------------------------------------------------------------
(* Steps that change a table and no bytes *)

\* What such a step of program t does to the pipes: the counts stay right, a pipe
\* with an end left stays, and its bytes stay.
PipesKept ==
    /\ pipes' \in [Pipes -> PipeRecords]
    /\ CountsOK'
    /\ \A p \in Pipes :
         /\ Len(pipes'[p].buf) <= PIPE_CAPACITY
         /\ pipes'[p].live => sent[p] = out[p] \o pipes'[p].buf
         /\ pipes[p].live /\ Count(table', p, FALSE) + Count(table', p, TRUE) > 0
              => pipes'[p].live

LEMMA TableStep ==
    ASSUME DescriptorsInv, NEW t \in Programs,
           NEW files, files \in [Fds -> Files], NEW n, n \in Fds, NEW s,
           table' = [table EXCEPT ![t] = files],
           next_fd' = [next_fd EXCEPT ![t] = n],
           status' = [status EXCEPT ![t] = s],
           call' = [call EXCEPT ![t] = Idle],
           UNCHANGED <<wrote, sent, out>>,
           Cardinality(Open(files)) <= MAX_FDS_PER_TASK,
           \A fd \in Fds : fd >= n => files[fd] = NoFile,
           \/ s = "alive" /\ (status[t] = "none" \/ InUser(t))
           \/ s = "ended" /\ \A fd \in Fds : files[fd] = NoFile,
           PipesKept,
           nextPipe' \in 1..(MaxPipes + 1), FreshPipes',
           sockets' \subseteq Socks, nextSocket' \in 1..(MaxSockets + 1)
    PROVE  DescriptorsInv'
<1> USE DEF PipesKept
<1>1. TypeOK /\ TablesInv /\ CallsInv /\ CallHoldsEnd /\ StreamIntact
  BY DEF DescriptorsInv, EndsCounted
<1>i. Idle \in [kind : {"idle", "read", "write"}, id : 0..MaxPipes, len : Nat, done : Nat]
      /\ Idle.kind = "idle" /\ Idle.done = 0
  BY DescriptorsAssumption DEF Idle
<1>t. /\ table'[t] = files /\ next_fd'[t] = n /\ status'[t] = s /\ call'[t] = Idle
      /\ \A u \in Programs : u # t => /\ table'[u] = table[u] /\ next_fd'[u] = next_fd[u]
                                      /\ status'[u] = status[u] /\ call'[u] = call[u]
  BY <1>1 DEF TypeOK
<1>2. TypeOK'
  <2>1. /\ table' \in [Programs -> [Fds -> Files]] /\ next_fd' \in [Programs -> Fds]
    BY <1>1 DEF TypeOK
  <2>2. status' \in [Programs -> {"none", "alive", "ended"}]
    BY <1>1 DEF TypeOK
  <2>3. call' \in [Programs -> [kind : {"idle", "read", "write"}, id : 0..MaxPipes,
                                len : Nat, done : Nat]]
    BY <1>1, <1>i DEF TypeOK
  <2>4. \A u \in Programs : Cardinality(Open(table'[u])) <= MAX_FDS_PER_TASK
    BY <1>1, <1>t DEF TypeOK
  <2> QED
    BY <1>1, <2>1, <2>2, <2>3, <2>4 DEF TypeOK, PipeRecords
<1>s. \A u : SentBy(u)' = SentBy(u)
  BY DEF SentBy
<1>3. TablesInv'
  BY <1>1, <1>t, <1>s, <1>i DEF TablesInv, TypeOK
<1>4. CallsInv'
  BY <1>1, <1>t, <1>i DEF CallsInv
<1>5. CallHoldsEnd'
  <2> SUFFICES ASSUME NEW u \in Programs, call'[u].kind # "idle"
               PROVE  /\ status'[u] = "alive"
                      /\ call'[u].id \in Pipes
                      /\ pipes'[call'[u].id].live
                      /\ \E fd \in Fds : table'[u][fd] = PipeEnd(call'[u].id, call'[u].kind = "write")
    BY DEF CallHoldsEnd
  <2>1. u # t /\ call'[u] = call[u] /\ table'[u] = table[u] /\ status'[u] = status[u]
    BY <1>t, <1>i
  <2>2. /\ status[u] = "alive" /\ call[u].id \in Pipes /\ pipes[call[u].id].live
        /\ \E fd \in Fds : table[u][fd] = PipeEnd(call[u].id, call[u].kind = "write")
    BY <1>1, <2>1 DEF CallHoldsEnd
  <2> PICK p \in Pipes : p = call[u].id
    BY <2>2
  <2> PICK w \in BOOLEAN : w = (call[u].kind = "write")
    BY Zenon
  <2>3. PICK fd \in Fds : table[u][fd] = PipeEnd(p, w)
    BY <2>2
  <2>4. EndsIn(table'[u], p, w) # 0 /\ EndsIn(table'[u], p, w) \in Nat
    BY <2>1, <2>3, EndsFinite
  <2>5. EndsIn(table'[u], p, w) <= Count(table', p, w)
    BY <1>2, TableReplaced DEF TypeOK
  <2>6. \A v : Count(table', p, v) \in Nat
    BY HoldersFinite
  <2>7. Count(table', p, FALSE) + Count(table', p, TRUE) > 0
    <3>1. PICK r \in Nat, v \in Nat :
             r = Count(table', p, FALSE) /\ v = Count(table', p, TRUE)
      BY <2>6, Zenon
    <3>2. PICK e \in Nat, c \in Nat : /\ e = EndsIn(table'[u], p, w) /\ c = Count(table', p, w)
                                     /\ e # 0 /\ e <= c
      BY <2>4, <2>5, <2>6, Zenon
    <3>3. c = r \/ c = v
      BY <3>1, <3>2, Zenon
    <3>4. r + v > 0
      BY <3>2, <3>3
    <3> QED
      BY <3>1, <3>4, Zenon
  <2>8. pipes'[p].live
    BY <2>2, <2>7
  <2> QED
    BY <2>1, <2>2, <2>8
<1>6. StreamIntact'
  <2>1. \A p \in Pipes :
           \A j, k \in DOMAIN sent'[p] :
              j < k /\ sent'[p][j][1] = sent'[p][k][1] => sent'[p][j][2] < sent'[p][k][2]
    BY <1>1 DEF StreamIntact
  <2>2. ASSUME NEW u \in Programs, status'[u] = "alive"
        PROVE  SentBy(u)' = 1..(wrote'[u] + call'[u].done)
    <3>1. CASE u # t
      BY <1>1, <1>t, <1>s, <2>2, <3>1 DEF StreamIntact
    <3>2. CASE u = t /\ InUser(t)
      BY <1>1, <1>t, <1>s, <2>2, <3>2 DEF StreamIntact, InUser
    <3>3. CASE u = t /\ status[t] = "none"
      <4>1. SentBy(u)' = {} /\ wrote'[u] = 0 /\ call'[u].done = 0
        BY <1>1, <1>t, <1>s, <1>i, <3>3 DEF TablesInv
      <4> QED
        BY <4>1
    <3> QED
      BY <1>t, <2>2, <3>1, <3>2, <3>3
  <2>3. \A p \in Pipes : pipes'[p].live => sent'[p] = out'[p] \o pipes'[p].buf
    OBVIOUS
  <2> QED
    BY <2>1, <2>2, <2>3 DEF StreamIntact
<1> QED
  BY <1>2, <1>3, <1>4, <1>5, <1>6, CountsWillBe DEF DescriptorsInv

\* The parts of the invariant, and what they say about counts.
LEMMA InvParts ==
    ASSUME DescriptorsInv
    PROVE  /\ TypeOK /\ TablesInv /\ CallsInv /\ CallHoldsEnd /\ StreamIntact
           /\ CountsOK /\ FreshPipes
           /\ table \in [Programs -> [Fds -> Files]]
           /\ pipes \in [Pipes -> PipeRecords]
BY CountsAre DEF DescriptorsInv, TypeOK, PipeRecords

\* What a program's new table does to the counts.
LEMMA CountChange ==
    ASSUME DescriptorsInv, NEW t \in Programs, NEW files,
           table' = Replaced(table, t, files)
    PROVE  \A p, w : /\ Count(table', p, w) + EndsIn(table[t], p, w)
                           = Count(table, p, w) + EndsIn(files, p, w)
                     /\ EndsIn(table[t], p, w) <= Count(table, p, w)
<1>1. table \in [Programs -> [Fds -> Files]]
  BY InvParts
<1> TAKE p, w
<1>2. /\ Count(Replaced(table, t, files), p, w) + EndsIn(table[t], p, w)
           = Count(table, p, w) + EndsIn(files, p, w)
      /\ EndsIn(table[t], p, w) <= Count(table, p, w)
  BY <1>1, TableReplaced
<1> QED
  BY <1>2

\* A step that leaves the pipes alone and gives program t a table with as many ends
\* of each pipe as before.
LEMMA SameEnds ==
    ASSUME DescriptorsInv, NEW t \in Programs, NEW files,
           table' = Replaced(table, t, files),
           \A p, w : EndsIn(files, p, w) = EndsIn(table[t], p, w),
           UNCHANGED <<pipes, nextPipe, sent, out>>
    PROVE  PipesKept /\ FreshPipes'
<1>1. /\ TypeOK /\ StreamIntact /\ CountsOK /\ FreshPipes
      /\ table \in [Programs -> [Fds -> Files]] /\ pipes \in [Pipes -> PipeRecords]
  BY InvParts
<1>2. ASSUME NEW p, NEW w PROVE Count(table', p, w) = Count(table, p, w)
  <2>1. /\ Count(table', p, w) + EndsIn(table[t], p, w) = Count(table, p, w) + EndsIn(files, p, w)
    BY CountChange
  <2>a. EndsIn(files, p, w) = EndsIn(table[t], p, w)
    OBVIOUS
  <2>2. /\ Count(table', p, w) \in Nat /\ Count(table, p, w) \in Nat
        /\ EndsIn(table[t], p, w) \in Nat
    BY EndsFinite, HoldersFinite
  <2> QED
    BY <2>1, <2>2, <2>a
<1>3. \A p \in Pipes : /\ Count(table', p, FALSE) = Count(table, p, FALSE)
                       /\ Count(table', p, TRUE) = Count(table, p, TRUE)
  BY <1>2, Zenon
<1>4. CountsOK' /\ FreshPipes'
  BY <1>1, <1>3, Zenon DEF CountsOK, FreshPipes
<1>5. \A p \in Pipes : /\ Len(pipes[p].buf) <= PIPE_CAPACITY
                       /\ pipes[p].live => sent[p] = out[p] \o pipes[p].buf
  BY <1>1 DEF TypeOK, StreamIntact
<1> QED
  BY <1>1, <1>4, <1>5 DEF PipesKept

\* A table without pipes has no ends.
LEMMA NoEnds ==
    ASSUME NEW files, NEW p, NEW w,
           \A fd \in Fds : files[fd] = NoFile \/ files[fd] = Stream
    PROVE  EndsIn(files, p, w) = 0
<1>1. PipeEnd(p, w) # NoFile /\ PipeEnd(p, w) # Stream
  BY FileKinds
<1>2. \A fd \in Fds : files[fd] # PipeEnd(p, w)
  BY <1>1, Zenon
<1>3. EndsIn(files, p, w) = 0 <=> \A fd \in Fds : files[fd] # PipeEnd(p, w)
  BY EndsFinite
<1> QED
  BY <1>2, <1>3

\* The table of a new task: standard streams only.
LEMMA EmptyTableIs ==
    /\ EmptyTable \in [Fds -> Files] /\ STREAMS \in Fds
    /\ Cardinality(Open(EmptyTable)) <= MAX_FDS_PER_TASK
    /\ \A fd \in Fds : fd >= STREAMS => EmptyTable[fd] = NoFile
    /\ \A fd \in Fds : EmptyTable[fd] = NoFile \/ EmptyTable[fd] = Stream
<1> USE DescriptorsAssumption
<1>1. Stream # NoFile
  BY DEF Stream, NoFile
<1>2. Open(EmptyTable) = 0..(STREAMS - 1)
  BY <1>1 DEF Open, EmptyTable, Fds
<1>3. Cardinality(0..(STREAMS - 1)) = STREAMS
  BY FS_Interval
<1>4. EmptyTable \in [Fds -> Files]
  BY FileKinds DEF EmptyTable
<1>5. \A fd \in Fds : /\ fd >= STREAMS => EmptyTable[fd] = NoFile
                      /\ EmptyTable[fd] = NoFile \/ EmptyTable[fd] = Stream
  BY DEF EmptyTable, Fds
<1> QED
  BY <1>2, <1>3, <1>4, <1>5 DEF Fds

LEMMA InitTaskFdsStep ==
    ASSUME DescriptorsInv, NEW t \in Programs, InitTaskFds(t) PROVE DescriptorsInv'
<1>1. /\ TypeOK /\ TablesInv
  BY InvParts
<1>2. /\ status[t] = "none" /\ status' = [status EXCEPT ![t] = "alive"]
      /\ table' = [table EXCEPT ![t] = EmptyTable]
      /\ next_fd' = [next_fd EXCEPT ![t] = STREAMS]
      /\ UNCHANGED <<pipes, nextPipe, sockets, nextSocket, call, wrote, sent, out>>
  BY DEF InitTaskFds, socketVars
<1>3. call' = [call EXCEPT ![t] = Idle]
  BY <1>1, <1>2 DEF TypeOK, TablesInv
<1>4. \A p, w : EndsIn(EmptyTable, p, w) = EndsIn(table[t], p, w)
  <2>1. \A fd \in Fds : table[t][fd] = NoFile
    BY <1>1, <1>2 DEF TablesInv
  <2> QED
    BY <2>1, EmptyTableIs, NoEnds, Zenon
<1>5. PipesKept /\ FreshPipes'
  BY <1>2, <1>4, SameEnds DEF Replaced
<1>6. nextPipe' \in 1..(MaxPipes + 1) /\ sockets' \subseteq Socks
      /\ nextSocket' \in 1..(MaxSockets + 1)
  BY <1>1, <1>2 DEF TypeOK
<1> QED
  BY <1>2, <1>3, <1>5, <1>6, EmptyTableIs, TableStep

LEMMA CloneTaskFdsStep ==
    ASSUME DescriptorsInv, NEW t \in Programs, NEW child \in Programs, CloneTaskFds(t, child)
    PROVE  DescriptorsInv'
<1>1. /\ TypeOK /\ TablesInv /\ StreamIntact /\ CountsOK /\ FreshPipes
      /\ pipes \in [Pipes -> PipeRecords]
  BY InvParts
<1>2. /\ status[child] = "none" /\ status' = [status EXCEPT ![child] = "alive"]
      /\ table' = [table EXCEPT ![child] = table[t]]
      /\ next_fd' = [next_fd EXCEPT ![child] = next_fd[t]]
      /\ UNCHANGED <<nextPipe, sockets, nextSocket, call, wrote, sent, out>>
  BY DEF CloneTaskFds, socketVars
<1>p. pipes' = [p \in Pipes |->
                   IF pipes[p].live
                     THEN [pipes[p] EXCEPT
                             !.read_ends = @ + EndsIn(table[t], p, FALSE),
                             !.write_ends = @ + EndsIn(table[t], p, TRUE)]
                     ELSE pipes[p]]
  BY DEF CloneTaskFds
<1>3. call' = [call EXCEPT ![child] = Idle]
  BY <1>1, <1>2 DEF TypeOK, TablesInv
<1>4. /\ table[t] \in [Fds -> Files] /\ next_fd[t] \in Fds
      /\ Cardinality(Open(table[t])) <= MAX_FDS_PER_TASK
      /\ \A fd \in Fds : fd >= next_fd[t] => table[t][fd] = NoFile
  BY <1>1 DEF TypeOK, TablesInv
<1>5. \A p, w : /\ Count(table', p, w) = Count(table, p, w) + EndsIn(table[t], p, w)
                /\ EndsIn(table[t], p, w) <= Count(table, p, w)
                /\ Count(table', p, w) \in Nat /\ Count(table, p, w) \in Nat
                /\ EndsIn(table[t], p, w) \in Nat
  <2> TAKE p, w
  <2>1. EndsIn(table[child], p, w) = 0
    <3>1. \A fd \in Fds : table[child][fd] = NoFile
      BY <1>1, <1>2 DEF TablesInv
    <3> QED
      BY <3>1, NoEnds
  <2>2. table' = Replaced(table, child, table[t])
    BY <1>2 DEF Replaced
  <2>3. Count(table', p, w) + EndsIn(table[child], p, w) = Count(table, p, w) + EndsIn(table[t], p, w)
    BY <2>2, CountChange
  <2>4. EndsIn(table[t], p, w) <= Count(table, p, w)
    <3>1. table \in [Programs -> [Fds -> Files]]
      BY InvParts
    <3> QED
      BY <3>1, TableReplaced
  <2>5. /\ Count(table', p, w) \in Nat /\ Count(table, p, w) \in Nat
        /\ EndsIn(table[t], p, w) \in Nat
    BY HoldersFinite, EndsFinite
  <2> QED
    BY <2>1, <2>3, <2>4, <2>5
<1>6. ASSUME NEW p \in Pipes
      PROVE  /\ pipes'[p] \in PipeRecords
             /\ CountedBy(pipes'[p], Count(table', p, FALSE), Count(table', p, TRUE))
             /\ (pipes'[p].live <=> pipes[p].live) /\ pipes'[p].buf = pipes[p].buf
             /\ pipes[p] = NoPipe => pipes'[p] = NoPipe
  <2>1. PICK r \in Nat, w \in Nat, r2 \in Nat, w2 \in Nat, dr \in Nat, dw \in Nat :
           /\ r = Count(table, p, FALSE) /\ w = Count(table, p, TRUE)
           /\ r2 = Count(table', p, FALSE) /\ w2 = Count(table', p, TRUE)
           /\ dr = EndsIn(table[t], p, FALSE) /\ dw = EndsIn(table[t], p, TRUE)
    BY <1>5, Zenon
  <2>2. r2 = r + dr /\ w2 = w + dw /\ dw <= w
    BY <1>5, <2>1, Zenon
  <2>3. CountedBy(pipes[p], r, w)
    BY <1>1, <2>1, Zenon DEF CountsOK
  <2>4. pipes[p] \in PipeRecords
    BY <1>1
  <2>5. pipes'[p] = Dupped(pipes[p], dr, dw)
    BY <1>p, <2>1 DEF Dupped
  <2> PICK q, q2 : q = pipes[p] /\ q2 = pipes'[p]
    OBVIOUS
  <2>a. q \in PipeRecords /\ CountedBy(q, r, w) /\ q2 = Dupped(q, dr, dw)
    BY <2>3, <2>4, <2>5, Zenon
  <2>6. DupKeeps(q, q2, r2, w2)
    BY <2>2, <2>a, AddedCounted
  <2> QED
    BY <2>1, <2>6, Zenon DEF DupKeeps
<1>7. PipesKept
  <2>1. \A p \in Pipes : /\ Len(pipes[p].buf) <= PIPE_CAPACITY
                         /\ pipes[p].live => sent[p] = out[p] \o pipes[p].buf
    BY <1>1 DEF TypeOK, StreamIntact
  <2>2. pipes' \in [Pipes -> PipeRecords]
    <3>1. pipes' = [p \in Pipes |-> pipes'[p]]
      BY <1>p
    <3> QED
      BY <1>6, <3>1
  <2>3. CountsOK'
    BY <1>6, Zenon DEF CountsOK
  <2>4. ASSUME NEW p \in Pipes
        PROVE  /\ Len(pipes'[p].buf) <= PIPE_CAPACITY
               /\ pipes'[p].live => sent[p] = out[p] \o pipes'[p].buf
               /\ pipes[p].live => pipes'[p].live
    BY <1>6, <2>1
  <2> QED
    BY <2>2, <2>3, <2>4, Zenon DEF PipesKept
<1>8. FreshPipes'
  <2> SUFFICES ASSUME NEW p \in Pipes, p >= nextPipe'
               PROVE  /\ pipes'[p] = NoPipe /\ sent'[p] = <<>> /\ out'[p] = <<>>
                      /\ Count(table', p, FALSE) = 0
    BY DEF FreshPipes
  <2>1. pipes[p] = NoPipe /\ sent[p] = <<>> /\ out[p] = <<>> /\ Count(table, p, FALSE) = 0
    BY <1>1, <1>2 DEF FreshPipes
  <2>2. \A w : Count(table, p, w) = 0 => Count(table', p, w) = 0
    BY <1>5
  <2> QED
    BY <1>2, <1>6, <2>1, <2>2, Zenon
<1>9. nextPipe' \in 1..(MaxPipes + 1) /\ sockets' \subseteq Socks
      /\ nextSocket' \in 1..(MaxSockets + 1)
  BY <1>1, <1>2 DEF TypeOK
<1> QED
  BY <1>2, <1>3, <1>4, <1>7, <1>8, <1>9, TableStep

\* A step of program t that gives up the ends in gone and releases them.
LEMMA ReleaseKept ==
    ASSUME DescriptorsInv, NEW t \in Programs, NEW files, NEW gone,
           table' = Replaced(table, t, files),
           \A p, w : EndsIn(files, p, w) + EndsIn(gone, p, w) = EndsIn(table[t], p, w),
           pipes' = ReleaseEnds(gone), UNCHANGED <<nextPipe, sent, out>>
    PROVE  PipesKept /\ FreshPipes'
<1>1. /\ TypeOK /\ StreamIntact /\ CountsOK /\ FreshPipes
      /\ pipes \in [Pipes -> PipeRecords]
  BY InvParts
<1>5. \A p, w : /\ Count(table', p, w) + EndsIn(gone, p, w) = Count(table, p, w)
                /\ Count(table', p, w) \in Nat /\ Count(table, p, w) \in Nat
                /\ EndsIn(gone, p, w) \in Nat
  <2> TAKE p, w
  <2>1. Count(table', p, w) + EndsIn(table[t], p, w) = Count(table, p, w) + EndsIn(files, p, w)
    BY CountChange
  <2>2. EndsIn(files, p, w) + EndsIn(gone, p, w) = EndsIn(table[t], p, w)
    OBVIOUS
  <2>3. /\ Count(table', p, w) \in Nat /\ Count(table, p, w) \in Nat
        /\ EndsIn(table[t], p, w) \in Nat /\ EndsIn(files, p, w) \in Nat
        /\ EndsIn(gone, p, w) \in Nat
    BY HoldersFinite, EndsFinite
  <2> QED
    BY <2>1, <2>2, <2>3
<1>p. pipes' = [p \in Pipes |->
                  IF pipes[p].live /\ EndsIn(gone, p, FALSE) + EndsIn(gone, p, TRUE) > 0
                    THEN Released(pipes[p], EndsIn(gone, p, FALSE), EndsIn(gone, p, TRUE))
                    ELSE pipes[p]]
  BY Zenon DEF ReleaseEnds
<1>6. ASSUME NEW p \in Pipes
      PROVE  /\ pipes'[p] \in PipeRecords
             /\ CountedBy(pipes'[p], Count(table', p, FALSE), Count(table', p, TRUE))
             /\ pipes'[p].live => pipes[p].live /\ pipes'[p].buf = pipes[p].buf
             /\ pipes'[p] = NoPipe \/ pipes'[p].buf = pipes[p].buf
             /\ pipes[p].live /\ Count(table', p, FALSE) + Count(table', p, TRUE) > 0
                  => pipes'[p].live
             /\ pipes[p] = NoPipe => pipes'[p] = NoPipe
  <2>1. PICK r \in Nat, w \in Nat, r2 \in Nat, w2 \in Nat, dr \in Nat, dw \in Nat :
           /\ r = Count(table, p, FALSE) /\ w = Count(table, p, TRUE)
           /\ r2 = Count(table', p, FALSE) /\ w2 = Count(table', p, TRUE)
           /\ dr = EndsIn(gone, p, FALSE) /\ dw = EndsIn(gone, p, TRUE)
    BY <1>5, Zenon
  <2>2. r2 + dr = r /\ w2 + dw = w
    BY <1>5, <2>1, Zenon
  <2>3. CountedBy(pipes[p], r, w)
    BY <1>1, <2>1, Zenon DEF CountsOK
  <2>4. pipes[p] \in PipeRecords
    BY <1>1
  <2>5. pipes'[p] = Dropped(pipes[p], dr, dw)
    BY <1>p, <2>1 DEF Dropped
  <2> PICK q, q2 : q = pipes[p] /\ q2 = pipes'[p]
    OBVIOUS
  <2>a. q \in PipeRecords /\ CountedBy(q, r, w) /\ q2 = Dropped(q, dr, dw)
    BY <2>3, <2>4, <2>5, Zenon
  <2>6. DropKeeps(q, q2, r2, w2)
    BY <2>2, <2>a, ReleasedCounted
  <2> QED
    BY <2>1, <2>6, Zenon DEF DropKeeps
<1>7. PipesKept
  <2>1. \A p \in Pipes : /\ Len(pipes[p].buf) <= PIPE_CAPACITY
                         /\ pipes[p].live => sent[p] = out[p] \o pipes[p].buf
    BY <1>1 DEF TypeOK, StreamIntact
  <2>2. pipes' \in [Pipes -> PipeRecords]
    <3>1. pipes' = [p \in Pipes |-> pipes'[p]]
      BY <1>p
    <3> QED
      BY <1>6, <3>1
  <2>3. CountsOK'
    BY <1>6, Zenon DEF CountsOK
  <2>4. ASSUME NEW p \in Pipes
        PROVE  /\ Len(pipes'[p].buf) <= PIPE_CAPACITY
               /\ pipes'[p].live => sent[p] = out[p] \o pipes'[p].buf
    <3>1. Len(NoPipe.buf) <= PIPE_CAPACITY
      BY NoPipeIs, EmptySeq, DescriptorsAssumption
    <3> QED
      BY <1>6, <2>1, <3>1
  <2> QED
    BY <1>6, <2>2, <2>3, <2>4, Zenon DEF PipesKept
<1>8. FreshPipes'
  <2> SUFFICES ASSUME NEW p \in Pipes, p >= nextPipe'
               PROVE  /\ pipes'[p] = NoPipe /\ sent'[p] = <<>> /\ out'[p] = <<>>
                      /\ Count(table', p, FALSE) = 0
    BY DEF FreshPipes
  <2>1. pipes[p] = NoPipe /\ sent[p] = <<>> /\ out[p] = <<>> /\ Count(table, p, FALSE) = 0
    BY <1>1 DEF FreshPipes
  <2>2. \A w : Count(table, p, w) = 0 => Count(table', p, w) = 0
    BY <1>5
  <2> QED
    BY <1>6, <2>1, <2>2, Zenon
<1> QED
  BY <1>7, <1>8

\* The table of program t is left as it is.
LEMMA OwnTable ==
    ASSUME DescriptorsInv, NEW t \in Programs
    PROVE  /\ table[t] \in [Fds -> Files] /\ next_fd[t] \in Fds
           /\ Cardinality(Open(table[t])) <= MAX_FDS_PER_TASK
           /\ \A fd \in Fds : fd >= next_fd[t] => table[t][fd] = NoFile
           /\ table = [table EXCEPT ![t] = table[t]]
           /\ next_fd = [next_fd EXCEPT ![t] = next_fd[t]]
           /\ status[t] = "alive" => status = [status EXCEPT ![t] = "alive"]
           /\ InUser(t) => call = [call EXCEPT ![t] = Idle]
<1>1. TypeOK /\ TablesInv
  BY InvParts
<1> QED
  BY <1>1 DEF TypeOK, TablesInv, InUser

LEMMA CleanupTaskFdsStep ==
    ASSUME DescriptorsInv, NEW t \in Programs, CleanupTaskFds(t) PROVE DescriptorsInv'
<1> DEFINE files == [fd \in Fds |-> NoFile]
<1>1. TypeOK
  BY InvParts
<1>2. /\ status' = [status EXCEPT ![t] = "ended"]
      /\ table' = [table EXCEPT ![t] = files]
      /\ pipes' = ReleaseEnds(table[t])
      /\ sockets' \subseteq sockets
      /\ call' = [call EXCEPT ![t] = Idle]
      /\ UNCHANGED <<next_fd, nextPipe, nextSocket, wrote, sent, out>>
  BY DEF CleanupTaskFds
<1>3. /\ files \in [Fds -> Files] /\ \A fd \in Fds : files[fd] = NoFile
      /\ Open(files) \subseteq Open(table[t])
  BY FileKinds DEF Open
<1>4. Cardinality(Open(files)) <= MAX_FDS_PER_TASK
  BY <1>3, OwnTable, OpenShrinks
<1>5. next_fd' = [next_fd EXCEPT ![t] = next_fd[t]] /\ next_fd[t] \in Fds
  BY <1>2, OwnTable
<1> HIDE DEF files
<1>6. \A p, w : EndsIn(files, p, w) + EndsIn(table[t], p, w) = EndsIn(table[t], p, w)
  <2> TAKE p, w
  <2>1. EndsIn(files, p, w) = 0
    BY <1>3, NoEnds
  <2>2. EndsIn(table[t], p, w) \in Nat
    BY EndsFinite
  <2> QED
    BY <2>1, <2>2
<1>7. PipesKept /\ FreshPipes'
  <2>1. table' = Replaced(table, t, files)
    BY <1>2 DEF Replaced
  <2> QED
    BY <1>2, <1>6, <2>1, ReleaseKept
<1>8. nextPipe' \in 1..(MaxPipes + 1) /\ sockets' \subseteq Socks
      /\ nextSocket' \in 1..(MaxSockets + 1)
  BY <1>1, <1>2 DEF TypeOK
<1> QED
  BY <1>2, <1>3, <1>4, <1>5, <1>7, <1>8, TableStep

LEMMA SysCloseStep ==
    ASSUME DescriptorsInv, NEW t \in Programs, NEW fd \in Fds, SysClose(t, fd)
    PROVE  DescriptorsInv'
<1> DEFINE only  == [g \in Fds |-> IF g = fd THEN table[t][fd] ELSE NoFile]
           files == WithFile(table[t], fd, NoFile)
           none  == [g \in Fds |-> NoFile]
<1>1. TypeOK
  BY InvParts
<1>2. /\ InUser(t)
      /\ table' = [table EXCEPT ![t][fd] = NoFile]
      /\ pipes' = ReleaseEnds(only)
      /\ sockets' \subseteq sockets
      /\ UNCHANGED <<status, next_fd, nextPipe, nextSocket, call, wrote, sent, out>>
  BY DEF SysClose
<1>o. /\ table[t] \in [Fds -> Files] /\ next_fd[t] \in Fds
      /\ Cardinality(Open(table[t])) <= MAX_FDS_PER_TASK
      /\ \A g \in Fds : g >= next_fd[t] => table[t][g] = NoFile
  BY OwnTable
<1>3. /\ files \in [Fds -> Files] /\ Open(files) \subseteq Open(table[t])
      /\ \A g \in Fds : g >= next_fd[t] => files[g] = NoFile
  BY <1>o, FileKinds DEF Open, WithFile
<1>4. Cardinality(Open(files)) <= MAX_FDS_PER_TASK
  BY <1>3, <1>o, OpenShrinks
<1>5. table' = [table EXCEPT ![t] = files]
  BY <1>2 DEF WithFile
<1>6. \A p, w : EndsIn(files, p, w) + EndsIn(only, p, w) = EndsIn(table[t], p, w)
  <2> TAKE p, w
  <2>1. EndsIn(files, p, w) + (IF table[t][fd] = PipeEnd(p, w) THEN 1 ELSE 0)
          = EndsIn(table[t], p, w) + (IF NoFile = PipeEnd(p, w) THEN 1 ELSE 0)
    BY <1>o, FileReplaced
  <2>2. none \in [Fds -> Files] /\ none[fd] = NoFile /\ EndsIn(none, p, w) = 0
    BY NoEnds, FileKinds
  <2>3. only = WithFile(none, fd, table[t][fd])
    BY DEF WithFile
  <2> HIDE DEF none, only
  <2>4. EndsIn(only, p, w) + (IF none[fd] = PipeEnd(p, w) THEN 1 ELSE 0)
          = EndsIn(none, p, w) + (IF table[t][fd] = PipeEnd(p, w) THEN 1 ELSE 0)
    <3>1. EndsIn(WithFile(none, fd, table[t][fd]), p, w)
             + (IF none[fd] = PipeEnd(p, w) THEN 1 ELSE 0)
            = EndsIn(none, p, w) + (IF table[t][fd] = PipeEnd(p, w) THEN 1 ELSE 0)
      BY <2>2, FileReplaced
    <3> QED
      BY <2>3, <3>1
  <2>5. PipeEnd(p, w) # NoFile
    BY FileKinds
  <2>6. EndsIn(files, p, w) \in Nat /\ EndsIn(only, p, w) \in Nat /\ EndsIn(table[t], p, w) \in Nat
    BY EndsFinite
  <2> HIDE DEF files
  <2> QED
    BY <2>1, <2>2, <2>4, <2>5, <2>6
<1> HIDE DEF files, only, none
<1>7. PipesKept /\ FreshPipes'
  <2>1. table' = Replaced(table, t, files)
    BY <1>5 DEF Replaced
  <2> QED
    BY <1>2, <1>6, <2>1, ReleaseKept
<1>8. nextPipe' \in 1..(MaxPipes + 1) /\ sockets' \subseteq Socks
      /\ nextSocket' \in 1..(MaxSockets + 1)
  BY <1>1, <1>2 DEF TypeOK
<1>9. /\ next_fd' = [next_fd EXCEPT ![t] = next_fd[t]]
      /\ status' = [status EXCEPT ![t] = "alive"] /\ call' = [call EXCEPT ![t] = Idle]
  BY <1>2, OwnTable DEF InUser
<1>a. InUser(t) /\ UNCHANGED <<wrote, sent, out>>
  BY <1>2
<1> QED
  BY <1>o, <1>3, <1>4, <1>5, <1>7, <1>8, <1>9, <1>a, TableStep

\* A table whose numbers from n on are free.
FreeFrom(files, n) ==
    /\ files \in [Fds -> Files] /\ n \in Fds
    /\ \A fd \in Fds : fd >= n => files[fd] = NoFile

\* alloc_fd on such a table: the number n, and the next search starts at n + 1.
LEMMA AllocFdIs ==
    ASSUME NEW files, NEW n, FreeFrom(files, n), NEW x,
           NEW tab, tab = [files |-> files, next |-> n]
    PROVE  AllocFd(tab, x) = [files |-> WithFile(files, n, x), next |-> n + 1]
<1>0. n \in Fds /\ files[n] = NoFile
  BY DescriptorsAssumption DEF FreeFrom, Fds
<1>1. FreeFd(files, n) = n
  BY <1>0, FreeFdIs
<1>2. tab.files = files /\ tab.next = n
  OBVIOUS
<1> QED
  BY <1>1, <1>2 DEF AllocFd, WithFile

LEMMA TableFields ==
    \A tab, files, n : tab = [files |-> files, next |-> n] => tab.files = files /\ tab.next = n
OBVIOUS

\* What an allocation gives, when there was room for it.
AllocGives(files, n, x, new) ==
    /\ FreeFrom(new, n + 1)
    /\ Cardinality(Open(new)) <= MAX_FDS_PER_TASK
    /\ \A p, w : EndsIn(new, p, w) = EndsIn(files, p, w) + (IF x = PipeEnd(p, w) THEN 1 ELSE 0)

LEMMA AllocFdGives ==
    ASSUME NEW files, NEW n, FreeFrom(files, n), HasRoom(files), n + 1 <= MaxFd,
           NEW x \in Files
    PROVE  AllocGives(files, n, x, WithFile(files, n, x))
<1> DEFINE new == WithFile(files, n, x)
<1>1. /\ files \in [Fds -> Files] /\ n \in Fds /\ n \in Nat
      /\ \A fd \in Fds : fd >= n => files[fd] = NoFile
  BY DescriptorsAssumption DEF FreeFrom, Fds
<1>2. FreeFrom(new, n + 1)
  BY <1>1, DescriptorsAssumption DEF FreeFrom, WithFile, Fds
<1>3. Cardinality(Open(new)) <= MAX_FDS_PER_TASK
  BY <1>1, RoomForOne DEF WithFile
<1>4. ASSUME NEW p, NEW w
      PROVE  EndsIn(new, p, w) = EndsIn(files, p, w) + (IF x = PipeEnd(p, w) THEN 1 ELSE 0)
  <2>1. EndsIn(new, p, w) + (IF files[n] = PipeEnd(p, w) THEN 1 ELSE 0)
          = EndsIn(files, p, w) + (IF x = PipeEnd(p, w) THEN 1 ELSE 0)
    BY <1>1, FileReplaced
  <2>2. files[n] = NoFile /\ PipeEnd(p, w) # NoFile
    BY <1>1, FileKinds
  <2>3. EndsIn(new, p, w) \in Nat /\ EndsIn(files, p, w) \in Nat
    BY EndsFinite
  <2> HIDE DEF new
  <2> QED
    BY <2>1, <2>2, <2>3
<1> HIDE DEF new
<1>5. AllocGives(files, n, x, new)
  BY <1>2, <1>3, <1>4 DEF AllocGives
<1> QED
  BY <1>5 DEF new

LEMMA SysSocketStep ==
    ASSUME DescriptorsInv, NEW t \in Programs, SysSocket(t) PROVE DescriptorsInv'
<1>1. TypeOK
  BY InvParts
<1>2. /\ InUser(t) /\ nextSocket <= MaxSockets
      /\ sockets' = sockets \cup {nextSocket} /\ nextSocket' = nextSocket + 1
      /\ UNCHANGED <<status, pipes, nextPipe, call, wrote, sent, out>>
  BY DEF SysSocket, CreateTcpSocket
<1>s. nextSocket \in Socks
  BY <1>1, <1>2, DescriptorsAssumption DEF TypeOK, Socks
<1>o. /\ FreeFrom(table[t], next_fd[t]) /\ Cardinality(Open(table[t])) <= MAX_FDS_PER_TASK
  BY OwnTable DEF FreeFrom
<1>3. \E files, n : /\ FreeFrom(files, n) /\ Cardinality(Open(files)) <= MAX_FDS_PER_TASK
                    /\ table' = [table EXCEPT ![t] = files]
                    /\ next_fd' = [next_fd EXCEPT ![t] = n]
                    /\ \A p, w : EndsIn(files, p, w) = EndsIn(table[t], p, w)
  <2>1. CASE HasRoom(table[t])
    <3> DEFINE new == WithFile(table[t], next_fd[t], Socket(nextSocket))
    <3>1. AllocFd(TableOf(t), Socket(nextSocket)) = [files |-> new, next |-> next_fd[t] + 1]
      BY <1>o, AllocFdIs DEF TableOf
    <3>2. SetTable(t, AllocFd(TableOf(t), Socket(nextSocket)))
      BY <2>1 DEF SysSocket
    <3>3. /\ next_fd[t] + 1 <= MaxFd /\ table' = [table EXCEPT ![t] = new]
          /\ next_fd' = [next_fd EXCEPT ![t] = next_fd[t] + 1]
      BY <3>1, <3>2 DEF SetTable
    <3>4. AllocGives(table[t], next_fd[t], Socket(nextSocket), new)
      BY <1>o, <1>s, <2>1, <3>3, FileKinds, AllocFdGives
    <3> HIDE DEF new
    <3>5. \A p, w : EndsIn(new, p, w) = EndsIn(table[t], p, w)
      <4> TAKE p, w
      <4>1. EndsIn(new, p, w) = EndsIn(table[t], p, w) + (IF Socket(nextSocket) = PipeEnd(p, w) THEN 1 ELSE 0)
        BY <3>4 DEF AllocGives
      <4>2. Socket(nextSocket) # PipeEnd(p, w)
        BY FileKinds
      <4>3. EndsIn(table[t], p, w) \in Nat
        BY EndsFinite
      <4> QED
        BY <4>1, <4>2, <4>3
    <3> QED
      BY <3>3, <3>4, <3>5 DEF AllocGives
  <2>2. CASE ~HasRoom(table[t])
    <3>1. UNCHANGED <<table, next_fd>>
      BY <2>2 DEF SysSocket
    <3>2. /\ table' = [table EXCEPT ![t] = table[t]]
          /\ next_fd' = [next_fd EXCEPT ![t] = next_fd[t]]
      BY <3>1, OwnTable
    <3> QED
      BY <1>o, <3>2
  <2> QED
    BY <2>1, <2>2
<1>4. PICK files, n : /\ FreeFrom(files, n) /\ Cardinality(Open(files)) <= MAX_FDS_PER_TASK
                      /\ table' = [table EXCEPT ![t] = files]
                      /\ next_fd' = [next_fd EXCEPT ![t] = n]
                      /\ \A p, w : EndsIn(files, p, w) = EndsIn(table[t], p, w)
  BY <1>3
<1>7. PipesKept /\ FreshPipes'
  <2>1. table' = Replaced(table, t, files)
    BY <1>4 DEF Replaced
  <2>2. \A p, w : EndsIn(files, p, w) = EndsIn(table[t], p, w)
    BY <1>4
  <2> QED
    BY <1>2, <2>1, <2>2, SameEnds
<1>8. nextPipe' \in 1..(MaxPipes + 1) /\ sockets' \subseteq Socks
      /\ nextSocket' \in 1..(MaxSockets + 1)
  BY <1>1, <1>2, <1>s, DescriptorsAssumption DEF TypeOK, Socks
<1>9. status' = [status EXCEPT ![t] = "alive"] /\ call' = [call EXCEPT ![t] = Idle]
  BY <1>2, OwnTable DEF InUser
<1>a. InUser(t) /\ UNCHANGED <<wrote, sent, out>>
  BY <1>2
<1>b. /\ files \in [Fds -> Files] /\ n \in Fds
      /\ \A fd \in Fds : fd >= n => files[fd] = NoFile
      /\ table' = [table EXCEPT ![t] = files] /\ next_fd' = [next_fd EXCEPT ![t] = n]
      /\ Cardinality(Open(files)) <= MAX_FDS_PER_TASK
  BY <1>4 DEF FreeFrom
<1> QED
  BY <1>7, <1>8, <1>9, <1>a, <1>b, TableStep

\* A pipe as pipe() registers it.
NewPipe == [live |-> TRUE, buf |-> <<>>, read_ends |-> 1, write_ends |-> 1]

\* pipe() uses up an id, for which a read ends and b write ends get a descriptor: one
\* of each when the pipe is registered, and no write end when it is not.
LEMMA NewPipeKept ==
    ASSUME DescriptorsInv, nextPipe \in Pipes, nextPipe' = nextPipe + 1,
           UNCHANGED <<sent, out>>, NEW a \in Nat, NEW b \in Nat,
           \/ pipes' = pipes /\ b = 0
           \/ pipes' = [pipes EXCEPT ![nextPipe] = NewPipe] /\ a = 1 /\ b = 1,
           \A p \in Pipes : p # nextPipe => /\ Count(table', p, FALSE) = Count(table, p, FALSE)
                                           /\ Count(table', p, TRUE) = Count(table, p, TRUE),
           Count(table', nextPipe, FALSE) = Count(table, nextPipe, FALSE) + a,
           Count(table', nextPipe, TRUE) = Count(table, nextPipe, TRUE) + b
    PROVE  PipesKept /\ FreshPipes'
<1>1. /\ TypeOK /\ StreamIntact /\ CountsOK /\ FreshPipes
      /\ pipes \in [Pipes -> PipeRecords] /\ nextPipe \in Nat
  BY InvParts DEF TypeOK
<1> PICK id \in Pipes : id = nextPipe
  OBVIOUS
<1>n. /\ NewPipe \in PipeRecords /\ NewPipe.live /\ NewPipe.buf = <<>>
      /\ NewPipe.read_ends = 1 /\ NewPipe.write_ends = 1
  <2>1. <<>> \in Seq(Bytes)
    BY EmptySeq
  <2>2. TRUE \in BOOLEAN
    OBVIOUS
  <2> QED
    BY <2>1, <2>2 DEF NewPipe, PipeRecords
<1>2. pipes[id] = NoPipe /\ sent[id] = <<>> /\ out[id] = <<>> /\ Count(table, id, FALSE) = 0
  <2>1. id >= nextPipe
    BY <1>1
  <2> QED
    BY <1>1, <2>1, Zenon DEF FreshPipes
<1>3. CountedBy(pipes[id], Count(table, id, FALSE), Count(table, id, TRUE))
  BY <1>1, Zenon DEF CountsOK
<1>4. Count(table, id, TRUE) = 0
  BY <1>2, <1>3, NoPipeIs, Zenon DEF CountedBy
<1>5. Count(table', id, FALSE) = a /\ Count(table', id, TRUE) = b
  <2>1. 0 + a = a /\ 0 + b = b
    OBVIOUS
  <2> QED
    BY <1>2, <1>4, <2>1, Zenon
<1>6. CountedBy(pipes'[id], a, b) /\ pipes' \in [Pipes -> PipeRecords]
      /\ (pipes'[id] = NoPipe \/ pipes'[id] = NewPipe)
  <2>1. CASE pipes' = pipes /\ b = 0
    BY <1>1, <1>2, <2>1, NoPipeIs DEF CountedBy
  <2>2. CASE pipes' = [pipes EXCEPT ![id] = NewPipe] /\ a = 1 /\ b = 1
    BY <1>1, <1>n, <2>2 DEF CountedBy
  <2> QED
    BY <2>1, <2>2
<1>7. \A p \in Pipes : p # id => pipes'[p] = pipes[p]
  BY <1>1
<1>8. CountsOK'
  <2> SUFFICES ASSUME NEW p \in Pipes
               PROVE  CountedBy(pipes'[p], Count(table', p, FALSE), Count(table', p, TRUE))
    BY DEF CountsOK
  <2>1. CASE p = id
    BY <1>5, <1>6, <2>1, Zenon
  <2>2. CASE p # id
    BY <1>1, <1>7, <2>2, Zenon DEF CountsOK
  <2> QED
    BY <2>1, <2>2
<1>9. ASSUME NEW p \in Pipes
      PROVE  /\ Len(pipes'[p].buf) <= PIPE_CAPACITY
             /\ pipes'[p].live => sent[p] = out[p] \o pipes'[p].buf
             /\ pipes[p].live => pipes'[p].live
  <2>1. CASE p = id
    <3>1. pipes'[p].buf = <<>> /\ ~pipes[p].live
      BY <1>2, <1>6, <1>n, <2>1, NoPipeIs, Zenon
    <3>2. Len(<<>>) = 0 /\ <<>> = <<>> \o <<>>
      OBVIOUS
    <3> QED
      BY <1>2, <2>1, <3>1, <3>2, DescriptorsAssumption
  <2>2. CASE p # id
    BY <1>1, <1>7, <2>2 DEF TypeOK, StreamIntact
  <2> QED
    BY <2>1, <2>2
<1>a. PipesKept
  BY <1>6, <1>8, <1>9, Zenon DEF PipesKept
<1>b. FreshPipes'
  <2> SUFFICES ASSUME NEW p \in Pipes, p >= nextPipe'
               PROVE  /\ pipes'[p] = NoPipe /\ sent'[p] = <<>> /\ out'[p] = <<>>
                      /\ Count(table', p, FALSE) = 0
    BY DEF FreshPipes
  <2>1. p # id /\ p >= nextPipe
    BY <1>1, DescriptorsAssumption DEF Pipes
  <2>2. pipes[p] = NoPipe /\ sent[p] = <<>> /\ out[p] = <<>> /\ Count(table, p, FALSE) = 0
    BY <1>1, <2>1 DEF FreshPipes
  <2>3. Count(table', p, FALSE) = 0
    BY <2>1, <2>2, Zenon
  <2> QED
    BY <1>7, <2>1, <2>2, <2>3
<1> QED
  BY <1>a, <1>b

LEMMA SysPipeStep ==
    ASSUME DescriptorsInv, NEW t \in Programs, SysPipe(t) PROVE DescriptorsInv'
<1> DEFINE id  == nextPipe
           n   == next_fd[t]
           tab == TableOf(t)
           rd  == AllocFd(tab, PipeEnd(id, FALSE))
           f1  == WithFile(table[t], n, PipeEnd(id, FALSE))
           f2  == WithFile(f1, n + 1, PipeEnd(id, TRUE))
           full == ~HasRoom(table[t])
<1>1. /\ TypeOK /\ StreamIntact /\ CountsOK /\ FreshPipes
      /\ pipes \in [Pipes -> PipeRecords]
  BY InvParts
<1>2. /\ InUser(t) /\ id <= MaxPipes /\ nextPipe' = id + 1
      /\ UNCHANGED <<status, sockets, nextSocket, call, wrote, sent, out>>
  BY DEF SysPipe, NewPipeId, socketVars
<1>i. id \in Pipes /\ id \in Nat /\ nextPipe' \in 1..(MaxPipes + 1)
  BY <1>1, <1>2, DescriptorsAssumption DEF TypeOK, Pipes
<1>e. PipeEnd(id, FALSE) \in Files /\ PipeEnd(id, TRUE) \in Files
  BY <1>i, FileKinds, Zenon
<1>o. /\ FreeFrom(table[t], n) /\ Cardinality(Open(table[t])) <= MAX_FDS_PER_TASK
      /\ n \in Nat
  BY OwnTable, DescriptorsAssumption DEF FreeFrom, Fds
<1>r. rd = [files |-> f1, next |-> n + 1]
  BY <1>o, AllocFdIs DEF TableOf
<1>f. tab.files = table[t] /\ tab.next = n
  BY DEF TableOf
<1>q. /\ SetTable(t, CASE full -> tab
                       [] (full \/ ~HasRoom(rd.files)) /\ ~full -> rd
                       [] OTHER -> AllocFd(rd, PipeEnd(id, TRUE)))
      /\ pipes' = IF full \/ ~HasRoom(rd.files) THEN pipes
                  ELSE [pipes EXCEPT ![id] = [live |-> TRUE, buf |-> <<>>,
                                              read_ends |-> 1, write_ends |-> 1]]
  BY <1>f DEF SysPipe, NewPipeId
<1>8. sockets' \subseteq Socks /\ nextSocket' \in 1..(MaxSockets + 1)
  BY <1>1, <1>2 DEF TypeOK
<1>9. status' = [status EXCEPT ![t] = "alive"] /\ call' = [call EXCEPT ![t] = Idle]
  BY <1>2, OwnTable DEF InUser
<1>a. InUser(t) /\ UNCHANGED <<wrote, sent, out>>
  BY <1>2
<1>s. ASSUME NEW files, NEW k, FreeFrom(files, k), Cardinality(Open(files)) <= MAX_FDS_PER_TASK,
             table' = [table EXCEPT ![t] = files], next_fd' = [next_fd EXCEPT ![t] = k],
             PipesKept, FreshPipes'
      PROVE  DescriptorsInv'
  <2>1. /\ files \in [Fds -> Files] /\ k \in Fds
        /\ \A fd \in Fds : fd >= k => files[fd] = NoFile
    BY <1>s DEF FreeFrom
  <2> QED
    BY <1>i, <1>8, <1>9, <1>a, <1>s, <2>1, TableStep
<1>k. \A p, v, w : PipeEnd(id, v) = PipeEnd(p, w) <=> p = id /\ v = w
  BY FileKinds, ZenonT(60)
<1> HIDE DEF f1, f2, rd, tab, full, n
<1>rf. rd.files = f1 /\ rd.next = n + 1
  BY <1>r
<1>3. CASE full
  <2>1. SetTable(t, tab) /\ pipes' = pipes
    BY <1>q, <1>3, Zenon
  <2>2. table' = [table EXCEPT ![t] = table[t]] /\ next_fd' = [next_fd EXCEPT ![t] = n]
    BY <1>f, <2>1 DEF SetTable
  <2>3. table' = table
    BY <2>2, OwnTable
  <2>4. PipesKept /\ FreshPipes'
    <3>1. \A p, w : /\ Count(table', p, w) = Count(table, p, w)
                    /\ Count(table', p, w) = Count(table, p, w) + 0
      BY <2>3, HoldersFinite
    <3>2. /\ Count(table', id, FALSE) = Count(table, id, FALSE) + 0
          /\ Count(table', id, TRUE) = Count(table, id, TRUE) + 0
      BY <3>1, Zenon
    <3> QED
      BY <1>2, <1>i, <2>1, <3>1, <3>2, NewPipeKept
  <2> QED
    BY <1>o, <1>s, <2>2, <2>4
<1>4. CASE ~full /\ ~HasRoom(f1)
  <2>1. SetTable(t, rd) /\ pipes' = pipes
    BY <1>q, <1>rf, <1>4, Zenon
  <2>2. /\ n + 1 <= MaxFd /\ table' = [table EXCEPT ![t] = f1]
        /\ next_fd' = [next_fd EXCEPT ![t] = n + 1]
    BY <1>rf, <2>1 DEF SetTable
  <2>3. AllocGives(table[t], n, PipeEnd(id, FALSE), f1)
    BY <1>o, <1>e, <1>4, <2>2, AllocFdGives DEF f1, full
  <2>4. PipesKept /\ FreshPipes'
    <3>1. \A p, w : Count(table', p, w)
                      = Count(table, p, w) + (IF PipeEnd(id, FALSE) = PipeEnd(p, w) THEN 1 ELSE 0)
      <4> TAKE p, w
      <4> DEFINE d == IF PipeEnd(id, FALSE) = PipeEnd(p, w) THEN 1 ELSE 0
      <4>1. EndsIn(f1, p, w) = EndsIn(table[t], p, w) + d
        BY <2>3 DEF AllocGives
      <4>2. table' = Replaced(table, t, f1)
        BY <2>2 DEF Replaced
      <4>3. Count(table', p, w) + EndsIn(table[t], p, w) = Count(table, p, w) + EndsIn(f1, p, w)
        BY <4>2, CountChange
      <4>4. /\ Count(table', p, w) \in Nat /\ Count(table, p, w) \in Nat
            /\ EndsIn(table[t], p, w) \in Nat /\ d \in Nat
        BY EndsFinite, HoldersFinite
      <4> HIDE DEF d
      <4>5. Count(table', p, w) = Count(table, p, w) + d
        BY <4>1, <4>3, <4>4
      <4> QED
        BY <4>5 DEF d
    <3>2. \A p, w : Count(table, p, w) + 0 = Count(table, p, w)
      BY HoldersFinite
    <3>3. /\ Count(table', id, FALSE) = Count(table, id, FALSE) + 1
          /\ Count(table', id, TRUE) = Count(table, id, TRUE) + 0
          /\ \A p : p # id => /\ Count(table', p, FALSE) = Count(table, p, FALSE)
                              /\ Count(table', p, TRUE) = Count(table, p, TRUE)
      <4>1. \A p, w : /\ p = id /\ w = FALSE => Count(table', p, w) = Count(table, p, w) + 1
                      /\ ~(p = id /\ w = FALSE) => Count(table', p, w) = Count(table, p, w)
        <5> TAKE p, w
        <5>1. CASE p = id /\ w = FALSE
          <6>1. PipeEnd(id, FALSE) = PipeEnd(p, w)
            BY <5>1, Zenon
          <6> QED
            BY <3>1, <5>1, <6>1, Zenon
        <5>2. CASE ~(p = id /\ w = FALSE)
          <6>1. PipeEnd(id, FALSE) # PipeEnd(p, w)
            BY <1>k, <5>2, ZenonT(60)
          <6>2. Count(table', p, w) = Count(table, p, w) + 0
            BY <3>1, <6>1, Zenon
          <6> QED
            BY <3>2, <5>2, <6>2, Zenon
        <5> QED
          BY <5>1, <5>2, Zenon
      <4> QED
        BY <3>2, <4>1, Zenon
    <3> QED
      BY <1>2, <1>i, <2>1, <3>3, NewPipeKept
  <2> QED
    BY <1>s, <2>2, <2>3, <2>4 DEF AllocGives
<1>5. CASE ~full /\ HasRoom(f1)
  <2>1. /\ SetTable(t, AllocFd(rd, PipeEnd(id, TRUE)))
        /\ pipes' = [pipes EXCEPT ![id] = NewPipe]
    BY <1>q, <1>rf, <1>5, Zenon DEF NewPipe
  <2>2. n + 1 <= MaxFd
    <3>1. full \/ rd.next <= MaxFd
      BY <1>f DEF SysPipe, NewPipeId, rd, tab, full
    <3> QED
      BY <1>5, <1>rf, <3>1
  <2>3. AllocGives(table[t], n, PipeEnd(id, FALSE), f1)
    BY <1>o, <1>e, <1>5, <2>2, AllocFdGives DEF f1, full
  <2>4. FreeFrom(f1, n + 1)
    BY <2>3 DEF AllocGives
  <2>5. AllocFd(rd, PipeEnd(id, TRUE)) = [files |-> f2, next |-> (n + 1) + 1]
    BY <1>r, <2>4, AllocFdIs DEF f2
  <2>6. /\ (n + 1) + 1 <= MaxFd /\ table' = [table EXCEPT ![t] = f2]
        /\ next_fd' = [next_fd EXCEPT ![t] = (n + 1) + 1]
    <3> PICK new : new = AllocFd(rd, PipeEnd(id, TRUE))
      OBVIOUS
    <3>a. new = [files |-> f2, next |-> (n + 1) + 1]
      BY <2>5, Zenon
    <3>1. new.files = f2 /\ new.next = (n + 1) + 1
      BY <3>a, TableFields, ZenonT(60)
    <3>2. SetTable(t, new)
      BY <2>1
    <3> QED
      BY <3>1, <3>2, Zenon DEF SetTable
  <2>7. AllocGives(f1, n + 1, PipeEnd(id, TRUE), f2)
    BY <1>e, <1>5, <2>4, <2>6, AllocFdGives DEF f2
  <2>8. PipesKept /\ FreshPipes'
    <3>1. \A p, w : Count(table', p, w)
                      = Count(table, p, w) + (IF PipeEnd(id, FALSE) = PipeEnd(p, w) THEN 1 ELSE 0)
                                           + (IF PipeEnd(id, TRUE) = PipeEnd(p, w) THEN 1 ELSE 0)
      <4> TAKE p, w
      <4> DEFINE d == IF PipeEnd(id, FALSE) = PipeEnd(p, w) THEN 1 ELSE 0
                 e == IF PipeEnd(id, TRUE) = PipeEnd(p, w) THEN 1 ELSE 0
      <4>1. EndsIn(f1, p, w) = EndsIn(table[t], p, w) + d
        BY <2>3 DEF AllocGives
      <4>2. EndsIn(f2, p, w) = EndsIn(f1, p, w) + e
        BY <2>7 DEF AllocGives
      <4>3. table' = Replaced(table, t, f2)
        BY <2>6 DEF Replaced
      <4>4. Count(table', p, w) + EndsIn(table[t], p, w) = Count(table, p, w) + EndsIn(f2, p, w)
        BY <4>3, CountChange
      <4>5. /\ Count(table', p, w) \in Nat /\ Count(table, p, w) \in Nat
            /\ EndsIn(table[t], p, w) \in Nat /\ d \in Nat /\ e \in Nat
        BY EndsFinite, HoldersFinite
      <4> HIDE DEF d, e
      <4>6. Count(table', p, w) = Count(table, p, w) + d + e
        BY <4>1, <4>2, <4>4, <4>5
      <4> QED
        BY <4>6 DEF d, e
    <3>2. \A p, w : /\ Count(table, p, w) + 0 = Count(table, p, w)
                    /\ Count(table, p, w) + 1 + 0 = Count(table, p, w) + 1
      BY HoldersFinite
    <3>3. /\ Count(table', id, FALSE) = Count(table, id, FALSE) + 1
          /\ Count(table', id, TRUE) = Count(table, id, TRUE) + 1
          /\ \A p : p # id => /\ Count(table', p, FALSE) = Count(table, p, FALSE)
                              /\ Count(table', p, TRUE) = Count(table, p, TRUE)
      <4>1. \A p, w : p # id => Count(table', p, w) = Count(table, p, w)
        <5> SUFFICES ASSUME NEW p, NEW w, p # id
                     PROVE  Count(table', p, w) = Count(table, p, w)
          OBVIOUS
        <5>1. PipeEnd(id, FALSE) # PipeEnd(p, w) /\ PipeEnd(id, TRUE) # PipeEnd(p, w)
          BY <1>k, Zenon
        <5>2. Count(table', p, w) = Count(table, p, w) + 0 + 0
          BY <3>1, <5>1, Zenon
        <5> QED
          BY <3>2, <5>2, Zenon
      <4>2. \A w \in BOOLEAN : Count(table', id, w) = Count(table, id, w) + 1
        <5> TAKE w \in BOOLEAN
        <5>1. CASE w = FALSE
          BY <1>k, <3>1, <3>2, <5>1, Zenon
        <5>2. CASE w = TRUE
          BY <1>k, <3>1, <3>2, <5>2, Zenon
        <5> QED
          BY <5>1, <5>2
      <4> QED
        BY <4>1, <4>2, Zenon
    <3> QED
      BY <1>2, <1>i, <2>1, <3>3, NewPipeKept
  <2> QED
    BY <1>s, <2>6, <2>7, <2>8 DEF AllocGives
<1> QED
  BY <1>3, <1>4, <1>5

-----------------------------------------------------------------------------
(* Rounds of reads and writes *)

\* What a round does to pipe q: only its buffer changes, and only if it is live.
RoundKeeps(q, q2) ==
    /\ q2 \in PipeRecords /\ Len(q2.buf) <= PIPE_CAPACITY
    /\ (q2.live <=> q.live) /\ q2.read_ends = q.read_ends /\ q2.write_ends = q.write_ends
    /\ ~q.live => q2 = q

\* A call is consistent: only a waiting write has written something, and one that
\* waits holds an end of a pipe that is there.
CallOK(t, c) ==
    /\ c \in [kind : {"idle", "read", "write"}, id : 0..MaxPipes, len : Nat, done : Nat]
    /\ c.kind # "write" => c.done = 0
    /\ c.kind = "write" => c.done < c.len
    /\ c.kind # "idle" => /\ c.id \in Pipes /\ pipes[c.id].live
                          /\ \E fd \in Fds : table[t][fd] = PipeEnd(c.id, c.kind = "write")

Increasing(s) == \A j, k \in DOMAIN s : j < k /\ s[j][1] = s[k][1] => s[j][2] < s[k][2]

LEMMA CallStep ==
    ASSUME DescriptorsInv, NEW t \in Programs, NEW c, CallOK(t, c), status[t] = "alive",
           call' = [call EXCEPT ![t] = c],
           UNCHANGED <<status, table, next_fd, nextPipe, sockets, nextSocket>>,
           pipes' \in [Pipes -> PipeRecords],
           \A p \in Pipes : RoundKeeps(pipes[p], pipes'[p]),
           \A p \in Pipes : pipes'[p].live => sent'[p] = out'[p] \o pipes'[p].buf,
           \A p \in Pipes : ~pipes[p].live => sent'[p] = sent[p] /\ out'[p] = out[p],
           \A p \in Pipes : Increasing(sent'[p]),
           sent' \in [Pipes -> Seq(Bytes)], out' \in [Pipes -> Seq(Bytes)],
           wrote' \in [Programs -> Nat],
           \A u \in Programs : u # t => SentBy(u)' = SentBy(u) /\ wrote'[u] = wrote[u],
           SentBy(t)' = 1..(wrote'[t] + c.done)
    PROVE  DescriptorsInv'
<1>1. /\ TypeOK /\ TablesInv /\ CallsInv /\ CallHoldsEnd /\ StreamIntact
      /\ CountsOK /\ FreshPipes /\ pipes \in [Pipes -> PipeRecords]
  BY InvParts
<1>t. /\ call'[t] = c /\ \A u \in Programs : u # t => call'[u] = call[u]
  BY <1>1 DEF TypeOK
<1>2. TypeOK'
  <2>1. call' \in [Programs -> [kind : {"idle", "read", "write"}, id : 0..MaxPipes,
                                len : Nat, done : Nat]]
    BY <1>1 DEF TypeOK, CallOK
  <2>2. \A p \in Pipes : Len(pipes'[p].buf) <= PIPE_CAPACITY
    BY DEF RoundKeeps
  <2> QED
    BY <1>1, <2>1, <2>2 DEF TypeOK, PipeRecords
<1>3. TablesInv'
  BY <1>1, <1>t DEF TablesInv
<1>4. CallsInv'
  BY <1>1, <1>t DEF CallsInv, CallOK
<1>5. CallHoldsEnd'
  <2> SUFFICES ASSUME NEW u \in Programs, call'[u].kind # "idle"
               PROVE  /\ status'[u] = "alive"
                      /\ call'[u].id \in Pipes
                      /\ pipes'[call'[u].id].live
                      /\ \E fd \in Fds : table'[u][fd] = PipeEnd(call'[u].id, call'[u].kind = "write")
    BY DEF CallHoldsEnd
  <2>1. /\ status[u] = "alive" /\ call'[u].id \in Pipes /\ pipes[call'[u].id].live
        /\ \E fd \in Fds : table[u][fd] = PipeEnd(call'[u].id, call'[u].kind = "write")
    <3>1. CASE u = t
      BY <1>t, <3>1, Zenon DEF CallOK
    <3>2. CASE u # t
      BY <1>1, <1>t, <3>2 DEF CallHoldsEnd
    <3> QED
      BY <3>1, <3>2
  <2>2. pipes'[call'[u].id].live
    BY <2>1 DEF RoundKeeps
  <2> QED
    BY <2>1, <2>2
<1>6. CountsOK'
  <2> SUFFICES ASSUME NEW p \in Pipes
               PROVE  CountedBy(pipes'[p], Count(table', p, FALSE), Count(table', p, TRUE))
    BY DEF CountsOK
  <2> PICK r, w : r = Count(table, p, FALSE) /\ w = Count(table, p, TRUE)
    OBVIOUS
  <2>1. CountedBy(pipes[p], r, w)
    BY <1>1, Zenon DEF CountsOK
  <2>2. RoundKeeps(pipes[p], pipes'[p])
    OBVIOUS
  <2>3. CountedBy(pipes'[p], r, w)
    BY <2>1, <2>2 DEF CountedBy, RoundKeeps
  <2> QED
    BY <2>3, Zenon
<1>7. FreshPipes'
  <2> SUFFICES ASSUME NEW p \in Pipes, p >= nextPipe
               PROVE  /\ pipes'[p] = NoPipe /\ sent'[p] = <<>> /\ out'[p] = <<>>
                      /\ Count(table', p, FALSE) = 0
    BY DEF FreshPipes
  <2>1. pipes[p] = NoPipe /\ sent[p] = <<>> /\ out[p] = <<>> /\ Count(table, p, FALSE) = 0
    BY <1>1 DEF FreshPipes
  <2>2. Count(table', p, FALSE) = 0
    BY <2>1, Zenon
  <2> QED
    BY <2>1, <2>2, NoPipeIs DEF RoundKeeps
<1>8. StreamIntact'
  <2>1. ASSUME NEW u \in Programs, status'[u] = "alive"
        PROVE  SentBy(u)' = 1..(wrote'[u] + call'[u].done)
    <3>1. CASE u # t
      BY <1>1, <1>t, <2>1, <3>1 DEF StreamIntact
    <3>2. CASE u = t
      BY <1>t, <3>2
    <3> QED
      BY <3>1, <3>2
  <2> QED
    BY <2>1 DEF StreamIntact, Increasing
<1> QED
  BY <1>2, <1>3, <1>4, <1>5, <1>6, <1>7, <1>8, CountsWillBe DEF DescriptorsInv

\* A program that is not in a call, or starts one.
LEMMA IdleOK ==
    /\ \A t : CallOK(t, Idle)
    /\ Idle.done = 0 /\ Idle.kind = "idle"
BY DescriptorsAssumption DEF CallOK, Idle

\* \o under a name, so that its associativity is a fact about a symbol.
Cat(x, y) == x \o y

LEMMA Associative ==
    ASSUME NEW S, NEW x \in Seq(S), NEW y \in Seq(S), NEW z \in Seq(S)
    PROVE  Cat(Cat(x, y), z) = Cat(x, Cat(y, z))
<1>1. PICK xy \in Seq(S), yz \in Seq(S) : xy = x \o y /\ yz = y \o z
  BY ConcatProperties
<1>2. PICK a \in Seq(S), b \in Seq(S) : a = xy \o z /\ b = x \o yz
  BY <1>1, ConcatProperties
<1>3. a = b
  BY <1>1, <1>2
<1> QED
  BY <1>1, <1>2, <1>3, Zenon DEF Cat

\* s is a followed by b, and b has k elements.
Splits(S, s, a, b, k) ==
    /\ a \in Seq(S) /\ b \in Seq(S) /\ s = a \o b /\ Len(b) = k
    /\ s = <<>> => a = <<>> /\ b = <<>>

\* A buffer is what a read takes followed by what it leaves.
LEMMA SplitAt ==
    ASSUME NEW S, NEW s \in Seq(S), NEW n \in 0..Len(s)
    PROVE  Splits(S, s, SubSeq(s, 1, n), SubSeq(s, n + 1, Len(s)), Len(s) - n)
<1>1. Len(s) \in Nat /\ n \in Nat /\ n <= Len(s) /\ \A i \in 1..Len(s) : s[i] \in S
  BY LenProperties
<1>2. SubSeq(s, 1, n) \in Seq(S)
  BY <1>1, SubSeqProperties
<1>3. /\ SubSeq(s, n + 1, Len(s)) \in Seq(S)
      /\ Len(SubSeq(s, n + 1, Len(s))) = Len(s) - n
  <2>1. \A i \in (n + 1)..Len(s) : s[i] \in S
    BY <1>1
  <2>2. /\ SubSeq(s, n + 1, Len(s)) \in Seq(S)
        /\ Len(SubSeq(s, n + 1, Len(s))) = IF n + 1 <= Len(s) THEN Len(s) - (n + 1) + 1 ELSE 0
    BY <1>1, <2>1, SubSeqProperties
  <2> QED
    BY <1>1, <2>2
<1>4. s = SubSeq(s, 1, n) \o SubSeq(s, n + 1, Len(s))
  <2>1. SubSeq(s, 1, n) \o SubSeq(s, n + 1, Len(s)) = SubSeq(s, 1, Len(s))
    <3>1. 1 \in 1..Len(s)+1 /\ n \in (1 - 1)..Len(s) /\ Len(s) \in n..Len(s)
      BY <1>1
    <3> QED
      BY <3>1, ConcatAdjacentSubSeq
  <2> QED
    BY <2>1, SubSeqFull
<1>5. ASSUME s = <<>> PROVE SubSeq(s, 1, n) = <<>> /\ SubSeq(s, n + 1, Len(s)) = <<>>
  <2>1. Len(s) = 0 /\ n = 0
    BY <1>1, <1>5
  <2> QED
    BY <1>1, <2>1, SubSeqEmpty
<1> QED
  BY <1>2, <1>3, <1>4, <1>5, Zenon DEF Splits

\* One round of a read by a program that holds the read end.
LEMMA ReadRoundStep ==
    ASSUME DescriptorsInv, NEW t \in Programs, NEW p \in Pipes, NEW len \in Nat,
           status[t] = "alive", call[t].done = 0,
           NEW fd \in Fds, table[t][fd] = PipeEnd(p, FALSE), ReadRound(t, p, len)
    PROVE  DescriptorsInv'
<1>1. /\ TypeOK /\ StreamIntact /\ CountsOK /\ pipes \in [Pipes -> PipeRecords]
  BY InvParts
<1>2. UNCHANGED <<status, table, next_fd, nextPipe, sockets, nextSocket, wrote, sent>>
  BY DEF ReadRound, fdVars, socketVars
<1>t. /\ sent' \in [Pipes -> Seq(Bytes)] /\ wrote' \in [Programs -> Nat]
      /\ \A q \in Pipes : Increasing(sent'[q])
      /\ \A u \in Programs : SentBy(u)' = SentBy(u) /\ wrote'[u] = wrote[u]
  <2>1. \A u \in Programs : SentBy(u)' = SentBy(u)
    BY <1>2 DEF SentBy
  <2> QED
    BY <1>1, <1>2, <2>1 DEF TypeOK, StreamIntact, Increasing
<1>s. \A c : c.done = 0 => SentBy(t)' = 1..(wrote'[t] + c.done)
  BY <1>1, <1>t DEF StreamIntact
<1>c. pipes[p] = NoPipe \/ pipes[p].live
  BY <1>1 DEF CountsOK, CountedBy
<1>b. /\ pipes[p] \in PipeRecords /\ pipes[p].buf \in Seq(Bytes)
      /\ Len(pipes[p].buf) \in Nat /\ Len(pipes[p].buf) <= PIPE_CAPACITY
      /\ out[p] \in Seq(Bytes)
  BY <1>1 DEF TypeOK, PipeRecords
<1>k. \A q \in Pipes : pipes'[q] = pipes[q] => RoundKeeps(pipes[q], pipes'[q])
  BY <1>1 DEF RoundKeeps, TypeOK
<1>3. CASE PipeEmpty(p)
  <2> DEFINE c == [kind |-> "read", id |-> p, len |-> len, done |-> 0]
  <2>1. call' = [call EXCEPT ![t] = c] /\ UNCHANGED <<pipes, out>>
    BY <1>3 DEF ReadRound
  <2>2. CallOK(t, c) /\ c.done = 0
    <3>1. PipeEnd(p, FALSE) = PipeEnd(c.id, c.kind = "write")
      <4>1. FALSE = (c.kind = "write") /\ p = c.id
        OBVIOUS
      <4> QED
        BY <4>1, Zenon
    <3>2. \E g \in Fds : table[t][g] = PipeEnd(c.id, c.kind = "write")
      BY <3>1, Zenon
    <3>3. /\ c \in [kind : {"idle", "read", "write"}, id : 0..MaxPipes, len : Nat, done : Nat]
          /\ c.kind = "read" /\ c.done = 0 /\ c.id \in Pipes /\ pipes[c.id].live
      BY <1>3, DescriptorsAssumption DEF Pipes, PipeEmpty
    <3> HIDE DEF c
    <3> QED
      BY <3>2, <3>3, Zenon DEF CallOK
  <2> HIDE DEF c
  <2>3. /\ pipes' \in [Pipes -> PipeRecords] /\ out' \in [Pipes -> Seq(Bytes)]
        /\ \A q \in Pipes : pipes'[q].live => sent'[q] = out'[q] \o pipes'[q].buf
        /\ \A q \in Pipes : ~pipes[q].live => sent'[q] = sent[q] /\ out'[q] = out[q]
        /\ \A q \in Pipes : RoundKeeps(pipes[q], pipes'[q])
    BY <1>1, <1>2, <1>k, <2>1 DEF TypeOK, StreamIntact
  <2> QED
    BY <1>2, <1>t, <1>s, <2>1, <2>2, <2>3, CallStep
<1>4. CASE ~PipeEmpty(p)
  <2> DEFINE n == IF Len(pipes[p].buf) < len THEN Len(pipes[p].buf) ELSE len
             taken == SubSeq(pipes[p].buf, 1, n)
             left == SubSeq(pipes[p].buf, n + 1, Len(pipes[p].buf))
  <2>1. /\ pipes' = [pipes EXCEPT ![p].buf = left]
        /\ out' = [out EXCEPT ![p] = out[p] \o taken]
        /\ call' = [call EXCEPT ![t] = Idle]
    BY <1>4 DEF ReadRound, ReadReturns
  <2>n. n \in 0..Len(pipes[p].buf)
    BY <1>b
  <2>2. /\ taken \in Seq(Bytes) /\ left \in Seq(Bytes) /\ pipes[p].buf = taken \o left
        /\ Len(left) <= PIPE_CAPACITY
        /\ pipes[p].buf = <<>> => left = <<>> /\ taken = <<>>
    <3> PICK b \in Seq(Bytes) : b = pipes[p].buf
      BY <1>b
    <3> PICK m \in 0..Len(b) : m = n
      BY <2>n, Zenon
    <3>1. Splits(Bytes, b, SubSeq(b, 1, m), SubSeq(b, m + 1, Len(b)), Len(b) - m)
      BY SplitAt
    <3>2. taken = SubSeq(b, 1, m) /\ left = SubSeq(b, m + 1, Len(b))
      BY Zenon
    <3> HIDE DEF taken, left, n
    <3>3. Len(b) - m <= PIPE_CAPACITY
      <4>1. Len(b) \in Nat /\ Len(b) <= PIPE_CAPACITY /\ PIPE_CAPACITY \in Nat
        BY <1>b, DescriptorsAssumption, Zenon
      <4>2. \A x, y \in Nat : \A z \in 0..x : x <= y => x - z <= y
        OBVIOUS
      <4> QED BY <4>1, <4>2, Zenon
    <3> QED
      BY <3>1, <3>2, <3>3, Zenon DEF Splits
  <2> HIDE DEF taken, left, n
  <2>3. pipes'[p] = [pipes[p] EXCEPT !.buf = left] /\ \A q \in Pipes : q # p => pipes'[q] = pipes[q]
    BY <1>1, <2>1
  <2>o. out'[p] = out[p] \o taken /\ \A q \in Pipes : q # p => out'[q] = out[q]
    BY <1>1, <2>1 DEF TypeOK
  <2>r. /\ pipes'[p] \in PipeRecords /\ pipes'[p].buf = left
        /\ (pipes'[p].live <=> pipes[p].live)
        /\ pipes'[p].read_ends = pipes[p].read_ends /\ pipes'[p].write_ends = pipes[p].write_ends
    BY <1>b, <2>2, <2>3 DEF PipeRecords
  <2>e. ~pipes[p].live => pipes'[p] = pipes[p] /\ out'[p] = out[p]
    <3> SUFFICES ASSUME ~pipes[p].live PROVE pipes'[p] = pipes[p] /\ out'[p] = out[p]
      OBVIOUS
    <3>1. pipes[p].buf = <<>>
      BY <1>c, NoPipeIs
    <3>2. left = <<>> /\ taken = <<>>
      BY <2>2, <3>1
    <3>3. [pipes[p] EXCEPT !.buf = <<>>] = pipes[p]
      BY <1>b, <3>1 DEF PipeRecords
    <3>4. out[p] \o <<>> = out[p]
      BY <1>b, ConcatEmptySeq
    <3> QED
      BY <2>3, <2>o, <3>2, <3>3, <3>4
  <2>4. /\ pipes' \in [Pipes -> PipeRecords] /\ out' \in [Pipes -> Seq(Bytes)]
    <3>1. out[p] \o taken \in Seq(Bytes)
      BY <1>b, <2>2, ConcatProperties
    <3>2. out' \in [Pipes -> Seq(Bytes)]
      BY <1>1, <2>1, <3>1 DEF TypeOK
    <3>3. pipes' = [pipes EXCEPT ![p] = pipes'[p]]
      BY <1>1, <2>1
    <3> QED
      BY <1>1, <2>r, <3>2, <3>3
  <2>5. \A q \in Pipes : RoundKeeps(pipes[q], pipes'[q])
    <3>1. RoundKeeps(pipes[p], pipes'[p])
      BY <2>2, <2>r, <2>e, Zenon DEF RoundKeeps
    <3> QED
      BY <1>k, <2>3, <3>1
  <2>6. \A q \in Pipes : pipes'[q].live => sent'[q] = out'[q] \o pipes'[q].buf
    <3> SUFFICES ASSUME NEW q \in Pipes, pipes'[q].live
                 PROVE  sent'[q] = out'[q] \o pipes'[q].buf
      OBVIOUS
    <3>1. CASE q # p
      BY <1>1, <1>2, <2>3, <2>o, <3>1 DEF StreamIntact
    <3>2. CASE q = p
      <4>1. sent[p] = out[p] \o pipes[p].buf
        BY <1>1, <2>r, <3>2 DEF StreamIntact
      <4>a. Cat(Cat(out[p], taken), left) = Cat(out[p], Cat(taken, left))
        BY <1>b, <2>2, Associative
      <4>2. (out[p] \o taken) \o left = out[p] \o (taken \o left)
        BY <4>a, Zenon DEF Cat
      <4> QED
        BY <1>2, <2>2, <2>o, <2>r, <3>2, <4>1, <4>2, Zenon
    <3> QED
      BY <3>1, <3>2
  <2>7. \A q \in Pipes : ~pipes[q].live => sent'[q] = sent[q] /\ out'[q] = out[q]
    BY <1>2, <2>o, <2>e
  <2> QED
    BY <1>2, <1>t, <1>s, <2>1, <2>4, <2>5, <2>6, <2>7, IdleOK, CallStep
<1> QED
  BY <1>3, <1>4

\* The bytes of a round of a write.
LEMMA ChunkIs ==
    ASSUME TypeOK, NEW t \in Programs, NEW done \in Nat, NEW n \in Nat
    PROVE  /\ Chunk(t, done, n) \in Seq(Bytes) /\ Len(Chunk(t, done, n)) = n
           /\ \A k \in 1..n : Chunk(t, done, n)[k] = <<t, wrote[t] + done + k>>
<1>1. wrote[t] \in Nat
  BY DEF TypeOK
<1>2. \A k \in 1..n : <<t, wrote[t] + done + k>> \in Bytes
  BY <1>1 DEF Bytes
<1>3. Chunk(t, done, n) \in [1..n -> Bytes]
  BY <1>2 DEF Chunk
<1>4. Chunk(t, done, n) \in Seq(Bytes)
  BY <1>3
<1>5. Len(Chunk(t, done, n)) = n
  BY <1>3, <1>4
<1> QED
  BY <1>4, <1>5 DEF Chunk

\* The bytes in s.
BytesOf(s) == {s[k] : k \in DOMAIN s}

\* sc is s followed by c, the chunk of program t that is numbered from m + 1 on.
Grown(s, c, t, m, sc) ==
    /\ sc \in Seq(Bytes) /\ Increasing(sc)
    /\ BytesOf(sc) = BytesOf(s) \cup {<<t, m + k>> : k \in 1..Len(c)}

\* Appending a chunk of program t, numbered from m + 1 on, to what a pipe has had.
LEMMA ChunkAppended ==
    ASSUME NEW s \in Seq(Bytes), NEW c \in Seq(Bytes), NEW t, NEW m \in Nat,
           \A k \in 1..Len(c) : c[k] = <<t, m + k>>,
           Increasing(s), \A b \in BytesOf(s) : b[1] = t => b[2] <= m
    PROVE  Grown(s, c, t, m, Cat(s, c))
<1>1. PICK sc \in Seq(Bytes) : sc = s \o c
  BY ConcatProperties
<1>2. /\ Len(s) \in Nat /\ Len(c) \in Nat /\ Len(sc) = Len(s) + Len(c)
      /\ DOMAIN s = 1..Len(s) /\ DOMAIN sc = 1..(Len(s) + Len(c))
      /\ \A i \in 1..Len(s) : sc[i] = s[i]
      /\ \A i \in 1..(Len(s) + Len(c)) : i > Len(s) => sc[i] = c[i - Len(s)]
  BY <1>1, ConcatProperties, LenProperties
<1>3. \A i \in 1..(Len(s) + Len(c)) : i > Len(s) => sc[i] = <<t, m + (i - Len(s))>>
  BY <1>2, SMTT(60)
<1>4. \A i \in 1..Len(s) : s[i] \in Bytes /\ (s[i][1] = t => s[i][2] <= m)
  BY <1>2 DEF BytesOf
<1>5. Increasing(sc)
  <2> SUFFICES ASSUME NEW j \in DOMAIN sc, NEW k \in DOMAIN sc, j < k, sc[j][1] = sc[k][1]
               PROVE  sc[j][2] < sc[k][2]
    BY DEF Increasing
  <2>1. CASE k <= Len(s)
    BY <1>2, <2>1 DEF Increasing
  <2>2. CASE k > Len(s) /\ j <= Len(s)
    <3>1. sc[k] = <<t, m + (k - Len(s))>> /\ sc[j] = s[j] /\ j \in 1..Len(s)
      BY <1>2, <1>3, <2>2
    <3>2. s[j][1] = t /\ s[j][2] <= m /\ s[j][2] \in Nat
      BY <1>4, <3>1 DEF Bytes
    <3> QED
      BY <1>2, <2>2, <3>1, <3>2
  <2>3. CASE j > Len(s)
    <3>1. sc[k] = <<t, m + (k - Len(s))>> /\ sc[j] = <<t, m + (j - Len(s))>>
      BY <1>2, <1>3, <2>3
    <3> QED
      BY <1>2, <3>1
  <2> QED
    BY <1>2, <2>1, <2>2, <2>3
<1>6. BytesOf(sc) = BytesOf(s) \cup {<<t, m + k>> : k \in 1..Len(c)}
  <2>1. ASSUME NEW b \in BytesOf(sc) PROVE b \in BytesOf(s) \cup {<<t, m + k>> : k \in 1..Len(c)}
    <3>1. PICK i \in 1..(Len(s) + Len(c)) : b = sc[i]
      BY <1>2 DEF BytesOf
    <3>2. CASE i <= Len(s)
      <4>1. i \in DOMAIN s /\ b = s[i]
        BY <1>2, <3>1, <3>2
      <4>2. b \in BytesOf(s)
        BY <4>1, Zenon DEF BytesOf
      <4> QED
        BY <4>2
    <3>3. CASE i > Len(s)
      <4>1. (i - Len(s)) \in 1..Len(c)
        BY <1>2, <3>3
      <4> QED
        BY <1>3, <3>1, <3>3, <4>1
    <3> QED
      BY <1>2, <3>2, <3>3
  <2>2. BytesOf(s) \subseteq BytesOf(sc)
    BY <1>2 DEF BytesOf
  <2>3. ASSUME NEW k \in 1..Len(c) PROVE <<t, m + k>> \in BytesOf(sc)
    <3>1. (k + Len(s)) \in 1..(Len(s) + Len(c)) /\ k + Len(s) > Len(s) /\ (k + Len(s)) - Len(s) = k
      BY <1>2
    <3>2. sc[k + Len(s)] = <<t, m + k>>
      BY <1>3, <3>1
    <3> QED
      BY <1>2, <3>1, <3>2 DEF BytesOf
  <2> QED
    BY <2>1, <2>2, <2>3
<1> QED
  BY <1>1, <1>5, <1>6, Zenon DEF Grown, Cat

LEMMA SentByBytes ==
    \A u, n : /\ n \in SentBy(u) <=> \E q \in Pipes : \E b \in BytesOf(sent[q]) : b[1] = u /\ n = b[2]
              /\ n \in SentBy(u)' <=> \E q \in Pipes : \E b \in BytesOf(sent'[q]) : b[1] = u /\ n = b[2]
BY SentByIs, SentByWillBe DEF BytesOf

\* One round of a write by a program that holds the write end.
LEMMA WriteRoundStep ==
    ASSUME DescriptorsInv, NEW t \in Programs, NEW p \in Pipes, NEW len \in Nat,
           NEW done \in Nat, call[t].done = done, done = 0 \/ done < len, status[t] = "alive",
           NEW fd \in Fds, table[t][fd] = PipeEnd(p, TRUE), WriteRound(t, p, len, done)
    PROVE  DescriptorsInv'
<1>1. /\ TypeOK /\ StreamIntact /\ CountsOK /\ pipes \in [Pipes -> PipeRecords]
      /\ table \in [Programs -> [Fds -> Files]]
  BY InvParts
<1>2. UNCHANGED <<status, table, next_fd, nextPipe, sockets, nextSocket, out>>
  BY DEF WriteRound, fdVars, socketVars
<1>w. wrote[t] \in Nat /\ SentBy(t) = 1..(wrote[t] + done)
  BY <1>1 DEF TypeOK, StreamIntact
<1>c. pipes[p].live
  <2>1. EndsIn(table[t], p, TRUE) # 0
    BY EndsFinite, Zenon
  <2>2. PICK e \in Nat, v \in Nat : e = EndsIn(table[t], p, TRUE) /\ v = Count(table, p, TRUE)
    BY EndsFinite, HoldersFinite, Zenon
  <2>3. e <= v
    <3>1. \A w : EndsIn(table[t], p, w) <= Count(table, p, w)
      BY <1>1, TableReplaced
    <3> QED
      BY <2>2, <3>1, Zenon
  <2>4. v # 0
    <3>1. e # 0
      BY <2>1, <2>2, Zenon
    <3> QED
      BY <2>3, <3>1
  <2>5. CountedBy(pipes[p], Count(table, p, FALSE), v)
    BY <1>1, <2>2, Zenon DEF CountsOK
  <2> QED
    BY <2>4, <2>5, Zenon DEF CountedBy
<1>b. /\ pipes[p] \in PipeRecords /\ pipes[p].buf \in Seq(Bytes)
      /\ Len(pipes[p].buf) \in Nat /\ Len(pipes[p].buf) <= PIPE_CAPACITY
      /\ out[p] \in Seq(Bytes) /\ sent[p] \in Seq(Bytes)
  BY <1>1 DEF TypeOK, PipeRecords
<1>k. \A q \in Pipes : pipes'[q] = pipes[q] => RoundKeeps(pipes[q], pipes'[q])
  BY <1>1 DEF RoundKeeps, TypeOK
<1>o. out' \in [Pipes -> Seq(Bytes)]
  BY <1>1, <1>2 DEF TypeOK
<1>3. CASE pipes[p].read_ends = 0
  <2>1. /\ call' = [call EXCEPT ![t] = Idle] /\ wrote' = [wrote EXCEPT ![t] = @ + done]
        /\ UNCHANGED <<pipes, sent>>
    BY <1>3 DEF WriteRound, WriteReturns
  <2>2. \A u : SentBy(u)' = SentBy(u)
    BY <2>1 DEF SentBy
  <2>3. /\ wrote' \in [Programs -> Nat] /\ wrote'[t] = wrote[t] + done
        /\ \A u \in Programs : u # t => wrote'[u] = wrote[u]
    BY <1>1, <2>1 DEF TypeOK
  <2>4. SentBy(t)' = 1..(wrote'[t] + Idle.done)
    BY <1>w, <2>2, <2>3, IdleOK
  <2>5. /\ pipes' \in [Pipes -> PipeRecords] /\ sent' \in [Pipes -> Seq(Bytes)]
        /\ \A q \in Pipes : pipes'[q].live => sent'[q] = out'[q] \o pipes'[q].buf
        /\ \A q \in Pipes : ~pipes[q].live => sent'[q] = sent[q] /\ out'[q] = out[q]
        /\ \A q \in Pipes : RoundKeeps(pipes[q], pipes'[q])
        /\ \A q \in Pipes : Increasing(sent'[q])
    BY <1>1, <1>2, <1>k, <2>1 DEF TypeOK, StreamIntact, Increasing
  <2> QED
    BY <1>2, <1>o, <2>1, <2>2, <2>3, <2>4, <2>5, IdleOK, CallStep
<1>4. CASE pipes[p].read_ends # 0
  <2> DEFINE take == IF Space(p) < len - done THEN Space(p) ELSE len - done
             c == Chunk(t, done, take)
             m == wrote[t] + done
             buf2 == pipes[p].buf \o c
             sent2 == sent[p] \o c
  <2>1. /\ pipes' = [pipes EXCEPT ![p].buf = buf2]
        /\ sent' = [sent EXCEPT ![p] = sent2]
        /\ IF done + take >= len
             THEN WriteReturns(t, done + take)
             ELSE /\ call' = [call EXCEPT ![t] = [kind |-> "write", id |-> p, len |-> len,
                                                  done |-> done + take]]
                  /\ UNCHANGED wrote
    BY <1>4 DEF WriteRound
  <2>2. take \in Nat /\ Len(pipes[p].buf) + take <= PIPE_CAPACITY /\ m \in Nat
    <3>0. /\ \A x, y \in Nat : x <= y => y - x \in Nat /\ x + (y - x) <= y
          /\ \A x, y, z, u \in Nat : x + y <= z /\ u <= y => x + u <= z
          /\ \A x, y \in Nat : x + y \in Nat /\ (~(x < y) => y <= x) /\ x <= x
      OBVIOUS
    <3>1. Space(p) \in Nat /\ Len(pipes[p].buf) + Space(p) <= PIPE_CAPACITY
      <4>1. PIPE_CAPACITY \in Nat
        BY DescriptorsAssumption
      <4> QED BY <1>b, <3>0, <4>1, Zenon DEF Space
    <3>2. len - done \in Nat
      OBVIOUS
    <3>3. take \in Nat /\ take <= Space(p)
      <4> PICK x \in Nat : x = Space(p)
        BY <3>1
      <4> PICK y \in Nat : y = len - done
        BY <3>2
      <4>1. (IF x < y THEN x ELSE y) \in Nat /\ (IF x < y THEN x ELSE y) <= x
        BY <3>0, Zenon
      <4> QED BY <4>1, Zenon
    <3>4. PIPE_CAPACITY \in Nat /\ wrote[t] \in Nat /\ done \in Nat
      BY <1>w, DescriptorsAssumption
    <3> QED
      BY <1>b, <3>0, <3>1, <3>3, <3>4, Zenon
  <2> HIDE DEF take
  <2>3. /\ c \in Seq(Bytes) /\ Len(c) = take
        /\ \A k \in 1..take : c[k] = <<t, m + k>>
    BY <1>1, <2>2, ChunkIs, ZenonT(60)
  <2> HIDE DEF c, m
  <2>4. /\ sent2 \in Seq(Bytes) /\ Increasing(sent2)
        /\ BytesOf(sent2) = BytesOf(sent[p]) \cup {<<t, m + k>> : k \in 1..take}
    <3>1. Increasing(sent[p])
      BY <1>1 DEF StreamIntact, Increasing
    <3>2. \A b \in BytesOf(sent[p]) : b[1] = t => b[2] <= m
      <4> SUFFICES ASSUME NEW b \in BytesOf(sent[p]), b[1] = t PROVE b[2] <= m
        OBVIOUS
      <4>1. b[2] \in SentBy(t)
        BY SentByBytes
      <4> QED
        BY <1>w, <2>2, <4>1 DEF m
    <3>3. \A k \in 1..Len(c) : c[k] = <<t, m + k>>
      BY <2>3
    <3>4. Grown(sent[p], c, t, m, Cat(sent[p], c))
      BY <1>b, <2>2, <2>3, <3>1, <3>2, <3>3, ChunkAppended
    <3> QED
      BY <2>3, <3>4, Zenon DEF Grown, Cat
  <2>5. /\ buf2 \in Seq(Bytes) /\ Len(buf2) <= PIPE_CAPACITY
    <3>1. buf2 \in Seq(Bytes) /\ Len(buf2) = Len(pipes[p].buf) + Len(c)
      BY <1>b, <2>3, ConcatProperties
    <3> QED
      BY <2>2, <2>3, <3>1
  <2>6. sent2 = out[p] \o buf2
    <3>1. sent[p] = out[p] \o pipes[p].buf
      BY <1>1, <1>c DEF StreamIntact
    <3>2. Cat(Cat(out[p], pipes[p].buf), c) = Cat(out[p], Cat(pipes[p].buf, c))
      BY <1>b, <2>3, Associative
    <3> QED
      BY <3>1, <3>2, Zenon DEF Cat
  <2> HIDE DEF sent2, buf2
  <2>7. /\ pipes'[p] \in PipeRecords /\ pipes'[p].buf = buf2
        /\ (pipes'[p].live <=> pipes[p].live)
        /\ pipes'[p].read_ends = pipes[p].read_ends /\ pipes'[p].write_ends = pipes[p].write_ends
        /\ \A q \in Pipes : q # p => pipes'[q] = pipes[q]
    <3>1. pipes'[p] = [pipes[p] EXCEPT !.buf = buf2] /\ \A q \in Pipes : q # p => pipes'[q] = pipes[q]
      BY <1>1, <2>1
    <3> QED
      BY <1>b, <2>5, <3>1 DEF PipeRecords
  <2>8. sent'[p] = sent2 /\ (\A q \in Pipes : q # p => sent'[q] = sent[q])
        /\ sent' \in [Pipes -> Seq(Bytes)]
    BY <1>1, <2>1, <2>4 DEF TypeOK
  <2>9. /\ pipes' \in [Pipes -> PipeRecords]
        /\ \A q \in Pipes : pipes'[q].live => sent'[q] = out'[q] \o pipes'[q].buf
        /\ \A q \in Pipes : ~pipes[q].live => sent'[q] = sent[q] /\ out'[q] = out[q]
        /\ \A q \in Pipes : RoundKeeps(pipes[q], pipes'[q])
        /\ \A q \in Pipes : Increasing(sent'[q])
    <3>1. pipes' \in [Pipes -> PipeRecords]
      <4>1. pipes' = [pipes EXCEPT ![p] = pipes'[p]]
        BY <1>1, <2>1
      <4> QED
        BY <1>1, <2>7, <4>1
    <3>2. \A q \in Pipes : pipes'[q].live => sent'[q] = out'[q] \o pipes'[q].buf
      <4> SUFFICES ASSUME NEW q \in Pipes, pipes'[q].live
                   PROVE  sent'[q] = out'[q] \o pipes'[q].buf
        OBVIOUS
      <4>1. CASE q # p
        BY <1>1, <1>2, <2>7, <2>8, <4>1 DEF StreamIntact
      <4>2. CASE q = p
        BY <1>2, <2>6, <2>7, <2>8, <4>2, Zenon
      <4> QED
        BY <4>1, <4>2
    <3>3. \A q \in Pipes : RoundKeeps(pipes[q], pipes'[q])
      <4>1. RoundKeeps(pipes[p], pipes'[p])
        BY <1>c, <2>5, <2>7, Zenon DEF RoundKeeps
      <4> QED
        BY <1>k, <2>7, <4>1
    <3>4. \A q \in Pipes : Increasing(sent'[q])
      <4>1. \A q \in Pipes : Increasing(sent[q])
        BY <1>1 DEF StreamIntact, Increasing
      <4> QED
        BY <2>4, <2>8, <4>1
    <3> QED
      BY <1>2, <1>c, <2>8, <3>1, <3>2, <3>3, <3>4
  <2>x. \A q \in Pipes : \A b : b \in BytesOf(sent'[q]) <=>
            \/ b \in BytesOf(sent[q])
            \/ q = p /\ \E k \in 1..take : b = <<t, m + k>>
    <3> TAKE q \in Pipes
    <3>1. CASE q = p
      BY <2>4, <2>8, <3>1
    <3>2. CASE q # p
      BY <2>8, <3>2
    <3> QED
      BY <3>1, <3>2
  <2>a. \A u \in Programs : u # t => SentBy(u)' = SentBy(u)
    <3> SUFFICES ASSUME NEW u \in Programs, u # t PROVE SentBy(u)' = SentBy(u)
      OBVIOUS
    <3>1. ASSUME NEW n PROVE n \in SentBy(u)' <=> n \in SentBy(u)
      <4>1. \A k : (<<t, m + k>>)[1] # u
        OBVIOUS
      <4>2. \A q \in Pipes : \A b : b[1] = u => (b \in BytesOf(sent'[q]) <=> b \in BytesOf(sent[q]))
        BY <2>x, <4>1, Zenon
      <4> QED
        BY <4>2, SentByBytes
    <3> QED
      BY <3>1
  <2>b. SentBy(t)' = 1..(m + take)
    <3>1. ASSUME NEW n
          PROVE  n \in SentBy(t)' <=> n \in SentBy(t) \/ \E k \in 1..take : n = m + k
      <4>1. ASSUME n \in SentBy(t)'
            PROVE  n \in SentBy(t) \/ \E k \in 1..take : n = m + k
        <5>0. PICK q \in Pipes : \E b \in BytesOf(sent'[q]) : b[1] = t /\ n = b[2]
          BY <4>1, SentByBytes
        <5>1. PICK b \in BytesOf(sent'[q]) : b[1] = t /\ n = b[2]
          BY <5>0
        <5>2. CASE b \in BytesOf(sent[q])
          BY <5>1, <5>2, SentByBytes, Zenon
        <5>3. CASE \E k \in 1..take : b = <<t, m + k>>
          BY <5>1, <5>3
        <5> QED
          BY <2>x, <5>2, <5>3
      <4>2. ASSUME n \in SentBy(t) PROVE n \in SentBy(t)'
        <5>1. PICK q \in Pipes : \E b \in BytesOf(sent[q]) : b[1] = t /\ n = b[2]
          BY <4>2, SentByBytes
        <5>2. \E b \in BytesOf(sent'[q]) : b[1] = t /\ n = b[2]
          BY <2>x, <5>1, Zenon
        <5> QED
          BY <5>2, SentByBytes
      <4>3. ASSUME NEW k \in 1..take, n = m + k PROVE n \in SentBy(t)'
        <5>1. (<<t, m + k>>) \in BytesOf(sent'[p])
          BY <2>x, Zenon
        <5>2. (<<t, m + k>>)[1] = t /\ (<<t, m + k>>)[2] = n
          BY <4>3
        <5> QED
          BY <5>1, <5>2, SentByBytes, Zenon
      <4> QED
        BY <4>1, <4>2, <4>3
    <3>2. SentBy(t) = 1..m
      BY <1>w DEF m
    <3>3. \A n : n \in 1..(m + take) <=> n \in 1..m \/ \E k \in 1..take : n = m + k
      <4> TAKE n
      <4>1. ASSUME n \in 1..(m + take), n \notin 1..m PROVE \E k \in 1..take : n = m + k
        <5>1. n - m \in 1..take /\ n = m + (n - m)
          BY <2>2, <4>1
        <5> QED
          BY <5>1
      <4>2. ASSUME n \in 1..m PROVE n \in 1..(m + take)
        BY <2>2, <4>2
      <4>3. ASSUME NEW k \in 1..take, n = m + k PROVE n \in 1..(m + take)
        BY <2>2, <4>3
      <4> QED
        BY <4>1, <4>2, <4>3
    <3>4. \A n : n \in SentBy(t)' <=> n \in 1..(m + take)
      BY <3>1, <3>2, <3>3, Zenon
    <3> QED
      BY <3>4
  <2>c. CASE done + take >= len
    <3>1. /\ call' = [call EXCEPT ![t] = Idle]
          /\ wrote' = [wrote EXCEPT ![t] = @ + (done + take)]
      BY <2>1, <2>c DEF WriteReturns
    <3>2. /\ wrote' \in [Programs -> Nat] /\ wrote'[t] = m + take
          /\ \A u \in Programs : u # t => wrote'[u] = wrote[u]
      BY <1>1, <2>2, <3>1, SMTT(60) DEF TypeOK, m
    <3>3. SentBy(t)' = 1..(wrote'[t] + Idle.done)
      BY <2>2, <2>b, <3>2, IdleOK
    <3> QED
      BY <1>2, <1>o, <2>8, <2>9, <2>a, <3>1, <3>2, <3>3, IdleOK, CallStep
  <2>d. CASE done + take < len
    <3> DEFINE r == [kind |-> "write", id |-> p, len |-> len, done |-> done + take]
    <3>1. call' = [call EXCEPT ![t] = r] /\ UNCHANGED wrote
      BY <2>1, <2>2, <2>d
    <3>2. CallOK(t, r) /\ r.done = done + take
      <4>1. PipeEnd(p, TRUE) = PipeEnd(r.id, r.kind = "write")
        <5>1. TRUE = (r.kind = "write") /\ p = r.id
          OBVIOUS
        <5> QED
          BY <5>1, Zenon
      <4>2. \E g \in Fds : table[t][g] = PipeEnd(r.id, r.kind = "write")
        BY <4>1, Zenon
      <4>3. /\ r \in [kind : {"idle", "read", "write"}, id : 0..MaxPipes, len : Nat, done : Nat]
            /\ r.kind = "write" /\ r.done < r.len /\ r.done = done + take
            /\ r.id \in Pipes /\ pipes[r.id].live
        BY <1>c, <2>2, <2>d, DescriptorsAssumption DEF Pipes
      <4> HIDE DEF r
      <4> QED
        BY <4>2, <4>3, Zenon DEF CallOK
    <3> HIDE DEF r
    <3>3. /\ wrote' \in [Programs -> Nat]
          /\ \A u \in Programs : u # t => wrote'[u] = wrote[u]
      BY <1>1, <3>1 DEF TypeOK
    <3>4. SentBy(t)' = 1..(wrote'[t] + r.done)
      <4>1. wrote'[t] + r.done = m + take
        BY <1>w, <2>2, <3>1, <3>2 DEF m
      <4> QED
        BY <2>b, <4>1
    <3> QED
      BY <1>2, <1>o, <2>8, <2>9, <2>a, <3>1, <3>2, <3>3, <3>4, CallStep
  <2> QED
    BY <2>2, <2>c, <2>d
<1> QED
  BY <1>3, <1>4

-----------------------------------------------------------------------------
(* The invariant *)

LEMMA DescriptorsInit == Init => DescriptorsInv
<1> SUFFICES ASSUME Init PROVE DescriptorsInv
  OBVIOUS
<1> USE DescriptorsAssumption
<1>1. /\ status = [t \in Programs |-> "none"]
      /\ table = [t \in Programs |-> [fd \in Fds |-> NoFile]]
      /\ next_fd = [t \in Programs |-> STREAMS]
      /\ pipes = [p \in Pipes |-> NoPipe] /\ nextPipe = 1
      /\ sockets = {} /\ nextSocket = 1
      /\ call = [t \in Programs |-> Idle] /\ wrote = [t \in Programs |-> 0]
      /\ sent = [p \in Pipes |-> <<>>] /\ out = [p \in Pipes |-> <<>>]
  BY DEF Init
<1>2. <<>> \in Seq(Bytes) /\ Len(<<>>) = 0
  BY EmptySeq
<1>3. TypeOK
  <2>1. \A t \in Programs : Cardinality(Open(table[t])) <= MAX_FDS_PER_TASK
    <3> SUFFICES ASSUME NEW t \in Programs PROVE Cardinality(Open(table[t])) <= MAX_FDS_PER_TASK
      OBVIOUS
    <3>1. Open(table[t]) = {}
      BY <1>1 DEF Open
    <3> QED
      BY <3>1, FS_EmptySet
  <2>2. pipes \in [Pipes -> [live : BOOLEAN, buf : Seq(Bytes), read_ends : Nat, write_ends : Nat]]
        /\ \A p \in Pipes : Len(pipes[p].buf) <= PIPE_CAPACITY
    BY <1>1, <1>2, NoPipeIs DEF PipeRecords
  <2>3. call \in [Programs -> [kind : {"idle", "read", "write"}, id : 0..MaxPipes,
                               len : Nat, done : Nat]]
    BY <1>1, IdleOK DEF CallOK
  <2>4. table \in [Programs -> [Fds -> Files]] /\ next_fd \in [Programs -> Fds]
    BY <1>1, FileKinds, EmptyTableIs
  <2> QED
    BY <1>1, <1>2, <2>1, <2>2, <2>3, <2>4 DEF TypeOK
<1>4. \A p, w : Count(table, p, w) = 0
  <2> TAKE p, w
  <2>1. PipeEnd(p, w) # NoFile
    BY FileKinds
  <2>2. HoldersIn(table, p, w) = {}
    BY <1>1, <2>1 DEF HoldersIn
  <2> QED
    BY <2>2, HoldersFinite
<1>5. CountsOK
  <2> SUFFICES ASSUME NEW p \in Pipes
               PROVE  CountedBy(pipes[p], Count(table, p, FALSE), Count(table, p, TRUE))
    BY DEF CountsOK
  <2>1. pipes[p] = NoPipe
    BY <1>1
  <2> QED
    BY <1>4, <2>1, NoPipeIs, Zenon DEF CountedBy
<1>6. FreshPipes
  <2>1. \A p \in Pipes : pipes[p] = NoPipe /\ sent[p] = <<>> /\ out[p] = <<>>
    BY <1>1
  <2> QED
    BY <1>4, <2>1, Zenon DEF FreshPipes
<1>7. \A t : SentBy(t) = {}
  BY <1>1 DEF SentBy
<1>8. TablesInv
  BY <1>1, <1>7 DEF TablesInv
<1>9. CallsInv /\ CallHoldsEnd
  BY <1>1, IdleOK DEF CallsInv, CallHoldsEnd
<1>a. StreamIntact
  BY <1>1, NoPipeIs DEF StreamIntact
<1> QED
  BY <1>3, <1>5, <1>6, <1>8, <1>9, <1>a, CountsAre DEF DescriptorsInv

\* Every step keeps the invariant.
LEMMA DescriptorsStep == DescriptorsInv /\ [Next]_vars => DescriptorsInv'
<1> SUFFICES ASSUME DescriptorsInv, [Next]_vars PROVE DescriptorsInv'
  OBVIOUS
<1>0. /\ TypeOK /\ CallsInv /\ CallHoldsEnd
  BY InvParts
<1>u. CASE UNCHANGED vars
  <2>1. /\ UNCHANGED <<status, table, next_fd, pipes, nextPipe, sockets, nextSocket, call, wrote,
                       sent, out>>
    BY <1>u DEF vars
  <2>2. TypeOK' /\ CallsInv' /\ CallHoldsEnd'
    BY <1>0, <2>1 DEF TypeOK, CallsInv, CallHoldsEnd
  <2>3. (\A t : SentBy(t)' = SentBy(t)) /\ (\A p, w : Holders(p, w)' = Holders(p, w))
    BY <2>1 DEF SentBy, Holders
  <2>4. TablesInv' /\ StreamIntact'
    BY <2>1, <2>3 DEF DescriptorsInv, TablesInv, StreamIntact
  <2>5. PipesInv' /\ EndsCounted'
    BY <2>1, <2>2, <2>3 DEF DescriptorsInv, PipesInv, EndsCounted
  <2> QED
    BY <2>2, <2>4, <2>5 DEF DescriptorsInv
<1>1. ASSUME NEW t \in Programs, InitTaskFds(t) PROVE DescriptorsInv'
  BY <1>1, InitTaskFdsStep
<1>2. ASSUME NEW t \in Programs, NEW child \in Programs, CloneTaskFds(t, child)
      PROVE  DescriptorsInv'
  BY <1>2, CloneTaskFdsStep
<1>3. ASSUME NEW t \in Programs, CleanupTaskFds(t) PROVE DescriptorsInv'
  BY <1>3, CleanupTaskFdsStep
<1>4. ASSUME NEW t \in Programs, SysPipe(t) PROVE DescriptorsInv'
  BY <1>4, SysPipeStep
<1>5. ASSUME NEW t \in Programs, NEW fd \in Fds, SysClose(t, fd) PROVE DescriptorsInv'
  BY <1>5, SysCloseStep
<1>6. ASSUME NEW t \in Programs, SysSocket(t) PROVE DescriptorsInv'
  BY <1>6, SysSocketStep
<1>7. ASSUME NEW t \in Programs, NEW fd \in Fds, NEW len \in Lengths, SysRead(t, fd, len)
      PROVE  DescriptorsInv'
  <2>1. len \in Nat
    BY DescriptorsAssumption
  <2>2. PICK p \in Pipes : table[t][fd] = PipeEnd(p, FALSE) /\ ReadRound(t, p, len)
    BY <1>7, Zenon DEF SysRead
  <2>3. status[t] = "alive" /\ call[t].done = 0
    BY <1>7, IdleOK DEF SysRead, InUser
  <2> QED
    BY <2>1, <2>2, <2>3, ReadRoundStep
<1>8. ASSUME NEW t \in Programs, NEW fd \in Fds, NEW len \in Lengths, SysWrite(t, fd, len)
      PROVE  DescriptorsInv'
  <2>1. len \in Nat
    BY DescriptorsAssumption
  <2>2. PICK p \in Pipes : table[t][fd] = PipeEnd(p, TRUE) /\ WriteRound(t, p, len, 0)
    BY <1>8, Zenon DEF SysWrite
  <2>3. status[t] = "alive" /\ call[t].done = 0
    BY <1>8, IdleOK DEF SysWrite, InUser
  <2>4. PICK done \in Nat : done = 0
    OBVIOUS
  <2>5. WriteRound(t, p, len, done) /\ call[t].done = done
    BY <2>2, <2>3, <2>4, Zenon
  <2> QED
    BY <2>1, <2>2, <2>3, <2>4, <2>5, WriteRoundStep
<1>9. ASSUME NEW t \in Programs, ReadAgain(t) PROVE DescriptorsInv'
  <2>1. call[t].kind = "read" /\ ReadRound(t, call[t].id, call[t].len)
    BY <1>9 DEF ReadAgain
  <2>2. /\ status[t] = "alive" /\ call[t].id \in Pipes /\ call[t].len \in Nat /\ call[t].done = 0
        /\ \E fd \in Fds : table[t][fd] = PipeEnd(call[t].id, call[t].kind = "write")
    BY <1>0, <2>1 DEF TypeOK, CallsInv, CallHoldsEnd
  <2>3. (call[t].kind = "write") = FALSE
    BY <2>1
  <2>4. PICK fd \in Fds : table[t][fd] = PipeEnd(call[t].id, FALSE)
    BY <2>2, <2>3, Zenon
  <2> QED
    BY <2>1, <2>2, <2>4, ReadRoundStep
<1>a. ASSUME NEW t \in Programs, WriteAgain(t) PROVE DescriptorsInv'
  <2>1. call[t].kind = "write" /\ WriteRound(t, call[t].id, call[t].len, call[t].done)
    BY <1>a DEF WriteAgain
  <2>2. /\ status[t] = "alive" /\ call[t].id \in Pipes /\ call[t].len \in Nat
        /\ call[t].done \in Nat /\ call[t].done < call[t].len
        /\ \E fd \in Fds : table[t][fd] = PipeEnd(call[t].id, call[t].kind = "write")
    BY <1>0, <2>1 DEF TypeOK, CallsInv, CallHoldsEnd
  <2>3. (call[t].kind = "write") = TRUE
    BY <2>1
  <2>4. PICK fd \in Fds : table[t][fd] = PipeEnd(call[t].id, TRUE)
    BY <2>2, <2>3, Zenon
  <2> QED
    BY <2>1, <2>2, <2>4, WriteRoundStep
<1> QED
  BY <1>u, <1>1, <1>2, <1>3, <1>4, <1>5, <1>6, <1>7, <1>8, <1>9, <1>a DEF Next

\* The inductive invariant of the descriptor tables and the pipes (vfs.rs): tables
\* within their limits, fresh numbers and ids unused, the counts, the ends of waiting
\* calls and the streams all right, whatever programs do and whenever they are killed.
THEOREM DescriptorsInvariant == Spec => []DescriptorsInv
<1>1. Init => DescriptorsInv
  BY DescriptorsInit
<1>2. DescriptorsInv /\ [Next]_vars => DescriptorsInv'
  BY DescriptorsStep
<1> QED
  BY <1>1, <1>2, PTL DEF Spec

\* read_ends and write_ends of a pipe (vfs.rs, Pipe) are the numbers of descriptors,
\* over all tables, that are ends of it, and a pipe is freed exactly with its last end.
THEOREM EndsAreCounted == Spec => []EndsCounted
<1>1. DescriptorsInv => EndsCounted
  BY DEF DescriptorsInv
<1> QED
  BY <1>1, DescriptorsInvariant, PTL

\* A read or write that waits (pipe_read, pipe_write) still has its end, and its pipe
\* is still there.
THEOREM WaitersHoldEnds == Spec => []CallHoldsEnd
<1>1. DescriptorsInv => CallHoldsEnd
  BY DEF DescriptorsInv
<1> QED
  BY <1>1, DescriptorsInvariant, PTL

\* The bytes of a pipe (pipe_read, pipe_write) come out once, in order and complete,
\* for writes of any length in any number of rounds.
THEOREM StreamsIntact == Spec => []StreamIntact
<1>1. DescriptorsInv => StreamIntact
  BY DEF DescriptorsInv
<1> QED
  BY <1>1, DescriptorsInvariant, PTL
=============================================================================
