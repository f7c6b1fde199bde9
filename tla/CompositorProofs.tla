-------------------------- MODULE CompositorProofs ---------------------------
(***************************************************************************)
(* Proofs about the desktop (Wm and Compositor), for any number of client   *)
(* programs, windows, terminals, queued events and keys: the frames mirror  *)
(* the registry, the focus is on top, no repaint is lost and no key leaks   *)
(* to a client that did not have the focus.                                 *)
(***************************************************************************)
EXTENDS Compositor, FiniteSetTheorems, SequenceTheorems, TLAPS

LEMMA Removed ==
    ASSUME NEW S, NEW s \in Seq(S), NEW i \in DOMAIN s
    PROVE  /\ RemoveAt(s, i) \in Seq(S)
           /\ Len(RemoveAt(s, i)) = Len(s) - 1
           /\ \A k \in 1..(Len(s) - 1) : RemoveAt(s, i)[k] = IF k < i THEN s[k] ELSE s[k + 1]
<1>1. i \in 1..Len(s) /\ Len(s) \in Nat /\ DOMAIN s = 1..Len(s)
  BY LenProperties
<1> DEFINE a == SubSeq(s, 1, i - 1)
           b == SubSeq(s, i + 1, Len(s))
<1>2. a \in Seq(S) /\ Len(a) = i - 1 /\ \A k \in 1..(i - 1) : a[k] = s[k]
  BY <1>1, SubSeqProperties
<1>3. b \in Seq(S) /\ Len(b) = Len(s) - i /\ \A k \in 1..(Len(s) - i) : b[k] = s[i + k]
  BY <1>1, SubSeqProperties
<1>4. RemoveAt(s, i) = a \o b
  BY DEF RemoveAt
<1> HIDE DEF a, b
<1>c. /\ a \o b \in Seq(S) /\ Len(a \o b) = Len(a) + Len(b)
      /\ \A k \in 1..(Len(a) + Len(b)) : (a \o b)[k] = IF k <= Len(a) THEN a[k] ELSE b[k - Len(a)]
  BY <1>2, <1>3, ConcatProperties
<1>5. Len(a \o b) = Len(s) - 1
  BY <1>1, <1>2, <1>3, <1>c
<1>6. ASSUME NEW k \in 1..(Len(s) - 1) PROVE (a \o b)[k] = IF k < i THEN s[k] ELSE s[k + 1]
  <2>1. CASE k < i
    <3>1. k <= Len(a) /\ k \in 1..(i - 1) /\ k \in 1..(Len(a) + Len(b))
      BY <1>1, <1>2, <1>3, <2>1
    <3> QED BY <1>2, <1>c, <2>1, <3>1
  <2>2. CASE ~(k < i)
    <3>1. ~(k <= Len(a)) /\ k - Len(a) \in 1..(Len(s) - i) /\ k \in 1..(Len(a) + Len(b))
          /\ i + (k - Len(a)) = k + 1
      BY <1>1, <1>2, <1>3, <2>2
    <3>2. (a \o b)[k] = b[k - Len(a)]
      BY <1>c, <3>1
    <3>3. b[k - Len(a)] = s[i + (k - Len(a))]
      BY <1>3, <3>1
    <3> QED BY <2>2, <3>1, <3>2, <3>3
  <2> QED BY <2>1, <2>2
<1> QED BY <1>4, <1>5, <1>6, <1>c


\* Taking one frame out of a list without duplicates.
LEMMA RemovedElems ==
    ASSUME NEW S, NEW s \in Seq(S), IsInjective(s), NEW i \in DOMAIN s
    PROVE  IsInjective(RemoveAt(s, i)) /\ Elems(RemoveAt(s, i)) = Elems(s) \ {s[i]}
<1> DEFINE r == RemoveAt(s, i)
<1>1. /\ r \in Seq(S) /\ Len(r) = Len(s) - 1
      /\ \A k \in 1..(Len(s) - 1) : r[k] = IF k < i THEN s[k] ELSE s[k + 1]
  BY Removed
<1> HIDE DEF r
<1>2. Len(s) \in Nat /\ DOMAIN s = 1..Len(s) /\ i \in 1..Len(s) /\ DOMAIN r = 1..(Len(s) - 1)
  BY <1>1, LenProperties
<1>3. \A a, b \in 1..Len(s) : s[a] = s[b] => a = b
  BY <1>2 DEF IsInjective
<1>4. ASSUME NEW a \in DOMAIN r, NEW b \in DOMAIN r, r[a] = r[b] PROVE a = b
  BY <1>1, <1>2, <1>3, <1>4
<1>5. ASSUME NEW k \in DOMAIN r PROVE r[k] \in Elems(s) \ {s[i]}
  <2>1. CASE k < i
    BY <1>1, <1>2, <1>3, <2>1 DEF Elems
  <2>2. CASE ~(k < i)
    BY <1>1, <1>2, <1>3, <2>2 DEF Elems
  <2> QED BY <2>1, <2>2
<1>6. ASSUME NEW k \in DOMAIN s, k # i PROVE s[k] \in Elems(r)
  <2>1. CASE k < i
    BY <1>1, <1>2, <2>1 DEF Elems
  <2>2. CASE k > i
    <3>1. k - 1 \in 1..(Len(s) - 1) /\ ~(k - 1 < i) /\ (k - 1) + 1 = k
      BY <1>2, <2>2
    <3>2. r[k - 1] = s[k]
      BY <1>1, <3>1
    <3> QED BY <1>2, <3>1, <3>2 DEF Elems
  <2> QED BY <1>2, <1>6, <2>1, <2>2
<1>7. Elems(r) = Elems(s) \ {s[i]}
  BY <1>5, <1>6 DEF Elems
<1> QED BY <1>4, <1>7 DEF r, IsInjective

LEMMA AppendElems ==
    ASSUME NEW S, NEW s \in Seq(S), NEW x \in S
    PROVE  /\ Append(s, x) \in Seq(S) /\ Len(Append(s, x)) = Len(s) + 1
           /\ Elems(Append(s, x)) = Elems(s) \cup {x}
           /\ IsInjective(s) /\ x \notin Elems(s) => IsInjective(Append(s, x))
<1> DEFINE r == Append(s, x)
<1>1. /\ r \in Seq(S) /\ Len(r) = Len(s) + 1
      /\ \A k \in 1..Len(s) : r[k] = s[k]
      /\ r[Len(s) + 1] = x
  BY AppendProperties
<1> HIDE DEF r
<1>2. Len(s) \in Nat /\ DOMAIN s = 1..Len(s) /\ DOMAIN r = 1..(Len(s) + 1)
  BY <1>1, LenProperties
<1>3. Elems(r) = Elems(s) \cup {x}
  <2>1. \A k \in DOMAIN r : r[k] \in Elems(s) \cup {x}
    BY <1>1, <1>2 DEF Elems
  <2>2. \A k \in DOMAIN s : s[k] \in Elems(r)
    BY <1>1, <1>2 DEF Elems
  <2>3. x \in Elems(r)
    BY <1>1, <1>2 DEF Elems
  <2> QED BY <2>1, <2>2, <2>3 DEF Elems
<1>4. ASSUME IsInjective(s), x \notin Elems(s), NEW a \in DOMAIN r, NEW b \in DOMAIN r, r[a] = r[b] PROVE a = b
  <2>1. \A k \in 1..Len(s) : s[k] # x
    BY <1>2, <1>4 DEF Elems
  <2> QED BY <1>1, <1>2, <1>4, <2>1 DEF IsInjective
<1> QED BY <1>1, <1>3, <1>4 DEF r, IsInjective

LEMMA TailElems ==
    ASSUME NEW S, NEW s \in Seq(S), s # <<>>
    PROVE  /\ Head(s) \in S /\ Tail(s) \in Seq(S) /\ Len(Tail(s)) = Len(s) - 1
           /\ Elems(s) = Elems(Tail(s)) \cup {Head(s)}
           /\ IsInjective(s) => IsInjective(Tail(s)) /\ Head(s) \notin Elems(Tail(s))
<1> DEFINE r == Tail(s)
<1>1. /\ Head(s) \in S /\ r \in Seq(S) /\ Len(r) = Len(s) - 1
      /\ \A k \in 1..Len(r) : r[k] = s[k + 1]
  BY HeadTailProperties
<1>h. Head(s) = s[1]
  OBVIOUS
<1> HIDE DEF r
<1>2. /\ Len(s) \in Nat \ {0} /\ DOMAIN s = 1..Len(s) /\ DOMAIN r = 1..Len(r)
  BY <1>1, LenProperties, EmptySeq
<1>3. \A k \in DOMAIN r : k + 1 \in DOMAIN s /\ r[k] = s[k + 1]
  BY <1>1, <1>2
<1>4. ASSUME NEW k \in DOMAIN s, k # 1 PROVE k - 1 \in DOMAIN r /\ r[k - 1] = s[k]
  <2>1. k - 1 \in 1..Len(r) /\ (k - 1) + 1 = k
    BY <1>1, <1>2, <1>4
  <2> QED BY <1>1, <1>2, <2>1
<1>5. Elems(s) = Elems(r) \cup {s[1]}
  <2>1. 1 \in DOMAIN s
    BY <1>2
  <2> QED BY <1>3, <1>4, <2>1 DEF Elems
<1>6. ASSUME IsInjective(s) PROVE IsInjective(r) /\ s[1] \notin Elems(r)
  <2>1. \A a, b \in DOMAIN s : s[a] = s[b] => a = b
    BY <1>6 DEF IsInjective
  <2>2. ASSUME NEW a \in DOMAIN r, NEW b \in DOMAIN r, r[a] = r[b] PROVE a = b
    <3>1. a + 1 = b + 1 /\ a \in Nat /\ b \in Nat
      BY <1>1, <1>2, <1>3, <2>1, <2>2
    <3> QED BY <3>1
  <2>3. ASSUME NEW a \in DOMAIN r PROVE r[a] # s[1]
    <3>1. a + 1 # 1 /\ 1 \in DOMAIN s
      BY <1>1, <1>2
    <3> QED BY <1>3, <2>1, <3>1
  <2> QED BY <2>2, <2>3 DEF IsInjective, Elems
<1> QED BY <1>1, <1>h, <1>5, <1>6 DEF r

LEMMA ConcatElems ==
    ASSUME NEW S, NEW s \in Seq(S), NEW q \in Seq(S)
    PROVE  s \o q \in Seq(S) /\ Elems(s \o q) = Elems(s) \cup Elems(q)
<1> DEFINE r == s \o q
<1>1. /\ r \in Seq(S) /\ Len(r) = Len(s) + Len(q)
      /\ \A k \in 1..(Len(s) + Len(q)) : r[k] = IF k <= Len(s) THEN s[k] ELSE q[k - Len(s)]
  BY ConcatProperties
<1> HIDE DEF r
<1>2. /\ Len(s) \in Nat /\ Len(q) \in Nat
      /\ DOMAIN s = 1..Len(s) /\ DOMAIN q = 1..Len(q) /\ DOMAIN r = 1..(Len(s) + Len(q))
  BY <1>1, LenProperties
<1>3. ASSUME NEW k \in DOMAIN r PROVE r[k] \in Elems(s) \cup Elems(q)
  <2>1. CASE k <= Len(s)
    BY <1>1, <1>2, <2>1 DEF Elems
  <2>2. CASE ~(k <= Len(s))
    <3>1. k - Len(s) \in DOMAIN q /\ r[k] = q[k - Len(s)]
      BY <1>1, <1>2, <2>2
    <3> QED BY <3>1 DEF Elems
  <2> QED BY <2>1, <2>2
<1>4. \A k \in DOMAIN s : s[k] \in Elems(r)
  BY <1>1, <1>2 DEF Elems
<1>5. ASSUME NEW k \in DOMAIN q PROVE q[k] \in Elems(r)
  <2>1. k + Len(s) \in DOMAIN r /\ ~(k + Len(s) <= Len(s)) /\ (k + Len(s)) - Len(s) = k
    BY <1>2
  <2>2. r[k + Len(s)] = q[k]
    BY <1>1, <1>2, <2>1
  <2> QED BY <2>1, <2>2 DEF Elems
<1> QED BY <1>1, <1>3, <1>4, <1>5 DEF r, Elems


-----------------------------------------------------------------------------
(* Frames *)

LEMMA FrameFacts ==
    /\ \A k, l, m, n : Frame(k, m) = Frame(l, n) <=> k = l /\ m = n
    /\ \A k, n : Frame(k, n).kind = k /\ Frame(k, n).id = n
BY DEF Frame

LEMMA FramesKinds ==
    ASSUME NEW f \in Frames
    PROVE  f = Frame(f.kind, f.id) /\ (f.kind = "client" => f.id \in Ids)
           /\ (f.kind = "terminal" => f.id \in Terms)
<1>1. CASE f \in {Frame("info", n) : n \in 1..Infos}
  BY <1>1, FrameFacts
<1>2. CASE f \in {Frame("terminal", n) : n \in Terms}
  BY <1>2, FrameFacts
<1>3. CASE f \in {Frame("client", n) : n \in Ids}
  BY <1>3, FrameFacts
<1> QED BY <1>1, <1>2, <1>3 DEF Frames

\* The clients with a frame, from the frames.
LEMMA ClientsElems ==
    ASSUME NEW s
    PROVE  \A w : w \in ClientsOf(s) <=> w \in Ids /\ Frame("client", w) \in Elems(s)
BY DEF ClientsOf, Elems

LEMMA FramesFinite == IsFiniteSet(Frames)
<1>1. ASSUME NEW k, NEW n \in Nat PROVE IsFiniteSet({Frame(k, i) : i \in 1..n})
  <2> DEFINE T == {Frame(k, i) : i \in 1..n}
             f == [i \in 1..n |-> Frame(k, i)]
  <2>1. IsFiniteSet(1..n)
    BY FS_Interval
  <2>2. f \in Surjection(1..n, T)
    BY DEF Surjection
  <2> HIDE DEF f, T
  <2>3. IsFiniteSet(T)
    BY <2>1, <2>2, FS_Surjection
  <2> QED BY <2>3 DEF T
<1>2. /\ IsFiniteSet({Frame("info", n) : n \in 1..Infos})
      /\ IsFiniteSet({Frame("terminal", n) : n \in Terms})
      /\ IsFiniteSet({Frame("client", n) : n \in Ids})
  BY <1>1, WmAssumption, CompositorAssumption DEF Terms, Ids
<1> QED BY <1>2, FS_Union DEF Frames

\* A list without duplicates is no longer than there are frames.
LEMMA SceneBound ==
    ASSUME NEW s \in Seq(Frames), IsInjective(s)
    PROVE  TopOf(s) \in 1..(Cardinality(Frames) + 1) /\ Len(s) \in Nat
<1>1. s \in [1..Len(s) -> Frames] /\ Len(s) \in Nat
  BY LenProperties
<1>2. s \in Injection(1..Len(s), Frames)
  BY <1>1 DEF Injection
<1>3. Cardinality(1..Len(s)) <= Cardinality(Frames)
  BY <1>2, FS_Injection, FramesFinite
<1>4. Cardinality(1..Len(s)) = Len(s)
  <2>1. \A n \in Nat : Cardinality(1..n) = IF 1 > n THEN 0 ELSE n - 1 + 1
    BY FS_Interval
  <2> QED BY <1>1, <2>1
<1>5. Cardinality(Frames) \in Nat
  BY FramesFinite, FS_CardinalityType
<1>6. s # <<>> => Len(s) >= 1
  BY <1>1, EmptySeq
<1> QED BY <1>1, <1>3, <1>4, <1>5, <1>6 DEF TopOf

-----------------------------------------------------------------------------
(* The registry's windows *)

WindowsOK ==
    /\ DOMAIN windows \subseteq Ids
    /\ Cardinality(DOMAIN windows) <= MAX_WINDOWS
    /\ windows \in [DOMAIN windows -> Windows]
    /\ \A w \in DOMAIN windows : Len(windows[w].events) <= EVENT_QUEUE_CAP

\* A step that keeps every window, with what it shows, and adds no events but those in new.
SameWindows(new) ==
    /\ DOMAIN windows' = DOMAIN windows
    /\ \A w \in DOMAIN windows :
          /\ windows'[w].owner = windows[w].owner
          /\ windows'[w].shown = windows[w].shown
          /\ Elems(windows'[w].events) \subseteq Elems(windows[w].events) \cup new

\* A step that changes one window of the registry.
LEMMA OneWindow ==
    ASSUME WindowsOK, NEW w \in DOMAIN windows, NEW r \in Windows,
           Len(r.events) <= EVENT_QUEUE_CAP, windows' = [windows EXCEPT ![w] = r]
    PROVE  /\ WindowsOK' /\ DOMAIN windows' = DOMAIN windows /\ windows'[w] = r
           /\ \A v \in DOMAIN windows : v # w => windows'[v] = windows[v]
<1>1. PICK D : D = DOMAIN windows /\ windows \in [D -> Windows]
  BY DEF WindowsOK
<1>2. windows' \in [D -> Windows]
  BY <1>1
<1>3. DOMAIN windows' = D
  BY <1>1
<1>4. windows'[w] = r /\ \A v \in D : v # w => windows'[v] = windows[v]
  BY <1>1
<1> QED BY <1>1, <1>2, <1>3, <1>4 DEF WindowsOK

LEMMA EventKept ==
    ASSUME WindowsOK, NEW w \in DOMAIN windows, NEW q \in Seq(Events), Len(q) <= EVENT_QUEUE_CAP,
           windows' = [windows EXCEPT ![w].events = q], NEW new,
           Elems(q) \subseteq Elems(windows[w].events) \cup new
    PROVE  WindowsOK' /\ SameWindows(new)
<1> DEFINE r == [windows[w] EXCEPT !.events = q]
<1>1. windows[w] \in Windows
  BY DEF WindowsOK
<1>2. r \in Windows /\ r.events = q /\ r.owner = windows[w].owner /\ r.shown = windows[w].shown
  BY <1>1 DEF Windows
<1>3. windows' = [windows EXCEPT ![w] = r]
  BY DEF WindowsOK
<1> HIDE DEF r
<1>4. /\ WindowsOK' /\ DOMAIN windows' = DOMAIN windows /\ windows'[w] = r
      /\ \A v \in DOMAIN windows : v # w => windows'[v] = windows[v]
  BY <1>2, <1>3, OneWindow
<1> QED BY <1>2, <1>4 DEF SameWindows

\* push_event: the oldest event makes room.
LEMMA Pushed ==
    ASSUME WindowsOK, NEW w, NEW ev \in Events, windows' = PushEvent(w, ev)
    PROVE  /\ WindowsOK' /\ SameWindows({ev})
           /\ \A v \in DOMAIN windows : v # w => windows'[v] = windows[v]
<1>1. CASE ~exists(w)
  BY <1>1 DEF PushEvent, SameWindows, WindowsOK
<1>2. CASE exists(w)
  <2> DEFINE q == windows[w].events
             kept == IF Len(q) >= EVENT_QUEUE_CAP THEN Tail(q) ELSE q
  <2>1. q \in Seq(Events) /\ Len(q) \in Nat /\ Len(q) <= EVENT_QUEUE_CAP /\ w \in DOMAIN windows
    BY <1>2, LenProperties DEF WindowsOK, Windows, exists
  <2>2. EVENT_QUEUE_CAP \in Nat \ {0}
    BY WmAssumption
  <2>3. windows' = [windows EXCEPT ![w].events = Append(kept, ev)]
    BY <1>2 DEF PushEvent
  <2> HIDE DEF q
  <2>4. kept \in Seq(Events) /\ Len(kept) + 1 <= EVENT_QUEUE_CAP /\ Elems(kept) \subseteq Elems(q)
    <3>1. CASE Len(q) >= EVENT_QUEUE_CAP
      <4>1. q # <<>>
        BY <2>1, <2>2, <3>1
      <4>2. Tail(q) \in Seq(Events) /\ Len(Tail(q)) = Len(q) - 1 /\ Elems(q) = Elems(Tail(q)) \cup {Head(q)}
        BY <2>1, <4>1, TailElems
      <4> QED BY <2>1, <2>2, <3>1, <4>2
    <3>2. CASE ~(Len(q) >= EVENT_QUEUE_CAP)
      BY <2>1, <2>2, <3>2
    <3> QED BY <3>1, <3>2
  <2> HIDE DEF kept
  <2>5. /\ Append(kept, ev) \in Seq(Events) /\ Len(Append(kept, ev)) = Len(kept) + 1
        /\ Elems(Append(kept, ev)) = Elems(kept) \cup {ev}
    BY <2>4, AppendElems
  <2>6. Len(Append(kept, ev)) <= EVENT_QUEUE_CAP /\ Elems(Append(kept, ev)) \subseteq Elems(windows[w].events) \cup {ev}
    BY <2>4, <2>5 DEF q
  <2>7. PICK x \in Seq(Events) : x = Append(kept, ev)
    BY <2>5
  <2>8. WindowsOK' /\ SameWindows({ev})
    BY <2>1, <2>3, <2>6, <2>7, EventKept
  <2>9. \A v \in DOMAIN windows : v # w => windows'[v] = windows[v]
    BY <2>3
  <2> QED BY <2>8, <2>9
<1> QED BY <1>1, <1>2

\* poll_event: the oldest event goes.
LEMMA Polled ==
    ASSUME WindowsOK, NEW w \in DOMAIN windows, windows[w].events # <<>>, windows' = PollEvent(w)
    PROVE  WindowsOK' /\ SameWindows({})
<1> DEFINE q == windows[w].events
<1>1. q \in Seq(Events) /\ Len(q) \in Nat /\ Len(q) <= EVENT_QUEUE_CAP /\ q # <<>>
  BY LenProperties DEF WindowsOK, Windows
<1>2. windows' = [windows EXCEPT ![w].events = Tail(q)]
  BY DEF PollEvent, WindowsOK
<1> HIDE DEF q
<1>3. Tail(q) \in Seq(Events) /\ Len(Tail(q)) = Len(q) - 1 /\ Elems(q) = Elems(Tail(q)) \cup {Head(q)}
  BY <1>1, TailElems
<1>4. PICK x \in Seq(Events) : x = Tail(q)
  BY <1>3
<1>5. Len(x) <= EVENT_QUEUE_CAP /\ Elems(x) \subseteq Elems(windows[w].events) \cup {}
  <2>1. EVENT_QUEUE_CAP \in Nat
    BY WmAssumption
  <2> QED BY <1>1, <1>3, <1>4, <2>1 DEF q
<1> QED BY <1>2, <1>4, <1>5, EventKept

\* commit and with_pixels change only whether the pixels are on the screen.
LEMMA Showed ==
    ASSUME WindowsOK, NEW w \in DOMAIN windows, NEW b \in BOOLEAN, windows' = [windows EXCEPT ![w].shown = b]
    PROVE  /\ WindowsOK' /\ DOMAIN windows' = DOMAIN windows
           /\ windows'[w].shown = b /\ windows'[w].events = windows[w].events
           /\ \A v \in DOMAIN windows : v # w => windows'[v] = windows[v]
<1> DEFINE r == [windows[w] EXCEPT !.shown = b]
<1>1. windows[w] \in Windows /\ Len(windows[w].events) <= EVENT_QUEUE_CAP
  BY DEF WindowsOK
<1>2. r \in Windows /\ r.events = windows[w].events /\ r.shown = b
  BY <1>1 DEF Windows
<1>3. windows' = [windows EXCEPT ![w] = r]
  BY DEF WindowsOK
<1> HIDE DEF r
<1> QED BY <1>1, <1>2, <1>3, OneWindow

LEMMA IdsFinite == ASSUME NEW S \in SUBSET Ids PROVE IsFiniteSet(S) /\ Cardinality(S) \in Nat
<1>1. IsFiniteSet(Ids)
  BY FS_Interval, WmAssumption DEF Ids
<1>2. IsFiniteSet(S)
  BY <1>1, FS_Subset
<1> QED BY <1>2, FS_CardinalityType

\* create_window: one more window, without events.
LEMMA Created ==
    ASSUME WindowsOK, NEW t \in Clients, CreateWindow(t), next_id \in 1..(MaxId + 1), next_id \notin DOMAIN windows
    PROVE  /\ WindowsOK' /\ DOMAIN windows' = DOMAIN windows \cup {next_id} /\ next_id \in Ids
           /\ windows'[next_id].events = <<>> /\ ~windows'[next_id].shown
           /\ \A v \in DOMAIN windows : windows'[v] = windows[v]
<1>1. next_id \in Ids /\ NewWindow(t) \in Windows /\ NewWindow(t).events = <<>> /\ ~NewWindow(t).shown
  <2>1. <<>> \in Seq(Events)
    BY EmptySeq
  <2>2. next_id \in Ids
    BY WmAssumption DEF CreateWindow, Ids
  <2> QED BY <2>1, <2>2 DEF NewWindow, Windows
<1>2. PICK D : D = DOMAIN windows \cup {next_id}
  OBVIOUS
<1>3. windows' = [w \in D |-> IF w = next_id THEN NewWindow(t) ELSE windows[w]]
  BY <1>2 DEF CreateWindow
<1>4. DOMAIN windows' = D
  BY <1>3
<1>5. \A w \in D : windows'[w] = IF w = next_id THEN NewWindow(t) ELSE windows[w]
  BY <1>3
<1>6. \A w \in DOMAIN windows : windows[w] \in Windows
  BY DEF WindowsOK
<1>7. windows' \in [D -> Windows]
  BY <1>1, <1>2, <1>3, <1>6
<1>8. Cardinality(D) <= MAX_WINDOWS
  <2>1. IsFiniteSet(DOMAIN windows) /\ Cardinality(DOMAIN windows) \in Nat
    BY IdsFinite DEF WindowsOK
  <2>2. Cardinality(D) = Cardinality(DOMAIN windows) + 1
    BY <1>2, <2>1, FS_AddElement
  <2> QED BY <2>1, <2>2, WmAssumption DEF CreateWindow
<1>9. \A w \in D : Len(windows'[w].events) <= EVENT_QUEUE_CAP
  <2>1. Len(<<>>) <= EVENT_QUEUE_CAP
    BY WmAssumption
  <2> QED BY <1>1, <1>2, <1>5, <2>1 DEF WindowsOK
<1> QED BY <1>1, <1>2, <1>4, <1>5, <1>7, <1>8, <1>9 DEF WindowsOK

\* destroy_window and destroy_windows_owned_by: the others stay.
LEMMA Destroyed ==
    ASSUME WindowsOK, NEW ws, windows' = Without(ws)
    PROVE  /\ WindowsOK' /\ DOMAIN windows' = DOMAIN windows \ ws
           /\ \A v \in DOMAIN windows' : windows'[v] = windows[v]
<1>1. PICK D : D = DOMAIN windows \ ws
  OBVIOUS
<1>2. windows' = [w \in D |-> windows[w]]
  BY <1>1 DEF Without
<1>3. DOMAIN windows' = D /\ \A w \in D : windows'[w] = windows[w]
  BY <1>2
<1>4. windows' \in [D -> Windows]
  BY <1>1, <1>2 DEF WindowsOK
<1>5. Cardinality(D) <= MAX_WINDOWS
  <2>1. IsFiniteSet(DOMAIN windows) /\ Cardinality(DOMAIN windows) \in Nat /\ Cardinality(D) \in Nat
    BY <1>1, IdsFinite DEF WindowsOK
  <2>2. Cardinality(D) <= Cardinality(DOMAIN windows)
    BY <1>1, <2>1, FS_Subset
  <2>3. MAX_WINDOWS \in Nat /\ Cardinality(DOMAIN windows) <= MAX_WINDOWS
    BY WmAssumption DEF WindowsOK
  <2> QED BY <2>1, <2>2, <2>3
<1> QED BY <1>1, <1>3, <1>4, <1>5 DEF WindowsOK


-----------------------------------------------------------------------------
(* The invariant in parts *)

QueueTypes ==
    /\ pending_new \in Seq(Ids) /\ pending_destroy \in Seq(Ids)
    /\ next_id \in 1..(MaxId + 1)
    /\ dirty \in BOOLEAN
    /\ ended \subseteq Clients
    /\ demo \in DemoPoints /\ demo_id \in 0..MaxId

SceneOK == scene \in Seq(Frames) /\ IsInjective(scene) /\ focus = TopOf(scene)

LocalTypes ==
    /\ dragging \in BOOLEAN /\ prev_left \in BOOLEAN /\ prev_left_client \in BOOLEAN /\ scene_dirty \in BOOLEAN
    /\ focused_client \in 0..MaxId /\ hand \in 0..MaxId
    /\ mouse \in [changed : BOOLEAN, left : BOOLEAN]
    /\ at \in Points
    /\ key \in 0..MaxId /\ todo \subseteq Ids /\ console \in Seq(0..MaxId)
    /\ term_focus \in {NoTerm} \cup Terms
    /\ machine \in {"up", "panic"}
    /\ screen \in Seq(Frames)
    /\ keys \in 0..MaxKeys

LEMMA TypeParts == WindowsOK /\ QueueTypes /\ SceneOK /\ LocalTypes => TypeOK /\ focus = TopOf(scene)
<1> SUFFICES ASSUME WindowsOK, QueueTypes, SceneOK, LocalTypes PROVE TypeOK /\ focus = TopOf(scene)
  OBVIOUS
<1>1. WmTypeOK
  BY DEF WindowsOK, QueueTypes, WmTypeOK
<1>2. focus \in 1..(Cardinality(Frames) + 1)
  BY SceneBound DEF SceneOK
<1> QED BY <1>1, <1>2 DEF TypeOK, SceneOK, LocalTypes

LEMMA PartsOfTypes == TypeOK /\ focus = TopOf(scene) => WindowsOK /\ QueueTypes /\ SceneOK /\ LocalTypes
<1> SUFFICES ASSUME TypeOK, focus = TopOf(scene) PROVE WindowsOK /\ QueueTypes /\ SceneOK /\ LocalTypes
  OBVIOUS
<1>1. WindowsOK /\ QueueTypes
  BY DEF TypeOK, WindowsOK, QueueTypes, WmTypeOK
<1>2. SceneOK /\ LocalTypes
  BY DEF TypeOK, SceneOK, LocalTypes
<1> QED BY <1>1, <1>2

Kept == /\ WindowsOK /\ QueueTypes /\ SceneOK /\ LocalTypes
        /\ HandInv /\ IdsInv /\ MirrorInv /\ RoutingInv /\ NoLostRepaint /\ KeysNotLeaked

LEMMA InvParts == CompositorInv <=> Kept
BY TypeParts, PartsOfTypes DEF CompositorInv, Kept

\* KeysNotLeaked, by the set of the events a window has.
LEMMA KeysByElems ==
    KeysNotLeaked <=> \A w \in DOMAIN windows : \A ev \in Elems(windows[w].events) : ev[1] = "key" => ev = Key(w)
BY DEF KeysNotLeaked, Elems

LEMMA KeysFrame ==
    ASSUME KeysNotLeaked, NEW new, SameWindows(new), \A ev \in new : ev[1] # "key"
    PROVE  KeysNotLeaked'
<1>1. \A w \in DOMAIN windows : \A ev \in Elems(windows[w].events) : ev[1] = "key" => ev = Key(w)
  BY KeysByElems
<1>2. \A w \in DOMAIN windows' : \A ev \in Elems(windows'[w].events) : ev[1] = "key" => ev = Key(w)
  BY <1>1 DEF SameWindows
<1>3. KeysNotLeaked' <=> \A w \in DOMAIN windows' : \A ev \in Elems(windows'[w].events) : ev[1] = "key" => ev = Key(w)
  BY DEF KeysNotLeaked, Elems
<1> QED BY <1>2, <1>3

\* The same windows and frames, with nothing new in the queues.
LEMMA MirrorFrame ==
    ASSUME IdsInv, MirrorInv, HandInv',
           DOMAIN windows' = DOMAIN windows, ClientsOf(scene)' = ClientsOf(scene),
           UNCHANGED <<pending_new, pending_destroy, next_id>>,
           at # "size", at' # "size"
    PROVE  IdsInv' /\ MirrorInv'
<1>1. Announced' = Announced
  BY DEF Announced, Elems
<1>2. Elems(pending_new)' = Elems(pending_new) /\ Elems(pending_destroy)' = Elems(pending_destroy)
  BY DEF Elems
<1>3. IdsInv'
  BY <1>1, <1>2 DEF IdsInv
<1>4. MirrorInv'
  BY <1>1, <1>2 DEF MirrorInv
<1> QED BY <1>3, <1>4

\* Outside the blits a repaint that was owed is still owed.
LEMMA RepaintFrame ==
    ASSUME NoLostRepaint, at # "blit",
           \A w \in ClientsOf(scene)' \cap DOMAIN windows' :
              /\ w \in ClientsOf(scene) /\ w \in DOMAIN windows
              /\ windows[w].shown => windows'[w].shown,
           dirty => dirty' \/ scene_dirty', scene_dirty => scene_dirty',
           UNCHANGED <<demo, demo_id, screen>>, scene' # scene => scene_dirty'
    PROVE  NoLostRepaint'
<1>1. screen' # scene' => scene_dirty'
  BY DEF NoLostRepaint
<1>2. ASSUME NEW w \in ClientsOf(scene)', exists(w)', ~windows'[w].shown
      PROVE  dirty' \/ scene_dirty' \/ (demo' \in {"bump_create", "bump_commit"} /\ w = demo_id')
  <2>1. w \in ClientsOf(scene) /\ exists(w) /\ ~windows[w].shown
    BY <1>2 DEF exists
  <2>2. dirty \/ scene_dirty \/ (demo \in {"bump_create", "bump_commit"} /\ w = demo_id)
    BY <2>1 DEF NoLostRepaint
  <2> QED BY <2>2
<1> QED BY <1>1, <1>2 DEF NoLostRepaint

\* A step of the compositor that leaves frames and registry alone, but may push an event.
LEMMA QuietStep ==
    ASSUME Kept, WindowsOK', NEW new, SameWindows(new),
           UNCHANGED <<pending_new, pending_destroy, next_id, ended, demo, demo_id, scene, focus, screen>>,
           dirty' \in BOOLEAN, LocalTypes', HandInv', RoutingInv', KeysNotLeaked',
           at \notin {"size", "blit"}, at' # "size",
           dirty => dirty' \/ scene_dirty', scene_dirty => scene_dirty'
    PROVE  Kept'
<1>1. QueueTypes' /\ SceneOK' /\ ClientsOf(scene)' = ClientsOf(scene)
  BY DEF Kept, QueueTypes, SceneOK, TopOf, ClientsOf
<1>2. IdsInv' /\ MirrorInv'
  BY <1>1, MirrorFrame DEF Kept, SameWindows
<1>3. NoLostRepaint'
  BY <1>1, RepaintFrame DEF Kept, SameWindows
<1> QED BY <1>1, <1>2, <1>3 DEF Kept


\* Away from the routing of input, who has the focus only matters to the console.
LEMMA RoutingFrame ==
    ASSUME RoutingInv, UNCHANGED <<console, focused_client>>,
           at' \notin {"read_key", "send_key", "pointer", "edge", "gain_flush"}
    PROVE  RoutingInv'
BY DEF RoutingInv

\* A quiet step that pushes nothing.
LEMMA StillStep ==
    ASSUME Kept, UNCHANGED <<windows, pending_new, pending_destroy, next_id, ended, demo, demo_id, scene, focus, screen>>,
           dirty' \in BOOLEAN, LocalTypes', HandInv', RoutingInv',
           at \notin {"size", "blit"}, at' # "size",
           dirty => dirty' \/ scene_dirty', scene_dirty => scene_dirty'
    PROVE  Kept'
<1>1. WindowsOK' /\ SameWindows({})
  BY DEF Kept, WindowsOK, SameWindows
<1>2. KeysNotLeaked'
  BY <1>1, KeysFrame DEF Kept
<1> QED BY <1>1, <1>2, QuietStep

\* A quiet step that pushes an event which is not a key.
LEMMA NoticeStep ==
    ASSUME Kept, NEW w, NEW ev \in {Notice, Close}, windows' = PushEvent(w, ev),
           UNCHANGED <<pending_new, pending_destroy, next_id, ended, demo, demo_id, scene, focus, screen>>,
           UNCHANGED <<dirty, scene_dirty>>, LocalTypes', HandInv', RoutingInv',
           at \notin {"size", "blit"}, at' # "size"
    PROVE  Kept'
<1>1. ev \in Events /\ ev[1] # "key"
  BY DEF Notice, Close, Events
<1>2. WindowsOK' /\ SameWindows({ev})
  BY <1>1, Pushed DEF Kept
<1>3. KeysNotLeaked'
  BY <1>1, <1>2, KeysFrame DEF Kept
<1>4. dirty' \in BOOLEAN
  BY DEF Kept, QueueTypes
<1> QED BY <1>2, <1>3, <1>4, QuietStep

\* The mouse, where it moves nothing, and the read of DIRTY.
LEMMA MouseKeeps ==
    ASSUME Kept, ReadDirty \/ NoMouse \/ Drag \/ Drop \/ MouseElsewhere
    PROVE  Kept'
<1>1. /\ UNCHANGED <<windows, pending_new, pending_destroy, next_id, ended, demo, demo_id>>
      /\ UNCHANGED <<scene, focus, screen, todo, hand, console, key, keys, term_focus, focused_client>>
      /\ at \in {"read_dirty", "mouse"} /\ at' \in {"mouse", "focus"}
  BY DEF ReadDirty, NoMouse, Drag, Drop, MouseElsewhere, MouseStep, Go, Registry, Arrangement, Buttons, Keyboard, Painting, wmVars
<1>2. LocalTypes'
  <2>1. /\ dragging' \in BOOLEAN /\ prev_left' \in BOOLEAN /\ prev_left_client' \in BOOLEAN
        /\ mouse' \in [changed : BOOLEAN, left : BOOLEAN] /\ machine' \in {"up", "panic"}
    BY DEF ReadDirty, NoMouse, Drag, Drop, MouseElsewhere, MouseStep, Go, Registry, Arrangement, Buttons, Keyboard, Painting, wmVars,
           Kept, LocalTypes
  <2>2. scene_dirty' \in BOOLEAN /\ at' \in Points
    BY <1>1 DEF ReadDirty, NoMouse, Drag, Drop, MouseElsewhere, MouseStep, Kept, LocalTypes, Points
  <2> QED
    BY <1>1, <2>1, <2>2 DEF Kept, LocalTypes
<1>3. dirty' \in BOOLEAN /\ (dirty => dirty' \/ scene_dirty') /\ (scene_dirty => scene_dirty')
  <2>1. CASE ReadDirty
    BY <2>1 DEF ReadDirty
  <2>2. CASE NoMouse \/ Drag \/ Drop \/ MouseElsewhere
    <3>1. dirty' = dirty
      BY <2>2 DEF NoMouse, Drag, Drop, MouseElsewhere, wmVars
    <3>2. scene_dirty' = scene_dirty \/ scene_dirty' = TRUE
      BY <2>2 DEF NoMouse, Drag, Drop, MouseElsewhere
    <3> QED BY <3>1, <3>2 DEF Kept, QueueTypes
  <2> QED BY <2>1, <2>2
<1>4. HandInv'
  BY <1>1 DEF Kept, HandInv
<1>5. RoutingInv'
  BY <1>1, RoutingFrame DEF Kept
<1> QED BY <1>1, <1>2, <1>3, <1>4, <1>5, StillStep

\* CloseClient only takes the window in hand, which has a frame.
LEMMA CloseClientKeeps ==
    ASSUME Kept, CloseClient
    PROVE  Kept'
<1>1. /\ UNCHANGED <<windows, pending_new, pending_destroy, next_id, dirty, ended, demo, demo_id>>
      /\ UNCHANGED <<scene, focus, dragging, screen, todo, console, key, keys, term_focus, focused_client>>
      /\ UNCHANGED <<scene_dirty, prev_left_client, mouse, machine>>
      /\ at = "mouse" /\ at' = "close" /\ prev_left' = mouse.left
  BY DEF CloseClient, MouseStep, Go, Arrangement, Keyboard, Painting, wmVars
<1>2. PICK i \in DOMAIN scene : IsClient(i) /\ hand' = scene[i].id
  BY DEF CloseClient
<1>3. scene[i] \in Frames
  BY DEF Kept, SceneOK
<1>4. hand' \in Ids /\ scene[i] = Frame("client", hand')
  BY <1>2, <1>3, FramesKinds DEF IsClient
<1>5. hand' \in ClientsOf(scene)
  BY <1>4 DEF ClientsOf
<1>6. hand' # 0 /\ hand' \in 0..MaxId
  BY <1>4, WmAssumption DEF Ids
<1>7. HandInv'
  <2>1. ClientsOf(scene)' = ClientsOf(scene)
    BY <1>1 DEF ClientsOf
  <2> QED BY <1>1, <1>5, <1>6, <2>1 DEF HandInv
<1>8. LocalTypes'
  BY <1>1, <1>6 DEF Kept, LocalTypes, Points
<1>9. RoutingInv' /\ dirty' \in BOOLEAN
  BY <1>1, RoutingFrame DEF Kept, QueueTypes
<1> QED BY <1>1, <1>7, <1>8, <1>9, StillStep

LEMMA SendCloseKeeps ==
    ASSUME Kept, SendClose
    PROVE  Kept'
<1>1. /\ UNCHANGED <<pending_new, pending_destroy, next_id, dirty, ended, demo, demo_id>>
      /\ UNCHANGED <<scene, focus, dragging, screen, todo, console, key, keys, term_focus, focused_client>>
      /\ UNCHANGED <<scene_dirty, prev_left, prev_left_client, mouse, machine, hand>>
      /\ at = "close" /\ at' = "close_destroy" /\ windows' = PushEvent(hand, Close)
  BY DEF SendClose, Go, Registry, Arrangement, Buttons, Keyboard, Painting
<1>2. HandInv'
  BY <1>1 DEF Kept, HandInv, ClientsOf
<1>3. LocalTypes'
  BY <1>1 DEF Kept, LocalTypes, Points
<1>4. RoutingInv'
  BY <1>1, RoutingFrame DEF Kept
<1> QED BY <1>1, <1>2, <1>3, <1>4, NoticeStep


-----------------------------------------------------------------------------
(* Focus and routing *)

LEMMA TopClientType == ASSUME SceneOK PROVE TopClient \in 0..MaxId /\ TopTerm \in {NoTerm} \cup Terms
<1>1. ASSUME FocusOnTopFrame PROVE scene[focus] \in Frames
  <2>1. focus \in DOMAIN scene
    BY <1>1, LenProperties, EmptySeq DEF FocusOnTopFrame, SceneOK
  <2> QED BY <2>1 DEF SceneOK
<1>2. ASSUME FocusOnTopFrame, scene[focus].kind = "client" PROVE scene[focus].id \in 0..MaxId
  <2>1. scene[focus].id \in Ids
    BY <1>1, <1>2, FramesKinds
  <2> QED BY <2>1, WmAssumption DEF Ids
<1>3. ASSUME FocusOnTopFrame, scene[focus].kind = "terminal" PROVE scene[focus].id \in Terms
  BY <1>1, <1>3, FramesKinds
<1>4. 0 \in 0..MaxId
  BY WmAssumption
<1> QED BY <1>2, <1>3, <1>4 DEF TopClient, TopTerm

\* What all these steps leave alone.
RoutingStep ==
    /\ UNCHANGED <<pending_new, pending_destroy, next_id, dirty, ended, demo, demo_id>>
    /\ UNCHANGED <<scene, focus, dragging, screen, todo, keys, scene_dirty, prev_left, mouse, machine, hand>>

LEMMA SameTop == ASSUME UNCHANGED <<scene, focus>> PROVE TopClient' = TopClient
BY DEF TopClient, FocusOnTopFrame

LEMMA RoutingTypes ==
    ASSUME Kept, RoutingStep, at' \in Points, focused_client' \in 0..MaxId, key' \in 0..MaxId,
           console' \in Seq(0..MaxId), term_focus' \in {NoTerm} \cup Terms, prev_left_client' \in BOOLEAN
    PROVE  LocalTypes'
BY DEF Kept, LocalTypes, RoutingStep

LEMMA SetTermFocusKeeps ==
    ASSUME Kept, SetTermFocus
    PROVE  Kept'
<1>1. /\ RoutingStep /\ UNCHANGED <<windows, key, focused_client, prev_left_client>>
      /\ at = "focus" /\ at' = "blur" /\ term_focus' = TopTerm
      /\ console' = <<>> \/ console' = console
  BY DEF SetTermFocus, RoutingStep, Go, Arrangement, Buttons, Painting, wmVars
<1>2. HandInv'
  BY <1>1 DEF Kept, HandInv, RoutingStep
<1>3. LocalTypes'
  <2>1. <<>> \in Seq(0..MaxId)
    BY EmptySeq
  <2>2. focused_client \in 0..MaxId /\ key \in 0..MaxId /\ console \in Seq(0..MaxId) /\ prev_left_client \in BOOLEAN
    BY DEF Kept, LocalTypes
  <2>3. at' \in Points
    BY <1>1 DEF Points
  <2> QED BY <1>1, <2>1, <2>2, <2>3, TopClientType, RoutingTypes DEF Kept
<1>4. RoutingInv'
  BY <1>1 DEF Kept, RoutingInv
<1>5. dirty' \in BOOLEAN /\ (dirty => dirty') /\ (scene_dirty => scene_dirty')
  BY <1>1 DEF Kept, QueueTypes, RoutingStep
<1> QED BY <1>1, <1>2, <1>3, <1>4, <1>5, StillStep DEF RoutingStep

LEMMA SendBlurKeeps ==
    ASSUME Kept, SendBlur
    PROVE  Kept'
<1>1. /\ RoutingStep /\ UNCHANGED <<console, key, term_focus, focused_client, prev_left_client>>
      /\ at = "blur"
      /\ \/ windows' = windows
         \/ windows' = PushEvent(focused_client, Notice)
      /\ \/ TopClient = focused_client /\ at' = Routed(TopClient)
         \/ at' = "gain"
  BY DEF SendBlur, SendNotice, RoutingStep, Go, Registry, Arrangement, Buttons, Keyboard, Painting
<1>0. at' \in {"read_key", "paint", "gain"} /\ (at' = "read_key" => TopClient = focused_client /\ focused_client # 0)
  BY <1>1 DEF Routed
<1>2. HandInv'
  BY <1>0, <1>1 DEF Kept, HandInv, RoutingStep
<1>3. LocalTypes'
  <2>1. /\ focused_client \in 0..MaxId /\ key \in 0..MaxId /\ console \in Seq(0..MaxId)
        /\ prev_left_client \in BOOLEAN /\ term_focus \in {NoTerm} \cup Terms
    BY DEF Kept, LocalTypes
  <2>2. at' \in Points
    BY <1>0 DEF Points
  <2> QED BY <1>1, <2>1, <2>2, RoutingTypes
<1>4. RoutingInv'
  BY <1>0, <1>1, SameTop DEF Kept, RoutingInv, RoutingStep
<1>5. dirty' \in BOOLEAN /\ (dirty => dirty') /\ (scene_dirty => scene_dirty')
  BY <1>1 DEF Kept, QueueTypes, RoutingStep
<1>6. CASE windows' = windows
  BY <1>0, <1>1, <1>2, <1>3, <1>4, <1>5, <1>6, StillStep DEF RoutingStep
<1>7. CASE windows' = PushEvent(focused_client, Notice)
  BY <1>0, <1>1, <1>2, <1>3, <1>4, <1>7, NoticeStep DEF RoutingStep
<1> QED BY <1>1, <1>6, <1>7

LEMMA SendFocusKeeps ==
    ASSUME Kept, SendFocus
    PROVE  Kept'
<1>1. /\ RoutingStep /\ UNCHANGED <<console, key, term_focus, prev_left_client>>
      /\ at = "gain"
      /\ \/ /\ TopClient # 0 /\ at' = "gain_flush" /\ focused_client' = focused_client
            /\ windows' = PushEvent(TopClient, Notice)
         \/ /\ TopClient = 0 /\ at' = "paint" /\ focused_client' = 0
            /\ windows' = windows
  BY DEF SendFocus, SendNotice, RoutingStep, Go, Registry, Arrangement, Buttons, Painting
<1>2. HandInv'
  BY <1>1 DEF Kept, HandInv, RoutingStep
<1>3. LocalTypes'
  <2>1. /\ focused_client \in 0..MaxId /\ key \in 0..MaxId /\ console \in Seq(0..MaxId) /\ 0 \in 0..MaxId
        /\ prev_left_client \in BOOLEAN /\ term_focus \in {NoTerm} \cup Terms
    BY WmAssumption DEF Kept, LocalTypes
  <2>2. at' \in Points
    BY <1>1 DEF Points
  <2>3. focused_client' \in 0..MaxId
    BY <1>1, <2>1
  <2> QED BY <1>1, <2>1, <2>2, <2>3, RoutingTypes
<1>4. RoutingInv'
  BY <1>1, SameTop DEF Kept, RoutingInv, RoutingStep
<1>5. dirty' \in BOOLEAN /\ (dirty => dirty') /\ (scene_dirty => scene_dirty')
  BY <1>1 DEF Kept, QueueTypes, RoutingStep
<1>6. CASE windows' = windows
  BY <1>1, <1>2, <1>3, <1>4, <1>5, <1>6, StillStep DEF RoutingStep
<1>7. CASE windows' = PushEvent(TopClient, Notice)
  BY <1>1, <1>2, <1>3, <1>4, <1>7, NoticeStep DEF RoutingStep
<1> QED BY <1>1, <1>6, <1>7

\* The flush empties the console before the client has the focus.
LEMMA FlushKeeps ==
    ASSUME Kept, FlushForClient
    PROVE  Kept'
<1>1. /\ RoutingStep /\ UNCHANGED <<windows, key, term_focus, prev_left_client>>
      /\ at = "gain_flush" /\ at' = "read_key" /\ focused_client' = TopClient /\ console' = <<>>
  BY DEF FlushForClient, RoutingStep, Go, Arrangement, Buttons, Painting, wmVars
<1>2. HandInv'
  BY <1>1 DEF Kept, HandInv, RoutingStep
<1>3. LocalTypes'
  <2>1. /\ key \in 0..MaxId /\ <<>> \in Seq(0..MaxId)
        /\ prev_left_client \in BOOLEAN /\ term_focus \in {NoTerm} \cup Terms
    BY EmptySeq DEF Kept, LocalTypes
  <2>2. at' \in Points
    BY <1>1 DEF Points
  <2>3. focused_client' \in 0..MaxId
    BY <1>1, TopClientType DEF Kept
  <2> QED BY <1>1, <2>1, <2>2, <2>3, RoutingTypes
<1>4. RoutingInv'
  BY <1>1, SameTop DEF Kept, RoutingInv, RoutingStep
<1>5. dirty' \in BOOLEAN /\ (dirty => dirty') /\ (scene_dirty => scene_dirty')
  BY <1>1 DEF Kept, QueueTypes, RoutingStep
<1> QED BY <1>1, <1>2, <1>3, <1>4, <1>5, StillStep DEF RoutingStep

LEMMA ReadKeyKeeps ==
    ASSUME Kept, ReadKey
    PROVE  Kept'
<1>1. /\ RoutingStep /\ UNCHANGED <<windows, focused_client, term_focus, prev_left_client>>
      /\ at = "read_key"
      /\ \/ console # <<>> /\ at' = "send_key" /\ key' = Head(console) /\ console' = Tail(console)
         \/ at' = "pointer" /\ key' = key /\ console' = console
  BY DEF ReadKey, RoutingStep, Go, Arrangement, Buttons, Painting, wmVars
<1>2. HandInv'
  BY <1>1 DEF Kept, HandInv, RoutingStep
<1>k. /\ key' \in 0..MaxId /\ console' \in Seq(0..MaxId) /\ Elems(console') \subseteq Elems(console)
      /\ at' = "send_key" => key' \in Elems(console)
  <2>1. console \in Seq(0..MaxId) /\ key \in 0..MaxId
    BY DEF Kept, LocalTypes
  <2>2. ASSUME console # <<>>
        PROVE  Head(console) \in 0..MaxId /\ Tail(console) \in Seq(0..MaxId)
               /\ Elems(console) = Elems(Tail(console)) \cup {Head(console)}
    BY <2>1, <2>2, TailElems
  <2> QED BY <1>1, <2>1, <2>2
<1>3. LocalTypes'
  <2>1. focused_client \in 0..MaxId /\ prev_left_client \in BOOLEAN /\ term_focus \in {NoTerm} \cup Terms
    BY DEF Kept, LocalTypes
  <2>2. at' \in Points
    BY <1>1 DEF Points
  <2> QED BY <1>1, <1>k, <2>1, <2>2, RoutingTypes
<1>4. RoutingInv'
  <2>1. focused_client # 0 /\ TopClient = focused_client /\ \A x \in Elems(console) : x = focused_client
    BY <1>1 DEF Kept, RoutingInv, Elems
  <2>2. \A i \in DOMAIN console' : console'[i] = focused_client
    BY <1>k, <2>1 DEF Elems
  <2>3. at' = "send_key" => key' = focused_client
    BY <1>k, <2>1
  <2> QED BY <1>1, <2>1, <2>2, <2>3, SameTop DEF RoutingInv, RoutingStep
<1>5. dirty' \in BOOLEAN /\ (dirty => dirty') /\ (scene_dirty => scene_dirty')
  BY <1>1 DEF Kept, QueueTypes, RoutingStep
<1> QED BY <1>1, <1>2, <1>3, <1>4, <1>5, StillStep DEF RoutingStep

\* The key goes to the client that had the focus when it was typed.
LEMMA SendKeyKeeps ==
    ASSUME Kept, SendKey
    PROVE  Kept'
<1>1. /\ RoutingStep /\ UNCHANGED <<console, focused_client, term_focus, prev_left_client>>
      /\ at = "send_key" /\ at' = "read_key" /\ key' = 0
      /\ windows' = PushEvent(TopClient, Key(key))
  BY DEF SendKey, RoutingStep, Go, Registry, Arrangement, Buttons, Painting
<1>2. HandInv'
  BY <1>1 DEF Kept, HandInv, RoutingStep
<1>3. LocalTypes'
  <2>1. /\ focused_client \in 0..MaxId /\ 0 \in 0..MaxId /\ console \in Seq(0..MaxId)
        /\ prev_left_client \in BOOLEAN /\ term_focus \in {NoTerm} \cup Terms
    BY WmAssumption DEF Kept, LocalTypes
  <2>2. at' \in Points
    BY <1>1 DEF Points
  <2> QED BY <1>1, <2>1, <2>2, RoutingTypes
<1>4. RoutingInv'
  BY <1>1, SameTop DEF Kept, RoutingInv, RoutingStep
<1>5. dirty' \in BOOLEAN /\ (dirty => dirty') /\ (scene_dirty => scene_dirty')
  BY <1>1 DEF Kept, QueueTypes, RoutingStep
<1>6. key = TopClient /\ Key(key) \in Events
  BY <1>1 DEF Kept, LocalTypes, RoutingInv, Events
<1>7. /\ WindowsOK' /\ SameWindows({Key(key)})
      /\ \A v \in DOMAIN windows : v # TopClient => windows'[v] = windows[v]
  BY <1>1, <1>6, Pushed DEF Kept
<1>8. KeysNotLeaked'
  <2>1. \A w \in DOMAIN windows : \A ev \in Elems(windows[w].events) : ev[1] = "key" => ev = Key(w)
    BY KeysByElems DEF Kept
  <2>2. \A w \in DOMAIN windows' : \A ev \in Elems(windows'[w].events) : ev[1] = "key" => ev = Key(w)
    BY <1>6, <1>7, <2>1 DEF SameWindows
  <2>3. KeysNotLeaked' <=> \A w \in DOMAIN windows' : \A ev \in Elems(windows'[w].events) : ev[1] = "key" => ev = Key(w)
    BY DEF KeysNotLeaked, Elems
  <2> QED BY <2>2, <2>3
<1> QED BY <1>1, <1>2, <1>3, <1>4, <1>5, <1>7, <1>8, QuietStep DEF RoutingStep

LEMMA PointerKeeps ==
    ASSUME Kept, SendPointer \/ SendEdge
    PROVE  Kept'
<1>1. /\ RoutingStep /\ UNCHANGED <<console, key, focused_client, term_focus>>
      /\ at \in {"pointer", "edge"} /\ at' \in {"edge", "paint"}
      /\ windows' = PushEvent(TopClient, Notice) \/ windows' = windows
      /\ prev_left_client' \in {mouse.left, prev_left_client}
  BY DEF SendPointer, SendEdge, RoutingStep, Go, Registry, Arrangement, Buttons, Keyboard, Painting
<1>2. HandInv'
  BY <1>1 DEF Kept, HandInv, RoutingStep
<1>3. LocalTypes'
  <2>1. /\ focused_client \in 0..MaxId /\ key \in 0..MaxId /\ console \in Seq(0..MaxId)
        /\ prev_left_client' \in BOOLEAN /\ term_focus \in {NoTerm} \cup Terms
    BY <1>1 DEF Kept, LocalTypes
  <2>2. at' \in Points
    BY <1>1 DEF Points
  <2> QED BY <1>1, <2>1, <2>2, RoutingTypes
<1>4. RoutingInv'
  BY <1>1, SameTop DEF Kept, RoutingInv, RoutingStep
<1>5. dirty' \in BOOLEAN /\ (dirty => dirty') /\ (scene_dirty => scene_dirty')
  BY <1>1 DEF Kept, QueueTypes, RoutingStep
<1>6. CASE windows' = windows
  BY <1>1, <1>2, <1>3, <1>4, <1>5, <1>6, StillStep DEF RoutingStep
<1>7. CASE windows' = PushEvent(TopClient, Notice)
  BY <1>1, <1>2, <1>3, <1>4, <1>7, NoticeStep DEF RoutingStep
<1> QED BY <1>1, <1>6, <1>7


-----------------------------------------------------------------------------
(* Steps that change the frames *)

\* The frames after a frame has been added on top, or taken away.
LEMMA PushedScene ==
    ASSUME SceneOK, NEW f \in Frames, f \notin Elems(scene), PushFrame(f)
    PROVE  SceneOK' /\ Elems(scene') = Elems(scene) \cup {f} /\ scene_dirty' = TRUE
<1>1. scene' = Append(scene, f) /\ focus' = Len(scene) + 1 /\ scene_dirty' = TRUE
  BY DEF PushFrame
<1>2. /\ scene' \in Seq(Frames) /\ Len(scene') = Len(scene) + 1
      /\ Elems(scene') = Elems(scene) \cup {f} /\ IsInjective(scene')
  BY <1>1, AppendElems DEF SceneOK
<1>3. scene' # <<>>
  BY <1>1, AppendProperties DEF SceneOK
<1> QED BY <1>1, <1>2, <1>3 DEF SceneOK, TopOf

LEMMA RemovedScene ==
    ASSUME SceneOK, NEW i \in DOMAIN scene, scene' = RemoveAt(scene, i),
           focus' = TopOf(scene') \/ focus' = FocusAfterClose(i)
    PROVE  SceneOK' /\ Elems(scene') = Elems(scene) \ {scene[i]}
<1>1. /\ scene' \in Seq(Frames) /\ Len(scene') = Len(scene) - 1
      /\ IsInjective(scene') /\ Elems(scene') = Elems(scene) \ {scene[i]}
  BY Removed, RemovedElems DEF SceneOK
<1>2. Len(scene) \in Nat /\ i \in 1..Len(scene) /\ scene # <<>> /\ focus = Len(scene)
  BY LenProperties DEF SceneOK, TopOf
<1>3. focus' = TopOf(scene')
  <2>1. CASE i = focus
    BY <2>1 DEF FocusAfterClose
  <2>2. CASE i # focus
    <3>1. focus >= i /\ Len(scene) > 1
      BY <1>2, <2>2
    <3>2. scene' # <<>>
      BY <1>1, <1>2, <3>1, EmptySeq
    <3> QED BY <1>1, <1>2, <2>2, <3>1, <3>2 DEF FocusAfterClose, TopOf
  <2> QED BY <2>1, <2>2
<1> QED BY <1>1, <1>3 DEF SceneOK

LEMMA PlaceOf ==
    ASSUME NEW f \in Elems(scene)
    PROVE  Place(f) \in DOMAIN scene /\ scene[Place(f)] = f
BY DEF Place, Elems

\* The clients with a frame, when the frames change.
LEMMA ClientsChange ==
    ASSUME NEW f, f.kind # "client"
    PROVE  /\ Elems(scene') = Elems(scene) \cup {f} => ClientsOf(scene)' = ClientsOf(scene)
           /\ Elems(scene') = Elems(scene) \ {f} => ClientsOf(scene)' = ClientsOf(scene)
           /\ Elems(scene') = Elems(scene) => ClientsOf(scene)' = ClientsOf(scene)
<1>1. \A w : w \in ClientsOf(scene) <=> w \in Ids /\ Frame("client", w) \in Elems(scene)
  BY ClientsElems
<1>2. \A w : w \in ClientsOf(scene') <=> w \in Ids /\ Frame("client", w) \in Elems(scene')
  BY ClientsElems
<1>3. \A w : Frame("client", w) # f
  BY FrameFacts
<1> QED BY <1>1, <1>2, <1>3

LEMMA ClientChanges ==
    ASSUME NEW c \in Ids
    PROVE  /\ Elems(scene') = Elems(scene) \cup {Frame("client", c)} => ClientsOf(scene)' = ClientsOf(scene) \cup {c}
           /\ Elems(scene') = Elems(scene) \ {Frame("client", c)} => ClientsOf(scene)' = ClientsOf(scene) \ {c}
<1>1. \A w : w \in ClientsOf(scene) <=> w \in Ids /\ Frame("client", w) \in Elems(scene)
  BY ClientsElems
<1>2. \A w : w \in ClientsOf(scene') <=> w \in Ids /\ Frame("client", w) \in Elems(scene')
  BY ClientsElems
<1>3. \A w : Frame("client", w) = Frame("client", c) <=> w = c
  BY FrameFacts
<1> QED BY <1>1, <1>2, <1>3

\* Once the scene is dirty, everything in it is going to be painted.
LEMMA DirtyScene == ASSUME scene_dirty' = TRUE PROVE NoLostRepaint'
BY DEF NoLostRepaint

LEMMA SameKeys == ASSUME KeysNotLeaked, windows' = windows PROVE KeysNotLeaked'
BY DEF KeysNotLeaked

LEMMA SameWindowsOK == ASSUME WindowsOK, windows' = windows PROVE WindowsOK'
BY DEF WindowsOK

\* NewTerminal, CloseOwn and Raise: frames that are not a client's come and go, and
\* a frame of any kind comes to the top.
LEMMA OwnFramesKeep ==
    ASSUME Kept, NewTerminal \/ CloseOwn \/ Raise
    PROVE  Kept'
<1>1. /\ UNCHANGED <<windows, pending_new, pending_destroy, next_id, dirty, ended, demo, demo_id>>
      /\ UNCHANGED <<screen, todo, hand, console, key, keys, term_focus, focused_client, prev_left_client, mouse, machine>>
      /\ at = "mouse" /\ at' = "focus" /\ scene_dirty' = TRUE
      /\ prev_left' = mouse.left /\ dragging' \in BOOLEAN
  BY DEF NewTerminal, CloseOwn, Raise, MouseStep, Go, PushFrame, RemoveClosed, Keyboard, Painting, wmVars, Kept, LocalTypes
<1>2. SceneOK' /\ ClientsOf(scene)' = ClientsOf(scene)
  <2>s. SceneOK
    BY DEF Kept
  <2>1. CASE NewTerminal
    <3>1. PICK t \in Terms \ Slots : PushFrame(Frame("terminal", t))
      BY <2>1 DEF NewTerminal
    <3>2. Frame("terminal", t) \in Frames /\ Frame("terminal", t) \notin Elems(scene)
      BY DEF Frames, Slots, Elems
    <3>3. PICK f \in Frames : f = Frame("terminal", t)
      BY <3>2
    <3>4. SceneOK' /\ Elems(scene') = Elems(scene) \cup {f}
      BY <2>s, <3>1, <3>2, <3>3, PushedScene
    <3>5. f.kind # "client"
      BY <3>3, FrameFacts
    <3> QED BY <3>4, <3>5, ClientsChange
  <2>2. CASE CloseOwn
    <3>1. PICK i \in DOMAIN scene : ~IsClient(i) /\ RemoveClosed(i)
      BY <2>2 DEF CloseOwn
    <3>2. SceneOK' /\ Elems(scene') = Elems(scene) \ {scene[i]}
      BY <2>s, <3>1, RemovedScene DEF RemoveClosed
    <3> QED BY <3>1, <3>2, ClientsChange DEF IsClient
  <2>3. CASE Raise
    <3>1. PICK i \in DOMAIN scene : scene' = Append(RemoveAt(scene, i), scene[i]) /\ focus' = Len(scene)
      BY <2>3 DEF Raise
    <3>2. PICK r : r = RemoveAt(scene, i)
      OBVIOUS
    <3>3. /\ r \in Seq(Frames) /\ Len(r) = Len(scene) - 1
          /\ IsInjective(r) /\ Elems(r) = Elems(scene) \ {scene[i]}
      BY <2>s, <3>2, Removed, RemovedElems DEF SceneOK
    <3>4. scene[i] \in Frames /\ scene[i] \in Elems(scene) /\ Len(scene) \in Nat
      BY <2>s, LenProperties DEF SceneOK, Elems
    <3>5. PICK f \in Frames : f = scene[i]
      BY <3>4
    <3>6. scene' = Append(r, f)
      BY <3>1, <3>2, <3>5
    <3>7. /\ scene' \in Seq(Frames) /\ Len(scene') = Len(r) + 1 /\ scene' # <<>>
          /\ Elems(scene') = Elems(r) \cup {f} /\ IsInjective(scene')
      BY <3>3, <3>5, <3>6, AppendElems, AppendProperties
    <3>8. Elems(scene') = Elems(scene)
      BY <3>3, <3>4, <3>5, <3>7
    <3>9. SceneOK'
      BY <3>1, <3>3, <3>4, <3>7 DEF SceneOK, TopOf
    <3>10. Frame("info", 1).kind # "client"
      BY FrameFacts
    <3> QED BY <3>8, <3>9, <3>10, ClientsChange
  <2> QED BY <2>1, <2>2, <2>3
<1>3. HandInv' /\ RoutingInv'
  BY <1>1, RoutingFrame DEF Kept, HandInv
<1>4. IdsInv' /\ MirrorInv'
  BY <1>1, <1>2, <1>3, MirrorFrame DEF Kept
<1>5. NoLostRepaint' /\ KeysNotLeaked' /\ WindowsOK'
  BY <1>1, DirtyScene, SameKeys, SameWindowsOK DEF Kept
<1>6. QueueTypes'
  BY <1>1 DEF Kept, QueueTypes
<1>7. LocalTypes'
  BY <1>1 DEF Kept, LocalTypes, Points
<1> QED BY <1>2, <1>3, <1>4, <1>5, <1>6, <1>7 DEF Kept

\* take_pending_new: the announcement goes from the queue into the hand.
LEMMA TakeNewKeeps ==
    ASSUME Kept, TakeNew
    PROVE  Kept'
<1>1. /\ UNCHANGED <<windows, pending_destroy, next_id, dirty, ended, demo, demo_id>>
      /\ UNCHANGED <<scene, focus, dragging, screen, todo, console, key, keys, term_focus, focused_client>>
      /\ UNCHANGED <<scene_dirty, prev_left, prev_left_client, mouse, machine>>
      /\ at = "take_new"
      /\ \/ /\ pending_new # <<>> /\ at' = "size"
            /\ hand' = Head(pending_new) /\ pending_new' = Tail(pending_new)
         \/ at' = "take_destroy" /\ UNCHANGED <<hand, pending_new>>
  BY DEF TakeNew, Go, Arrangement, Buttons, Keyboard, Painting
<1>2. hand = 0 /\ SceneOK' /\ WindowsOK' /\ ClientsOf(scene)' = ClientsOf(scene)
  BY <1>1, SameWindowsOK DEF Kept, HandInv, SceneOK, TopOf, ClientsOf
<1>3. RoutingInv' /\ KeysNotLeaked'
  BY <1>1, RoutingFrame, SameKeys DEF Kept
<1>4. NoLostRepaint'
  BY <1>1, <1>2, RepaintFrame DEF Kept
<1>5. CASE at' = "take_destroy"
  <2>1. HandInv'
    BY <1>1, <1>2, <1>5 DEF HandInv
  <2>2. IdsInv' /\ MirrorInv'
    BY <1>1, <1>2, <1>5, <2>1, MirrorFrame DEF Kept
  <2>3. QueueTypes' /\ LocalTypes'
    BY <1>1, <1>5 DEF Kept, QueueTypes, LocalTypes, Points
  <2> QED BY <1>2, <1>3, <1>4, <2>1, <2>2, <2>3 DEF Kept
<1>6. CASE at' = "size"
  <2>1. pending_new \in Seq(Ids) /\ pending_new # <<>> /\ IsInjective(pending_new)
    BY <1>1, <1>6 DEF Kept, QueueTypes, IdsInv
  <2>2. /\ Head(pending_new) \in Ids /\ Tail(pending_new) \in Seq(Ids)
        /\ Elems(pending_new) = Elems(Tail(pending_new)) \cup {Head(pending_new)}
        /\ IsInjective(Tail(pending_new)) /\ Head(pending_new) \notin Elems(Tail(pending_new))
    BY <2>1, TailElems
  <2>3. /\ hand' \in Ids /\ pending_new' \in Seq(Ids) /\ IsInjective(pending_new')
        /\ Elems(pending_new) = Elems(pending_new') \cup {hand'} /\ hand' \notin Elems(pending_new')
    BY <1>1, <1>6, <2>2
  <2>4. Announced' = Announced /\ Elems(pending_destroy)' = Elems(pending_destroy)
    BY <1>1, <1>6, <2>3 DEF Announced, Elems
  <2>5. IdsInv' /\ MirrorInv'
    BY <1>1, <1>2, <2>3, <2>4 DEF Kept, IdsInv, MirrorInv, Elems
  <2>6. hand' # 0 /\ hand' \in 0..MaxId
    BY <2>3, WmAssumption DEF Ids
  <2>7. HandInv'
    BY <1>6, <2>6 DEF HandInv
  <2>8. QueueTypes' /\ LocalTypes'
    BY <1>1, <1>6, <2>3, <2>6 DEF Kept, QueueTypes, LocalTypes, Points
  <2> QED BY <1>2, <1>3, <1>4, <2>5, <2>7, <2>8 DEF Kept
<1> QED BY <1>1, <1>5, <1>6


\* A window that is still there gets its frame; one that has gone is forgotten.
LEMMA FrameNewKeeps ==
    ASSUME Kept, FrameNew
    PROVE  Kept'
<1>1. /\ UNCHANGED <<windows, pending_new, pending_destroy, next_id, dirty, ended, demo, demo_id>>
      /\ UNCHANGED <<dragging, screen, todo, console, key, keys, term_focus, focused_client>>
      /\ UNCHANGED <<prev_left, prev_left_client, mouse, machine>>
      /\ at = "size"
      /\ \/ exists(hand) /\ at' = "tell_new" /\ PushFrame(Frame("client", hand)) /\ hand' = hand
         \/ ~exists(hand) /\ at' = "take_new" /\ hand' = 0 /\ UNCHANGED <<scene, focus, scene_dirty>>
  BY DEF FrameNew, Go, Buttons, Keyboard, Painting, wmVars
<1>2. /\ hand \in Ids /\ hand \notin ClientsOf(scene) /\ hand \notin Elems(pending_new)
      /\ Announced = Elems(pending_new) \cup {hand}
  <2>1. hand \in 0..MaxId /\ hand # 0
    BY <1>1 DEF Kept, HandInv, LocalTypes
  <2> QED BY <1>1, <2>1, WmAssumption DEF Kept, IdsInv, Announced, Ids
<1>3. RoutingInv' /\ KeysNotLeaked' /\ WindowsOK' /\ QueueTypes'
  BY <1>1, RoutingFrame, SameKeys, SameWindowsOK DEF Kept, QueueTypes
<1>4. Announced' = Elems(pending_new) /\ Elems(pending_destroy)' = Elems(pending_destroy) /\ Elems(pending_new)' = Elems(pending_new)
  BY <1>1 DEF Announced, Elems
<1>5. CASE at' = "tell_new"
  <2>1. PICK f \in Frames : f = Frame("client", hand)
    BY <1>2 DEF Frames
  <2>2. f \notin Elems(scene)
    BY <1>2, <2>1, ClientsElems
  <2>3. SceneOK' /\ Elems(scene') = Elems(scene) \cup {f} /\ scene_dirty' = TRUE
    BY <1>1, <1>5, <2>1, <2>2, PushedScene DEF Kept
  <2>4. ClientsOf(scene)' = ClientsOf(scene) \cup {hand}
    BY <1>2, <2>1, <2>3, ClientChanges
  <2>5. HandInv'
    BY <1>1, <1>2, <1>5, <2>4 DEF Kept, HandInv
  <2>6. MirrorInv'
    BY <1>1, <1>2, <1>4, <1>5, <2>4 DEF Kept, MirrorInv, exists
  <2>7. IdsInv'
    BY <1>1, <1>2, <1>4, <1>5, <2>4 DEF Kept, IdsInv
  <2>8. NoLostRepaint'
    BY <2>3, DirtyScene
  <2>9. LocalTypes'
    BY <1>1, <1>5, <2>3 DEF Kept, LocalTypes, Points
  <2> QED BY <1>3, <2>3, <2>5, <2>6, <2>7, <2>8, <2>9 DEF Kept
<1>6. CASE at' = "take_new"
  <2>1. SceneOK' /\ ClientsOf(scene)' = ClientsOf(scene)
    BY <1>1, <1>6 DEF Kept, SceneOK, TopOf, ClientsOf
  <2>2. HandInv'
    BY <1>1, <1>6 DEF HandInv
  <2>3. MirrorInv'
    BY <1>1, <1>2, <1>4, <1>6, <2>1 DEF Kept, MirrorInv, exists
  <2>4. IdsInv'
    BY <1>1, <1>2, <1>4, <1>6, <2>1 DEF Kept, IdsInv
  <2>5. NoLostRepaint'
    BY <1>1, <1>6, <2>1, RepaintFrame DEF Kept
  <2>6. LocalTypes'
    <3>1. 0 \in 0..MaxId
      BY WmAssumption
    <3> QED BY <1>1, <1>6, <3>1 DEF Kept, LocalTypes, Points
  <2> QED BY <1>3, <2>1, <2>2, <2>3, <2>4, <2>5, <2>6 DEF Kept
<1> QED BY <1>1, <1>5, <1>6

LEMMA TellNewKeeps ==
    ASSUME Kept, TellNew
    PROVE  Kept'
<1>1. /\ UNCHANGED <<pending_new, pending_destroy, next_id, dirty, ended, demo, demo_id>>
      /\ UNCHANGED <<scene, focus, dragging, screen, todo, console, key, keys, term_focus, focused_client>>
      /\ UNCHANGED <<scene_dirty, prev_left, prev_left_client, mouse, machine>>
      /\ at = "tell_new" /\ at' = "take_new" /\ hand' = 0 /\ windows' = PushEvent(hand, Notice)
  BY DEF TellNew, SendNotice, Go, Registry, Arrangement, Buttons, Keyboard, Painting
<1>2. HandInv'
  BY <1>1 DEF HandInv
<1>3. LocalTypes'
  <2>1. 0 \in 0..MaxId
    BY WmAssumption
  <2> QED BY <1>1, <2>1 DEF Kept, LocalTypes, Points
<1>4. RoutingInv'
  BY <1>1, RoutingFrame DEF Kept
<1> QED BY <1>1, <1>2, <1>3, <1>4, NoticeStep

\* take_pending_destroy: the end that was announced is final, so the frame may go.
LEMMA TakeDestroyKeeps ==
    ASSUME Kept, TakeDestroy
    PROVE  Kept'
<1>1. /\ UNCHANGED <<windows, pending_new, next_id, dirty, ended, demo, demo_id>>
      /\ UNCHANGED <<dragging, screen, todo, hand, console, key, keys, term_focus>>
      /\ UNCHANGED <<prev_left, prev_left_client, mouse, machine>>
      /\ at = "take_destroy" /\ at' \in {"take_destroy", "read_dirty"}
  BY DEF TakeDestroy, Go, Buttons, Painting
<1>2. HandInv' /\ hand = 0
  BY <1>1 DEF Kept, HandInv
<1>3. KeysNotLeaked' /\ WindowsOK' /\ SceneOK /\ pending_destroy \in Seq(Ids)
  BY <1>1, SameKeys, SameWindowsOK DEF Kept, QueueTypes
<1>4. Announced' = Announced /\ Elems(pending_new)' = Elems(pending_new)
  BY <1>1 DEF Announced, Elems
<1>5. CASE pending_destroy = <<>>
  <2>1. UNCHANGED <<pending_destroy, scene, focus, focused_client, scene_dirty>>
    BY <1>5 DEF TakeDestroy
  <2>2. SceneOK' /\ ClientsOf(scene)' = ClientsOf(scene) /\ QueueTypes' /\ LocalTypes'
    BY <1>1, <2>1 DEF Kept, SceneOK, TopOf, ClientsOf, QueueTypes, LocalTypes, Points
  <2>3. RoutingInv'
    BY <1>1, <2>1, RoutingFrame DEF Kept
  <2>4. IdsInv' /\ MirrorInv'
    BY <1>1, <1>2, <2>1, <2>2, MirrorFrame DEF Kept
  <2>5. NoLostRepaint'
    BY <1>1, <2>1, <2>2, RepaintFrame DEF Kept
  <2> QED BY <1>2, <1>3, <2>2, <2>3, <2>4, <2>5 DEF Kept
<1>6. CASE pending_destroy # <<>>
  <2>1. PICK w \in Ids : w = Head(pending_destroy)
    BY <1>3, <1>6, TailElems
  <2>2. pending_destroy' = Tail(pending_destroy)
    BY <1>6 DEF TakeDestroy
  <2>3. pending_destroy' \in Seq(Ids) /\ Elems(pending_destroy) = Elems(pending_destroy') \cup {w}
    BY <1>3, <1>6, <2>1, <2>2, TailElems
  <2>4. QueueTypes'
    BY <1>1, <2>3 DEF Kept, QueueTypes
  <2>w. w \notin DOMAIN windows
    BY <2>3 DEF Kept, IdsInv
  <2>5. CASE w \notin ClientsOf(scene)
    <3>1. UNCHANGED <<scene, focus, focused_client, scene_dirty>>
      BY <1>6, <2>1, <2>5 DEF TakeDestroy
    <3>2. SceneOK' /\ ClientsOf(scene)' = ClientsOf(scene) /\ LocalTypes'
      BY <1>1, <3>1 DEF Kept, SceneOK, TopOf, ClientsOf, LocalTypes, Points
    <3>3. RoutingInv'
      BY <1>1, <3>1, RoutingFrame DEF Kept
    <3>4. IdsInv'
      BY <1>1, <1>4, <2>3, <3>2 DEF Kept, IdsInv
    <3>5. MirrorInv'
      BY <1>1, <1>4, <2>3, <2>5, <3>2 DEF Kept, MirrorInv
    <3>6. NoLostRepaint'
      BY <1>1, <3>1, <3>2, RepaintFrame DEF Kept
    <3> QED BY <1>2, <1>3, <2>4, <3>2, <3>3, <3>4, <3>5, <3>6 DEF Kept
  <2>6. CASE w \in ClientsOf(scene)
    <3>1. /\ scene' = RemoveAt(scene, Place(Frame("client", w))) /\ focus' = TopOf(scene')
          /\ focused_client' = (IF focused_client = w THEN 0 ELSE focused_client) /\ scene_dirty' = TRUE
      BY <1>6, <2>1, <2>6 DEF TakeDestroy
    <3>2. PICK i \in DOMAIN scene : i = Place(Frame("client", w)) /\ scene[i] = Frame("client", w)
      BY <2>6, ClientsElems, PlaceOf
    <3>3. SceneOK' /\ Elems(scene') = Elems(scene) \ {Frame("client", w)}
      BY <1>3, <3>1, <3>2, RemovedScene
    <3>4. ClientsOf(scene)' = ClientsOf(scene) \ {w}
      BY <3>3, ClientChanges
    <3>5. RoutingInv'
      BY <1>1, <3>1 DEF Kept, RoutingInv
    <3>6. IdsInv'
      BY <1>1, <1>4, <2>3, <3>4 DEF Kept, IdsInv
    <3>7. MirrorInv'
      BY <1>1, <1>4, <2>3, <2>w, <3>4 DEF Kept, MirrorInv
    <3>8. NoLostRepaint'
      BY <3>1, DirtyScene
    <3>9. LocalTypes'
      <4>1. focused_client' \in 0..MaxId /\ scene_dirty' \in BOOLEAN
        BY <3>1, WmAssumption DEF Kept, LocalTypes
      <4> QED BY <1>1, <4>1 DEF Kept, LocalTypes, Points
    <3> QED BY <1>2, <1>3, <2>4, <3>3, <3>5, <3>6, <3>7, <3>8, <3>9 DEF Kept
  <2> QED BY <2>5, <2>6
<1> QED BY <1>5, <1>6

\* The close button: the window, if it is still there, and its frame go together.
LEMMA CloseDestroyKeeps ==
    ASSUME Kept, CloseDestroy
    PROVE  Kept'
<1>1. /\ UNCHANGED <<pending_new, next_id, ended, demo, demo_id>>
      /\ UNCHANGED <<dragging, screen, todo, console, key, keys, term_focus>>
      /\ UNCHANGED <<prev_left, prev_left_client, mouse, machine>>
      /\ at = "close_destroy" /\ at' = "focus" /\ hand' = 0 /\ scene_dirty' = TRUE
      /\ focused_client' = (IF focused_client = hand THEN 0 ELSE focused_client)
      /\ scene' = RemoveAt(scene, Place(Frame("client", hand)))
      /\ focus' = FocusAfterClose(Place(Frame("client", hand)))
  BY DEF CloseDestroy, Go, RemoveClosed, Buttons, Painting
<1>2. hand \in ClientsOf(scene) /\ hand \in Ids
  BY <1>1 DEF Kept, HandInv, ClientsOf
<1>3. PICK i \in DOMAIN scene : i = Place(Frame("client", hand)) /\ scene[i] = Frame("client", hand)
  BY <1>2, ClientsElems, PlaceOf
<1>4. SceneOK' /\ Elems(scene') = Elems(scene) \ {Frame("client", hand)}
  BY <1>1, <1>3, RemovedScene DEF Kept
<1>5. ClientsOf(scene)' = ClientsOf(scene) \ {hand}
  BY <1>2, <1>4, ClientChanges
<1>6. HandInv' /\ RoutingInv' /\ NoLostRepaint'
  BY <1>1, DirtyScene DEF Kept, HandInv, RoutingInv
<1>7. LocalTypes'
  <2>1. focused_client' \in 0..MaxId /\ scene_dirty' \in BOOLEAN /\ hand' \in 0..MaxId
    BY <1>1, WmAssumption DEF Kept, LocalTypes
  <2> QED BY <1>1, <2>1 DEF Kept, LocalTypes, Points
<1>8. Announced' = Elems(pending_new) /\ Announced = Elems(pending_new) /\ Elems(pending_new)' = Elems(pending_new)
  BY <1>1 DEF Announced, Elems
<1>9. CASE exists(hand)
  <2>1. windows' = Without({hand}) /\ pending_destroy' = Append(pending_destroy, hand) /\ dirty' = TRUE
    BY <1>9 DEF CloseDestroy, DestroyWindow
  <2>2. /\ WindowsOK' /\ DOMAIN windows' = DOMAIN windows \ {hand}
        /\ \A v \in DOMAIN windows' : windows'[v] = windows[v]
    BY <2>1, Destroyed DEF Kept
  <2>3. pending_destroy' \in Seq(Ids) /\ Elems(pending_destroy') = Elems(pending_destroy) \cup {hand}
    BY <1>2, <2>1, AppendElems DEF Kept, QueueTypes
  <2>4. QueueTypes'
    BY <1>1, <2>1, <2>3 DEF Kept, QueueTypes
  <2>5. KeysNotLeaked'
    BY <2>2 DEF Kept, KeysNotLeaked
  <2>6. IdsInv'
    BY <1>1, <1>2, <1>5, <1>8, <2>2, <2>3 DEF Kept, IdsInv
  <2>7. MirrorInv'
    BY <1>2, <1>5, <1>8, <2>2, <2>3 DEF Kept, MirrorInv
  <2> QED BY <1>4, <1>6, <1>7, <2>2, <2>4, <2>5, <2>6, <2>7 DEF Kept
<1>10. CASE ~exists(hand)
  <2>1. UNCHANGED <<windows, pending_destroy, dirty>>
    BY <1>10 DEF CloseDestroy
  <2>2. WindowsOK' /\ QueueTypes' /\ KeysNotLeaked' /\ Elems(pending_destroy)' = Elems(pending_destroy)
    BY <1>1, <2>1, SameKeys, SameWindowsOK DEF Kept, QueueTypes, Elems
  <2>3. IdsInv'
    BY <1>1, <1>5, <1>8, <2>1, <2>2 DEF Kept, IdsInv
  <2>4. MirrorInv'
    BY <1>5, <1>8, <1>10, <2>1, <2>2 DEF Kept, MirrorInv, exists
  <2> QED BY <1>4, <1>6, <1>7, <2>2, <2>3, <2>4 DEF Kept
<1> QED BY <1>9, <1>10


-----------------------------------------------------------------------------
(* Painting *)

LEMMA PaintKeeps ==
    ASSUME Kept, Paint
    PROVE  Kept'
<1>1. /\ UNCHANGED <<windows, pending_new, pending_destroy, next_id, dirty, ended, demo, demo_id>>
      /\ UNCHANGED <<scene, focus, dragging, hand, console, key, keys, term_focus, focused_client>>
      /\ UNCHANGED <<prev_left, prev_left_client, machine>>
      /\ at = "paint" /\ scene_dirty' = FALSE /\ mouse' = [mouse EXCEPT !.changed = FALSE]
      /\ \/ screen' = scene /\ todo' = ClientsOf(scene)
         \/ ~scene_dirty /\ screen' = screen /\ todo' = {}
      /\ at' = IF todo' = {} THEN "take_new" ELSE "blit"
  BY DEF Paint, Blitting, Arrangement, Keyboard, wmVars
<1>2. SceneOK' /\ ClientsOf(scene)' = ClientsOf(scene) /\ QueueTypes'
  BY <1>1 DEF Kept, SceneOK, TopOf, ClientsOf, QueueTypes
<1>3. HandInv' /\ RoutingInv' /\ KeysNotLeaked' /\ WindowsOK'
  <2>1. at' \in {"take_new", "blit"}
    BY <1>1
  <2> QED BY <1>1, <2>1, RoutingFrame, SameKeys, SameWindowsOK DEF Kept, HandInv
<1>4. IdsInv' /\ MirrorInv'
  <2>1. at' # "size"
    BY <1>1
  <2> QED BY <1>1, <1>2, <1>3, <2>1, MirrorFrame DEF Kept
<1>5. LocalTypes'
  <2>1. screen' \in Seq(Frames) /\ todo' \subseteq Ids /\ at' \in Points
    BY <1>1 DEF Kept, LocalTypes, SceneOK, ClientsOf, Points
  <2>2. mouse' \in [changed : BOOLEAN, left : BOOLEAN] /\ scene_dirty' \in BOOLEAN
    BY <1>1 DEF Kept, LocalTypes
  <2> QED BY <1>1, <2>1, <2>2 DEF Kept, LocalTypes
<1>6. NoLostRepaint'
  <2>1. screen' = scene'
    BY <1>1 DEF Kept, NoLostRepaint
  <2>2. ASSUME NEW w \in ClientsOf(scene)', exists(w)', ~windows'[w].shown
        PROVE  \/ dirty' \/ (demo' \in {"bump_create", "bump_commit"} /\ w = demo_id')
               \/ (at' = "blit" /\ w \in todo')
    <3>1. w \in ClientsOf(scene) /\ exists(w) /\ ~windows[w].shown
      BY <1>1, <1>2, <2>2 DEF exists
    <3>2. CASE todo' = ClientsOf(scene)
      BY <1>1, <3>1, <3>2
    <3>3. CASE ~scene_dirty
      BY <1>1, <3>1, <3>3 DEF Kept, NoLostRepaint
    <3> QED BY <1>1, <3>2, <3>3
  <2> QED BY <2>1, <2>2 DEF NoLostRepaint
<1> QED BY <1>2, <1>3, <1>4, <1>5, <1>6 DEF Kept

LEMMA BlitKeeps ==
    ASSUME Kept, Blit
    PROVE  Kept'
<1>1. /\ UNCHANGED <<pending_new, pending_destroy, next_id, dirty, ended, demo, demo_id>>
      /\ UNCHANGED <<scene, focus, dragging, hand, console, key, keys, term_focus, focused_client>>
      /\ UNCHANGED <<prev_left, prev_left_client, machine, scene_dirty, mouse, screen>>
      /\ at = "blit"
  BY DEF Blit, Registry, Arrangement, Buttons, Keyboard
<1>2. PICK w \in todo : /\ windows' = IF exists(w) THEN [windows EXCEPT ![w].shown = TRUE] ELSE windows
                        /\ todo' = todo \ {w} /\ at' = IF todo' = {} THEN "take_new" ELSE "blit"
  BY DEF Blit, Blitting
<1>w. /\ WindowsOK' /\ DOMAIN windows' = DOMAIN windows
      /\ w \in DOMAIN windows => windows'[w].shown = TRUE /\ windows'[w].events = windows[w].events
      /\ \A v \in DOMAIN windows : v # w => windows'[v] = windows[v]
  <2>1. CASE w \in DOMAIN windows
    <3>1. windows' = [windows EXCEPT ![w].shown = TRUE]
      BY <1>2, <2>1 DEF exists
    <3> QED BY <2>1, <3>1, Showed DEF Kept
  <2>2. CASE w \notin DOMAIN windows
    BY <1>2, <2>2 DEF exists, Kept, WindowsOK
  <2> QED BY <2>1, <2>2
<1>3. SceneOK' /\ ClientsOf(scene)' = ClientsOf(scene) /\ QueueTypes'
  BY <1>1 DEF Kept, SceneOK, TopOf, ClientsOf, QueueTypes
<1>4. HandInv' /\ RoutingInv' /\ at' # "size"
  <2>1. at' \in {"take_new", "blit"}
    BY <1>2
  <2> QED BY <1>1, <2>1, RoutingFrame DEF Kept, HandInv
<1>5. KeysNotLeaked'
  BY <1>w DEF Kept, KeysNotLeaked
<1>6. IdsInv' /\ MirrorInv'
  BY <1>1, <1>3, <1>4, <1>w, MirrorFrame DEF Kept
<1>7. LocalTypes'
  BY <1>1, <1>2 DEF Kept, LocalTypes, Points
<1>8. NoLostRepaint'
  <2>1. screen' # scene' => scene_dirty'
    BY <1>1 DEF Kept, NoLostRepaint
  <2>2. ASSUME NEW v \in ClientsOf(scene)', exists(v)', ~windows'[v].shown
        PROVE  \/ dirty' \/ (demo' \in {"bump_create", "bump_commit"} /\ v = demo_id')
               \/ (at' = "blit" /\ v \in todo') \/ scene_dirty'
    <3>1. v \in ClientsOf(scene) /\ exists(v) /\ v # w /\ ~windows[v].shown
      BY <1>3, <1>w, <2>2 DEF exists
    <3>2. \/ dirty \/ (demo \in {"bump_create", "bump_commit"} /\ v = demo_id)
          \/ v \in todo \/ scene_dirty
      BY <3>1 DEF Kept, NoLostRepaint
    <3>3. v \in todo => at' = "blit" /\ v \in todo'
      BY <1>2, <3>1
    <3> QED BY <1>1, <3>2, <3>3
  <2> QED BY <2>1, <2>2 DEF NoLostRepaint
<1> QED BY <1>w, <1>3, <1>4, <1>5, <1>6, <1>7, <1>8 DEF Kept

-----------------------------------------------------------------------------
(* Steps of the clients, the keyboard and the shells *)

\* What a client never touches.
FramesStay == UNCHANGED <<frameVars, console, machine, keys>>

LEMMA ClientFrame ==
    ASSUME Kept, FramesStay
    PROVE  /\ SceneOK' /\ LocalTypes' /\ HandInv' /\ RoutingInv' /\ ClientsOf(scene)' = ClientsOf(scene)
           /\ UNCHANGED <<scene, screen, scene_dirty, at, todo, hand>>
<1>1. /\ UNCHANGED <<scene, focus, dragging, prev_left, prev_left_client, focused_client, mouse>>
      /\ UNCHANGED <<scene_dirty, at, hand, key, todo, term_focus, screen, console, machine, keys>>
  BY DEF FramesStay, frameVars
<1>2. SceneOK' /\ LocalTypes' /\ ClientsOf(scene)' = ClientsOf(scene) /\ HandInv'
  BY <1>1 DEF Kept, SceneOK, TopOf, LocalTypes, ClientsOf, HandInv
<1>3. RoutingInv'
  BY <1>1, SameTop DEF Kept, RoutingInv
<1> QED BY <1>1, <1>2, <1>3

\* What is left to show of a step of a client.
LEMMA ClientStep ==
    ASSUME Kept, FramesStay, WindowsOK', QueueTypes', IdsInv', MirrorInv', NoLostRepaint', KeysNotLeaked'
    PROVE  Kept'
BY ClientFrame DEF Kept

\* A client that has bumped DIRTY has the repaint it needs; one that has yet to do so
\* is the demo client on its own window.
LEMMA ClientRepaint ==
    ASSUME Kept, FramesStay,
           \/ dirty' = TRUE
           \/ /\ dirty => dirty'
              /\ \A w \in ClientsOf(scene) \cap DOMAIN windows' : ~windows'[w].shown =>
                    \/ w \in DOMAIN windows /\ ~windows[w].shown
                    \/ demo' \in {"bump_create", "bump_commit"} /\ w = demo_id'
              /\ demo \in {"bump_create", "bump_commit"} => demo' = demo /\ demo_id' = demo_id
    PROVE  NoLostRepaint'
<1>1. ClientsOf(scene)' = ClientsOf(scene) /\ UNCHANGED <<scene, screen, scene_dirty, at, todo>>
  BY ClientFrame
<1>2. screen' # scene' => scene_dirty'
  BY <1>1 DEF Kept, NoLostRepaint
<1>3. CASE dirty' = TRUE
  BY <1>2, <1>3 DEF NoLostRepaint
<1>4. CASE dirty' # TRUE
  <2>1. ASSUME NEW w \in ClientsOf(scene)', exists(w)', ~windows'[w].shown
        PROVE  \/ dirty' \/ (demo' \in {"bump_create", "bump_commit"} /\ w = demo_id')
               \/ (at' = "blit" /\ w \in todo') \/ scene_dirty'
    <3>1. CASE demo' \in {"bump_create", "bump_commit"} /\ w = demo_id'
      BY <3>1
    <3>2. CASE w \in DOMAIN windows /\ ~windows[w].shown
      <4>1. \/ dirty \/ (demo \in {"bump_create", "bump_commit"} /\ w = demo_id)
            \/ (at = "blit" /\ w \in todo) \/ scene_dirty
        BY <1>1, <2>1, <3>2 DEF Kept, NoLostRepaint, exists
      <4> QED BY <1>1, <1>4, <4>1
    <3> QED BY <1>1, <1>4, <2>1, <3>1, <3>2 DEF exists
  <2> QED BY <1>2, <2>1 DEF NoLostRepaint
<1> QED BY <1>3, <1>4

LEMMA CreateKeeps ==
    ASSUME Kept, FramesStay, NEW t \in Clients, CreateWindow(t), pending_destroy' = pending_destroy
    PROVE  /\ WindowsOK' /\ IdsInv' /\ MirrorInv' /\ KeysNotLeaked'
           /\ pending_new' \in Seq(Ids) /\ next_id' \in 1..(MaxId + 1) /\ next_id \in 0..MaxId
           /\ \A w \in ClientsOf(scene) \cap DOMAIN windows' : w \in DOMAIN windows /\ windows'[w] = windows[w]
<1>1. /\ next_id \in 1..(MaxId + 1) /\ next_id \in Nat /\ next_id <= MaxId /\ next_id' = next_id + 1
      /\ pending_new' = Append(pending_new, next_id) /\ pending_new \in Seq(Ids)
  BY WmAssumption DEF Kept, QueueTypes, CreateWindow
<1>2. \A w \in DOMAIN windows \cup ClientsOf(scene) \cup Announced \cup Elems(pending_destroy) : w < next_id
  BY DEF Kept, IdsInv
<1>i. \A w \in DOMAIN windows \cup ClientsOf(scene) \cup Announced \cup Elems(pending_destroy) : w \in Nat
  <2>1. Elems(pending_destroy) \subseteq Ids /\ Elems(pending_new) \subseteq Ids
    BY DEF Kept, QueueTypes, Elems
  <2>2. DOMAIN windows \subseteq Ids /\ ClientsOf(scene) \subseteq Ids
    BY DEF Kept, WindowsOK, ClientsOf
  <2>3. hand \in Nat /\ \A w \in Ids : w \in Nat
    BY WmAssumption DEF Kept, LocalTypes, Ids
  <2> QED BY <2>1, <2>2, <2>3 DEF Announced
<1>3. next_id \notin DOMAIN windows \cup ClientsOf(scene) \cup Announced \cup Elems(pending_destroy)
  BY <1>1, <1>2
<1>4. /\ WindowsOK' /\ DOMAIN windows' = DOMAIN windows \cup {next_id} /\ next_id \in Ids
      /\ windows'[next_id].events = <<>>
      /\ \A v \in DOMAIN windows : windows'[v] = windows[v]
  BY <1>1, <1>3, Created DEF Kept
<1>5. ClientsOf(scene)' = ClientsOf(scene) /\ at' = at /\ hand' = hand
  BY ClientFrame
<1>6. /\ pending_new' \in Seq(Ids) /\ Elems(pending_new') = Elems(pending_new) \cup {next_id}
      /\ IsInjective(pending_new')
  <2>1. IsInjective(pending_new) /\ next_id \notin Elems(pending_new)
    BY <1>3 DEF Kept, IdsInv, Announced
  <2> QED BY <1>1, <1>4, <2>1, AppendElems
<1>7. Announced' = Announced \cup {next_id} /\ Elems(pending_destroy)' = Elems(pending_destroy)
  BY <1>5, <1>6 DEF Announced, Elems
<1>8. IdsInv'
  <2>1. \A w \in DOMAIN windows' \cup ClientsOf(scene)' \cup Announced' \cup Elems(pending_destroy)' : w < next_id'
    BY <1>1, <1>2, <1>i, <1>4, <1>5, <1>7
  <2>2. Announced' \cap ClientsOf(scene)' = {} /\ Elems(pending_destroy)' \cap DOMAIN windows' = {}
    BY <1>3, <1>4, <1>5, <1>7 DEF Kept, IdsInv
  <2>3. at' = "size" => hand' \notin Elems(pending_new)'
    <3>1. at = "size" => hand \in Announced /\ hand \notin Elems(pending_new)
      BY DEF Kept, IdsInv, Announced
    <3>2. at = "size" => hand # next_id
      BY <1>3, <3>1
    <3>3. Elems(pending_new)' = Elems(pending_new) \cup {next_id}
      BY <1>6 DEF Elems
    <3> QED BY <1>5, <3>1, <3>2, <3>3
  <2> QED BY <1>6, <2>1, <2>2, <2>3 DEF IdsInv
<1>9. MirrorInv'
  BY <1>4, <1>5, <1>7 DEF Kept, MirrorInv
<1>10. KeysNotLeaked'
  BY <1>4 DEF Kept, KeysNotLeaked
<1>11. next_id' \in 1..(MaxId + 1) /\ next_id \in 0..MaxId
  BY <1>1, WmAssumption
<1>12. \A w \in ClientsOf(scene) \cap DOMAIN windows' : w \in DOMAIN windows /\ windows'[w] = windows[w]
  BY <1>3, <1>4
<1> QED BY <1>4, <1>6, <1>8, <1>9, <1>10, <1>11, <1>12

\* The windows ws go, and every one of them is announced.
LEMMA DestroyKeeps ==
    ASSUME Kept, FramesStay, NEW ws \in SUBSET DOMAIN windows, windows' = Without(ws),
           pending_destroy' \in Seq(Ids), Elems(pending_destroy') = Elems(pending_destroy) \cup ws,
           UNCHANGED <<pending_new, next_id>>
    PROVE  /\ WindowsOK' /\ IdsInv' /\ MirrorInv' /\ KeysNotLeaked'
           /\ \A w \in DOMAIN windows' : w \in DOMAIN windows /\ windows'[w] = windows[w]
<1>1. /\ WindowsOK' /\ DOMAIN windows' = DOMAIN windows \ ws
      /\ \A v \in DOMAIN windows' : windows'[v] = windows[v]
  BY Destroyed DEF Kept
<1>2. ClientsOf(scene)' = ClientsOf(scene) /\ at' = at /\ hand' = hand
  BY ClientFrame
<1>3. Announced' = Announced /\ Elems(pending_new)' = Elems(pending_new)
  BY <1>2 DEF Announced, Elems
<1>4. IdsInv'
  BY <1>1, <1>2, <1>3 DEF Kept, IdsInv
<1>5. MirrorInv'
  BY <1>1, <1>2, <1>3 DEF Kept, MirrorInv
<1>6. KeysNotLeaked'
  BY <1>1 DEF Kept, KeysNotLeaked
<1> QED BY <1>1, <1>4, <1>5, <1>6

\* The same windows stay, whatever their events and pixels.
LEMMA StayKeeps ==
    ASSUME Kept, FramesStay, DOMAIN windows' = DOMAIN windows, UNCHANGED <<pending_new, pending_destroy, next_id>>
    PROVE  IdsInv' /\ MirrorInv'
<1>1. ClientsOf(scene)' = ClientsOf(scene) /\ at' = at /\ hand' = hand
  BY ClientFrame
<1>2. Announced' = Announced /\ Elems(pending_new)' = Elems(pending_new) /\ Elems(pending_destroy)' = Elems(pending_destroy)
  BY <1>1 DEF Announced, Elems
<1>3. IdsInv'
  BY <1>1, <1>2 DEF Kept, IdsInv
<1>4. MirrorInv'
  BY <1>1, <1>2 DEF Kept, MirrorInv
<1> QED BY <1>3, <1>4


\* do_exit: the windows of a client are announced one after the other.
LEMMA ExitKeeps ==
    ASSUME Kept, FramesStay, NEW t \in Clients, Exit(t), UNCHANGED <<pending_new, next_id>>
    PROVE  /\ WindowsOK' /\ IdsInv' /\ MirrorInv' /\ KeysNotLeaked'
           /\ pending_destroy' \in Seq(Ids) /\ ended' \subseteq Clients /\ dirty' \in BOOLEAN /\ (dirty => dirty')
           /\ \A w \in DOMAIN windows' : w \in DOMAIN windows /\ windows'[w] = windows[w]
<1>1. PICK owned \in SUBSET DOMAIN windows : owned = {w \in DOMAIN windows : windows[w].owner = t}
  OBVIOUS
<1>2. /\ ended' = ended \cup {t} /\ windows' = Without(owned) /\ dirty' = (dirty \/ owned # {})
      /\ \E q \in InOrder(owned) : pending_destroy' = pending_destroy \o q
  BY <1>1 DEF Exit
<1>3. PICK q \in InOrder(owned) : pending_destroy' = pending_destroy \o q
  BY <1>2
<1>4. owned \in SUBSET Ids /\ pending_destroy \in Seq(Ids) /\ ended \subseteq Clients /\ dirty \in BOOLEAN
  BY <1>1 DEF Kept, WindowsOK, QueueTypes
<1>5. Cardinality(owned) \in Nat
  BY <1>4, IdsFinite
<1>6. q \in [1..Cardinality(owned) -> owned] /\ owned = {q[i] : i \in DOMAIN q}
  BY <1>3 DEF InOrder
<1>7. q \in Seq(Ids) /\ Elems(q) = owned
  <2>1. q \in [1..Cardinality(owned) -> Ids]
    BY <1>4, <1>6
  <2>2. q \in Seq(Ids)
    BY <1>5, <2>1
  <2> QED BY <1>6, <2>2 DEF Elems
<1>8. pending_destroy' \in Seq(Ids) /\ Elems(pending_destroy') = Elems(pending_destroy) \cup owned
  BY <1>3, <1>4, <1>7, ConcatElems
<1>9. /\ WindowsOK' /\ IdsInv' /\ MirrorInv' /\ KeysNotLeaked'
      /\ \A w \in DOMAIN windows' : w \in DOMAIN windows /\ windows'[w] = windows[w]
  BY <1>2, <1>8, DestroyKeeps
<1> QED BY <1>2, <1>4, <1>8, <1>9

LEMMA ProgramKeeps ==
    ASSUME Kept, ProgramStep
    PROVE  Kept'
<1>1. FramesStay
  BY DEF ProgramStep, FramesStay
<1>2. PICK p \in Programs \ ended :
          \/ SysWinCreate(p) \/ SysExit(p)
          \/ \E w \in {v \in DOMAIN windows : windows[v].owner = p} :
                SysWinCommit(p, w) \/ SysWinPoll(p, w) \/ SysWinDestroy(p, w)
  BY DEF ProgramStep
<1>3. p \in Clients
  BY DEF Clients
<1>4. CASE SysWinCreate(p)
  <2>1. CreateWindow(p) /\ dirty' = TRUE /\ UNCHANGED <<pending_destroy, ended, demo, demo_id>>
    BY <1>4 DEF SysWinCreate
  <2>2. /\ WindowsOK' /\ IdsInv' /\ MirrorInv' /\ KeysNotLeaked'
        /\ pending_new' \in Seq(Ids) /\ next_id' \in 1..(MaxId + 1)
    BY <1>1, <1>3, <2>1, CreateKeeps
  <2>3. QueueTypes'
    BY <2>1, <2>2 DEF Kept, QueueTypes
  <2>4. NoLostRepaint'
    BY <1>1, <2>1, ClientRepaint
  <2> QED BY <1>1, <2>2, <2>3, <2>4, ClientStep
<1>5. CASE SysExit(p)
  <2>1. Exit(p) /\ UNCHANGED <<pending_new, next_id, demo, demo_id>>
    BY <1>5 DEF SysExit
  <2>2. /\ WindowsOK' /\ IdsInv' /\ MirrorInv' /\ KeysNotLeaked'
        /\ pending_destroy' \in Seq(Ids) /\ ended' \subseteq Clients /\ dirty' \in BOOLEAN /\ (dirty => dirty')
        /\ \A w \in DOMAIN windows' : w \in DOMAIN windows /\ windows'[w] = windows[w]
    BY <1>1, <1>3, <2>1, ExitKeeps
  <2>3. QueueTypes'
    BY <2>1, <2>2 DEF Kept, QueueTypes
  <2>4. NoLostRepaint'
    BY <1>1, <2>1, <2>2, ClientRepaint
  <2> QED BY <1>1, <2>2, <2>3, <2>4, ClientStep
<1>6. ASSUME NEW w \in DOMAIN windows, SysWinCommit(p, w) PROVE Kept'
  <2>1. /\ windows' = [windows EXCEPT ![w].shown = FALSE] /\ dirty' = TRUE
        /\ UNCHANGED <<pending_new, pending_destroy, next_id, ended, demo, demo_id>>
    BY <1>6 DEF SysWinCommit, Commit
  <2>2. /\ WindowsOK' /\ DOMAIN windows' = DOMAIN windows
        /\ windows'[w].events = windows[w].events
        /\ \A v \in DOMAIN windows : v # w => windows'[v] = windows[v]
    BY <2>1, Showed DEF Kept
  <2>3. KeysNotLeaked'
    BY <2>2 DEF Kept, KeysNotLeaked
  <2>4. QueueTypes' /\ IdsInv' /\ MirrorInv'
    BY <1>1, <2>1, <2>2, StayKeeps DEF Kept, QueueTypes
  <2>5. NoLostRepaint'
    BY <1>1, <2>1, ClientRepaint
  <2> QED BY <1>1, <2>2, <2>3, <2>4, <2>5, ClientStep
<1>7. ASSUME NEW w \in DOMAIN windows, SysWinPoll(p, w) PROVE Kept'
  <2>1. /\ windows' = PollEvent(w) /\ windows[w].events # <<>>
        /\ UNCHANGED <<pending_new, pending_destroy, next_id, dirty, ended, demo, demo_id>>
    BY <1>7 DEF SysWinPoll
  <2>2. WindowsOK' /\ SameWindows({})
    BY <2>1, Polled DEF Kept
  <2>3. KeysNotLeaked'
    BY <2>2, KeysFrame DEF Kept
  <2>4. QueueTypes' /\ IdsInv' /\ MirrorInv'
    BY <1>1, <2>1, <2>2, StayKeeps DEF Kept, QueueTypes, SameWindows
  <2>5. NoLostRepaint'
    BY <1>1, <2>1, <2>2, ClientRepaint DEF SameWindows
  <2> QED BY <1>1, <2>2, <2>3, <2>4, <2>5, ClientStep
<1>8. ASSUME NEW w \in DOMAIN windows, SysWinDestroy(p, w) PROVE Kept'
  <2>1. /\ windows' = Without({w}) /\ pending_destroy' = Append(pending_destroy, w) /\ dirty' = TRUE
        /\ UNCHANGED <<pending_new, next_id, ended, demo, demo_id>>
    BY <1>8 DEF SysWinDestroy, DestroyWindow
  <2>2. pending_destroy' \in Seq(Ids) /\ Elems(pending_destroy') = Elems(pending_destroy) \cup {w}
    <3>1. w \in Ids /\ pending_destroy \in Seq(Ids)
      BY DEF Kept, WindowsOK, QueueTypes
    <3> QED BY <2>1, <3>1, AppendElems
  <2>3. WindowsOK' /\ IdsInv' /\ MirrorInv' /\ KeysNotLeaked'
    BY <1>1, <2>1, <2>2, DestroyKeeps
  <2>4. QueueTypes'
    BY <2>1, <2>2 DEF Kept, QueueTypes
  <2>5. NoLostRepaint'
    BY <1>1, <2>1, ClientRepaint
  <2> QED BY <1>1, <2>3, <2>4, <2>5, ClientStep
<1> QED BY <1>2, <1>4, <1>5, <1>6, <1>7, <1>8


\* The demo client.
LEMMA DemoKeeps ==
    ASSUME Kept, DemoClientStep
    PROVE  Kept'
<1>1. FramesStay /\ DemoStep
  BY DEF DemoClientStep, FramesStay
<1>2. Demo \in Clients /\ dirty \in BOOLEAN
  BY DEF Clients, Kept, QueueTypes
<1>3. CASE DemoCreate
  <2>1. ASSUME demo = "create", demo' = "bump_create", CreateWindow(Demo), demo_id' = next_id,
               UNCHANGED <<pending_destroy, dirty, ended>>
        PROVE  Kept'
    <3>1. /\ WindowsOK' /\ IdsInv' /\ MirrorInv' /\ KeysNotLeaked'
          /\ pending_new' \in Seq(Ids) /\ next_id' \in 1..(MaxId + 1) /\ next_id \in 0..MaxId
          /\ \A w \in ClientsOf(scene) \cap DOMAIN windows' : w \in DOMAIN windows /\ windows'[w] = windows[w]
      BY <1>1, <1>2, <2>1, CreateKeeps
    <3>2. QueueTypes'
      BY <2>1, <3>1 DEF Kept, QueueTypes, DemoPoints
    <3>3. NoLostRepaint'
      BY <1>1, <2>1, <3>1, ClientRepaint
    <3> QED BY <1>1, <3>1, <3>2, <3>3, ClientStep
  <2>2. ASSUME demo = "create", demo' = "exit",
               UNCHANGED <<windows, pending_new, pending_destroy, next_id, dirty, ended, demo_id>>
        PROVE  Kept'
    <3>1. WindowsOK' /\ KeysNotLeaked' /\ QueueTypes'
      BY <2>2 DEF Kept, WindowsOK, KeysNotLeaked, QueueTypes, DemoPoints
    <3>2. IdsInv' /\ MirrorInv'
      BY <1>1, <2>2, StayKeeps
    <3>3. NoLostRepaint'
      BY <1>1, <2>2, ClientRepaint
    <3> QED BY <1>1, <3>1, <3>2, <3>3, ClientStep
  <2> QED BY <1>3, <2>1, <2>2 DEF DemoCreate, DemoGo
<1>4. CASE DemoBump \/ DemoCheck
  <2>1. /\ UNCHANGED <<windows, pending_new, pending_destroy, next_id, ended, demo_id>>
        /\ demo' \in DemoPoints
        /\ dirty' = TRUE \/ (dirty' = dirty /\ demo = "check")
    BY <1>4 DEF DemoBump, DemoCheck, DemoGo, DemoPoints
  <2>2. WindowsOK' /\ KeysNotLeaked' /\ QueueTypes'
    BY <1>2, <2>1 DEF Kept, WindowsOK, KeysNotLeaked, QueueTypes
  <2>3. IdsInv' /\ MirrorInv'
    BY <1>1, <2>1, StayKeeps
  <2>4. NoLostRepaint'
    BY <1>1, <2>1, ClientRepaint
  <2> QED BY <1>1, <2>2, <2>3, <2>4, ClientStep
<1>5. CASE DemoCommit
  <2>1. /\ UNCHANGED <<pending_new, pending_destroy, next_id, dirty, ended, demo_id>>
        /\ demo = "commit"
        /\ \/ demo_id \in DOMAIN windows /\ demo' = "bump_commit" /\ windows' = [windows EXCEPT ![demo_id].shown = FALSE]
           \/ demo' = "poll" /\ windows' = windows
    BY <1>5 DEF DemoCommit, DemoGo, Commit, exists
  <2>2. /\ WindowsOK' /\ DOMAIN windows' = DOMAIN windows
        /\ \A v \in DOMAIN windows : windows'[v].events = windows[v].events
        /\ \A v \in DOMAIN windows : (demo' = "bump_commit" /\ v = demo_id) \/ windows'[v] = windows[v]
    <3>1. CASE demo_id \in DOMAIN windows /\ demo' = "bump_commit" /\ windows' = [windows EXCEPT ![demo_id].shown = FALSE]
      <4>1. PICK w \in DOMAIN windows : w = demo_id
        BY <3>1
      <4>2. windows' = [windows EXCEPT ![w].shown = FALSE]
        BY <3>1, <4>1
      <4>3. /\ WindowsOK' /\ DOMAIN windows' = DOMAIN windows
            /\ windows'[w].events = windows[w].events
            /\ \A v \in DOMAIN windows : v # w => windows'[v] = windows[v]
        BY <4>2, Showed DEF Kept
      <4> QED BY <3>1, <4>1, <4>3
    <3>2. CASE windows' = windows
      BY <3>2 DEF Kept, WindowsOK
    <3> QED BY <2>1, <3>1, <3>2
  <2>3. KeysNotLeaked'
    BY <2>2 DEF Kept, KeysNotLeaked
  <2>4. QueueTypes' /\ IdsInv' /\ MirrorInv'
    BY <1>1, <2>1, <2>2, StayKeeps DEF Kept, QueueTypes, DemoPoints
  <2>5. NoLostRepaint'
    BY <1>1, <2>1, <2>2, ClientRepaint
  <2> QED BY <1>1, <2>2, <2>3, <2>4, <2>5, ClientStep
<1>6. CASE DemoPoll
  <2>1. /\ UNCHANGED <<pending_new, pending_destroy, next_id, dirty, ended, demo_id>>
        /\ demo = "poll" /\ demo' \in {"check", "poll", "destroy"}
        /\ \/ windows' = windows
           \/ demo_id \in DOMAIN windows /\ windows[demo_id].events # <<>> /\ windows' = PollEvent(demo_id)
    BY <1>6 DEF DemoPoll, DemoGo, exists
  <2>2. WindowsOK' /\ SameWindows({})
    <3>1. CASE windows' = windows
      BY <3>1 DEF Kept, WindowsOK, SameWindows
    <3>2. CASE demo_id \in DOMAIN windows /\ windows[demo_id].events # <<>> /\ windows' = PollEvent(demo_id)
      BY <3>2, Polled DEF Kept
    <3> QED BY <2>1, <3>1, <3>2
  <2>3. KeysNotLeaked'
    BY <2>2, KeysFrame DEF Kept
  <2>4. QueueTypes' /\ IdsInv' /\ MirrorInv'
    BY <1>1, <2>1, <2>2, StayKeeps DEF Kept, QueueTypes, SameWindows, DemoPoints
  <2>5. NoLostRepaint'
    BY <1>1, <2>1, <2>2, ClientRepaint DEF SameWindows
  <2> QED BY <1>1, <2>2, <2>3, <2>4, <2>5, ClientStep
<1>7. CASE DemoDestroy
  <2>1. /\ UNCHANGED <<pending_new, next_id, dirty, ended, demo_id>>
        /\ demo = "destroy" /\ demo' \in DemoPoints
        /\ \/ /\ demo_id \in DOMAIN windows
              /\ windows' = Without({demo_id}) /\ pending_destroy' = Append(pending_destroy, demo_id)
           \/ windows' = windows /\ pending_destroy' = pending_destroy
    BY <1>7 DEF DemoDestroy, DestroyWindow, DemoGo, DemoPoints, exists
  <2>2. /\ WindowsOK' /\ IdsInv' /\ MirrorInv' /\ KeysNotLeaked' /\ pending_destroy' \in Seq(Ids)
        /\ \A w \in DOMAIN windows' : w \in DOMAIN windows /\ windows'[w] = windows[w]
    <3>1. CASE /\ demo_id \in DOMAIN windows
               /\ windows' = Without({demo_id}) /\ pending_destroy' = Append(pending_destroy, demo_id)
      <4>1. PICK w \in DOMAIN windows : w = demo_id
        BY <3>1
      <4>2. w \in Ids /\ pending_destroy \in Seq(Ids)
        BY DEF Kept, WindowsOK, QueueTypes
      <4>3. windows' = Without({w}) /\ pending_destroy' = Append(pending_destroy, w)
        BY <3>1, <4>1
      <4>4. pending_destroy' \in Seq(Ids) /\ Elems(pending_destroy') = Elems(pending_destroy) \cup {w}
        BY <4>2, <4>3, AppendElems
      <4> QED BY <1>1, <2>1, <4>3, <4>4, DestroyKeeps
    <3>2. CASE windows' = windows /\ pending_destroy' = pending_destroy
      <4>1. WindowsOK' /\ KeysNotLeaked' /\ pending_destroy' \in Seq(Ids)
        BY <3>2 DEF Kept, WindowsOK, KeysNotLeaked, QueueTypes
      <4>2. IdsInv' /\ MirrorInv'
        BY <1>1, <2>1, <3>2, StayKeeps
      <4> QED BY <3>2, <4>1, <4>2
    <3> QED BY <2>1, <3>1, <3>2
  <2>3. QueueTypes'
    BY <2>1, <2>2 DEF Kept, QueueTypes
  <2>4. NoLostRepaint'
    BY <1>1, <2>1, <2>2, ClientRepaint
  <2> QED BY <1>1, <2>2, <2>3, <2>4, ClientStep
<1>8. CASE DemoExit
  <2>1. Exit(Demo) /\ UNCHANGED <<pending_new, next_id, demo_id>> /\ demo = "exit" /\ demo' = "gone"
    BY <1>8 DEF DemoExit, DemoGo
  <2>2. /\ WindowsOK' /\ IdsInv' /\ MirrorInv' /\ KeysNotLeaked'
        /\ pending_destroy' \in Seq(Ids) /\ ended' \subseteq Clients /\ dirty' \in BOOLEAN /\ (dirty => dirty')
        /\ \A w \in DOMAIN windows' : w \in DOMAIN windows /\ windows'[w] = windows[w]
    BY <1>1, <1>2, <2>1, ExitKeeps
  <2>3. QueueTypes'
    BY <2>1, <2>2 DEF Kept, QueueTypes, DemoPoints
  <2>4. NoLostRepaint'
    BY <1>1, <2>1, <2>2, ClientRepaint
  <2> QED BY <1>1, <2>2, <2>3, <2>4, ClientStep
<1> QED BY <1>1, <1>3, <1>4, <1>5, <1>6, <1>7, <1>8 DEF DemoStep


\* The keyboard driver and the shells touch nothing but the console.
LEMMA ConsoleStep ==
    ASSUME Kept, UNCHANGED <<wmVars, frameVars, machine>>, console' \in Seq(0..MaxId), keys' \in 0..MaxKeys, RoutingInv'
    PROVE  Kept'
<1>1. UNCHANGED <<windows, pending_new, pending_destroy, next_id, dirty, ended, demo, demo_id>>
  BY DEF wmVars
<1>2. /\ UNCHANGED <<scene, focus, dragging, prev_left, prev_left_client, focused_client, mouse>>
      /\ UNCHANGED <<scene_dirty, at, hand, key, todo, term_focus, screen, machine>>
  BY DEF frameVars
<1>3. WindowsOK' /\ QueueTypes' /\ KeysNotLeaked'
  BY <1>1 DEF Kept, WindowsOK, QueueTypes, KeysNotLeaked
<1>4. SceneOK' /\ LocalTypes' /\ HandInv'
  BY <1>2 DEF Kept, SceneOK, TopOf, LocalTypes, HandInv, ClientsOf
<1>5. IdsInv' /\ MirrorInv'
  <2>1. ClientsOf(scene)' = ClientsOf(scene) /\ Announced' = Announced
        /\ Elems(pending_new)' = Elems(pending_new) /\ Elems(pending_destroy)' = Elems(pending_destroy)
    BY <1>1, <1>2 DEF ClientsOf, Announced, Elems
  <2>2. IdsInv'
    BY <1>1, <1>2, <2>1 DEF Kept, IdsInv
  <2>3. MirrorInv'
    BY <1>1, <1>2, <2>1 DEF Kept, MirrorInv
  <2> QED BY <2>2, <2>3
<1>6. NoLostRepaint'
  BY <1>1, <1>2 DEF Kept, NoLostRepaint, ClientsOf, exists
<1> QED BY <1>3, <1>4, <1>5, <1>6 DEF Kept

LEMMA KeyboardKeeps ==
    ASSUME Kept, TypeKey \/ ShellReads
    PROVE  Kept'
<1>1. UNCHANGED <<wmVars, frameVars, machine>>
  BY DEF TypeKey, ShellReads
<1>2. UNCHANGED <<scene, focus, focused_client, at, key>>
  BY <1>1 DEF frameVars
<1>3. /\ console \in Seq(0..MaxId) /\ focused_client \in 0..MaxId /\ keys \in 0..MaxKeys
      /\ focused_client # 0 => \A x \in Elems(console) : x = focused_client
  BY DEF Kept, LocalTypes, RoutingInv, Elems
<1>4. /\ console' \in Seq(0..MaxId) /\ keys' \in 0..MaxKeys
      /\ Elems(console') \subseteq Elems(console) \cup {focused_client}
  <2>1. CASE TypeKey
    <3>1. console' = Append(console, focused_client) /\ keys' = keys + 1 /\ keys < MaxKeys
      BY <2>1 DEF TypeKey
    <3>2. keys' \in 0..MaxKeys
      BY <1>3, <3>1, CompositorAssumption
    <3> QED BY <1>3, <3>1, <3>2, AppendElems
  <2>2. CASE ShellReads
    <3>1. console # <<>> /\ console' = Tail(console) /\ keys' = keys
      BY <2>2 DEF ShellReads
    <3> QED BY <1>3, <3>1, TailElems
  <2> QED BY <2>1, <2>2
<1>5. RoutingInv'
  <2>1. focused_client' # 0 => \A i \in DOMAIN console' : console'[i] = focused_client'
    BY <1>2, <1>3, <1>4 DEF Elems
  <2> QED BY <1>2, <2>1, SameTop DEF Kept, RoutingInv
<1> QED BY <1>1, <1>4, <1>5, ConsoleStep

LEMMA SameKeeps ==
    ASSUME Kept, UNCHANGED vars
    PROVE  Kept'
<1>1. UNCHANGED <<wmVars, frameVars, machine>> /\ UNCHANGED <<console, keys>> /\ UNCHANGED <<scene, focus, focused_client, at, key>>
  BY DEF vars, frameVars
<1>2. console' \in Seq(0..MaxId) /\ keys' \in 0..MaxKeys
  BY <1>1 DEF Kept, LocalTypes
<1>3. RoutingInv'
  BY <1>1, SameTop DEF Kept, RoutingInv
<1> QED BY <1>1, <1>2, <1>3, ConsoleStep

-----------------------------------------------------------------------------
(* The theorems *)

LEMMA Boot ==
    /\ BootScene \in Seq(Frames) /\ IsInjective(BootScene) /\ BootScene # <<>>
    /\ ClientsOf(BootScene) = {}
<1> DEFINE a == [i \in 1..Infos |-> Frame("info", i)]
           b == <<Frame("terminal", 1)>>
<1>1. Infos \in Nat /\ 1 \in Terms
  BY CompositorAssumption DEF Terms
<1>2. a \in Seq(Frames) /\ Len(a) = Infos /\ \A i \in 1..Infos : a[i] = Frame("info", i)
  <2>1. a \in [1..Infos -> Frames]
    BY DEF Frames
  <2>2. a \in Seq(Frames)
    BY <1>1, <2>1
  <2> QED BY <1>1, <2>2
<1>3. b \in Seq(Frames) /\ Len(b) = 1 /\ b[1] = Frame("terminal", 1)
  <2>1. Frame("terminal", 1) \in Frames
    BY <1>1 DEF Frames
  <2> QED BY <2>1
<1>4. BootScene = a \o b
  BY DEF BootScene
<1> HIDE DEF a, b
<1>5. /\ a \o b \in Seq(Frames) /\ Len(a \o b) = Infos + 1
      /\ \A k \in 1..(Infos + 1) : (a \o b)[k] = IF k <= Infos THEN a[k] ELSE b[k - Infos]
  <2>1. /\ a \o b \in Seq(Frames) /\ Len(a \o b) = Len(a) + Len(b)
        /\ \A k \in 1..(Len(a) + Len(b)) : (a \o b)[k] = IF k <= Len(a) THEN a[k] ELSE b[k - Len(a)]
    BY <1>2, <1>3, ConcatProperties
  <2> QED BY <1>2, <1>3, <2>1
<1>6. PICK s \in Seq(Frames) : s = a \o b
  BY <1>5
<1>7. Len(s) = Infos + 1 /\ DOMAIN s = 1..(Infos + 1)
  BY <1>5, <1>6, LenProperties
<1>8. \A k \in 1..Infos : s[k] = Frame("info", k)
  BY <1>1, <1>2, <1>5, <1>6
<1>9. s[Infos + 1] = Frame("terminal", 1)
  BY <1>1, <1>3, <1>5, <1>6
<1>10. \A k \in DOMAIN s : k \in 1..Infos \/ k = Infos + 1
  BY <1>1, <1>7
<1>11. IsInjective(s)
  <2>1. ASSUME NEW i \in DOMAIN s, NEW j \in DOMAIN s, s[i] = s[j] PROVE i = j
    BY <1>8, <1>9, <1>10, <2>1, FrameFacts
  <2> QED BY <2>1 DEF IsInjective
<1>12. ClientsOf(s) = {}
  BY <1>8, <1>9, <1>10, FrameFacts DEF ClientsOf
<1>13. s # <<>>
  BY <1>1, <1>7
<1> QED BY <1>4, <1>6, <1>11, <1>12, <1>13

LEMMA InitKept == Init => Kept
<1> SUFFICES ASSUME Init PROVE Kept
  OBVIOUS
<1>1. windows = <<>> /\ pending_new = <<>> /\ pending_destroy = <<>>
  BY DEF Init, WmInit
<1>2. DOMAIN windows = {} /\ DOMAIN pending_new = {} /\ DOMAIN pending_destroy = {}
  BY <1>1
<1>3. WindowsOK
  <2>1. windows \in [DOMAIN windows -> Windows]
    BY <1>1, <1>2
  <2>2. Cardinality(DOMAIN windows) = 0 /\ MAX_WINDOWS \in Nat
    BY <1>2, FS_EmptySet, WmAssumption
  <2> QED BY <1>2, <2>1, <2>2 DEF WindowsOK
<1>4. QueueTypes
  <2>1. pending_new \in Seq(Ids) /\ pending_destroy \in Seq(Ids)
    BY <1>1, EmptySeq
  <2>2. next_id \in 1..(MaxId + 1) /\ demo_id \in 0..MaxId
    BY WmAssumption DEF Init, WmInit
  <2>3. demo \in DemoPoints /\ ended \subseteq Clients /\ dirty \in BOOLEAN
    BY DEF Init, WmInit, DemoPoints
  <2> QED BY <2>1, <2>2, <2>3 DEF QueueTypes
<1>5. SceneOK /\ ClientsOf(scene) = {}
  BY Boot DEF Init, SceneOK, TopOf
<1>6. LocalTypes
  <2>1. <<>> \in Seq(0..MaxId) /\ 0 \in 0..MaxId /\ 0 \in 0..MaxKeys /\ 1 \in Terms
    BY WmAssumption, CompositorAssumption DEF Terms
  <2>2. mouse \in [changed : BOOLEAN, left : BOOLEAN] /\ at \in Points
    BY DEF Init, Points
  <2> QED BY <2>1, <2>2, Boot DEF Init, LocalTypes
<1>7. HandInv /\ RoutingInv
  BY DEF Init, HandInv, RoutingInv
<1>8. Elems(pending_new) = {} /\ Elems(pending_destroy) = {} /\ Announced = {}
  BY <1>2 DEF Elems, Announced, Init
<1>9. IdsInv
  BY <1>2, <1>5, <1>8 DEF IdsInv, IsInjective, Init
<1>10. MirrorInv
  BY <1>2, <1>5, <1>8 DEF MirrorInv
<1>11. NoLostRepaint
  BY <1>5 DEF NoLostRepaint, Init
<1>12. KeysNotLeaked
  BY <1>2 DEF KeysNotLeaked
<1> QED BY <1>3, <1>4, <1>5, <1>6, <1>7, <1>9, <1>10, <1>11, <1>12 DEF Kept

LEMMA NextKept == Kept /\ [Next]_vars => Kept'
<1> SUFFICES ASSUME Kept, [Next]_vars PROVE Kept'
  OBVIOUS
<1>1. CASE TakeNew
  BY <1>1, TakeNewKeeps
<1>2. CASE FrameNew
  BY <1>2, FrameNewKeeps
<1>3. CASE TellNew
  BY <1>3, TellNewKeeps
<1>4. CASE TakeDestroy
  BY <1>4, TakeDestroyKeeps
<1>5. CASE ReadDirty \/ NoMouse \/ Drag \/ Drop \/ MouseElsewhere
  BY <1>5, MouseKeeps
<1>6. CASE NewTerminal \/ CloseOwn \/ Raise
  BY <1>6, OwnFramesKeep
<1>7. CASE CloseClient
  BY <1>7, CloseClientKeeps
<1>8. CASE SendClose
  BY <1>8, SendCloseKeeps
<1>9. CASE CloseDestroy
  BY <1>9, CloseDestroyKeeps
<1>10. CASE SetTermFocus
  BY <1>10, SetTermFocusKeeps
<1>11. CASE SendBlur
  BY <1>11, SendBlurKeeps
<1>12. CASE SendFocus
  BY <1>12, SendFocusKeeps
<1>13. CASE FlushForClient
  BY <1>13, FlushKeeps
<1>14. CASE ReadKey
  BY <1>14, ReadKeyKeeps
<1>15. CASE SendKey
  BY <1>15, SendKeyKeeps
<1>16. CASE SendPointer \/ SendEdge
  BY <1>16, PointerKeeps
<1>17. CASE Paint
  BY <1>17, PaintKeeps
<1>18. CASE Blit
  BY <1>18, BlitKeeps
<1>19. CASE ProgramStep
  BY <1>19, ProgramKeeps
<1>20. CASE DemoClientStep
  BY <1>20, DemoKeeps
<1>21. CASE TypeKey \/ ShellReads
  BY <1>21, KeyboardKeeps
<1>22. CASE UNCHANGED vars
  BY <1>22, SameKeeps
<1> QED BY <1>1, <1>2, <1>3, <1>4, <1>5, <1>6, <1>7, <1>8, <1>9, <1>10, <1>11, <1>12, <1>13, <1>14,
           <1>15, <1>16, <1>17, <1>18, <1>19, <1>20, <1>21, <1>22 DEF Next, CompositorStep, Halted

\* The inductive invariant of the desktop: a window is announced before it has a frame
\* and its end is announced once; the id in hand has the frame the step in progress is
\* about; a client with the focus finds only its own keys in the console; and a repaint
\* that is owed stays owed (compositor_task in gui.rs over the registry of wm.rs).
THEOREM CompositorInvariant == Spec => []CompositorInv
<1>1. Init => CompositorInv
  BY InitKept, InvParts
<1>2. CompositorInv /\ [Next]_vars => CompositorInv'
  <2>1. (CompositorInv <=> Kept)'
    BY InvParts, PTL
  <2> QED BY NextKept, InvParts, <2>1
<1> QED BY <1>1, <1>2, PTL DEF Spec

\* The compositor's list of frames mirrors the registry, up to what the two queues
\* still announce and the window in hand, and no queue or index outgrows its limit.
THEOREM FramesMirror == Spec => []SceneMirrorsRegistry
<1>1. CompositorInv => SceneMirrorsRegistry
  <2> SUFFICES ASSUME CompositorInv PROVE SceneMirrorsRegistry
    OBVIOUS
  <2>1. TypeOK /\ MirrorInv
    BY DEF CompositorInv
  <2>2. Elems(pending_new) = {pending_new[i] : i \in DOMAIN pending_new}
        /\ Elems(pending_destroy) = {pending_destroy[i] : i \in DOMAIN pending_destroy}
    BY DEF Elems
  <2>3. Announced \subseteq Elems(pending_new) \cup {hand}
    BY DEF Announced
  <2> QED BY <2>1, <2>2, <2>3 DEF MirrorInv, SceneMirrorsRegistry
<1> QED BY <1>1, CompositorInvariant, PTL

\* The focused frame is the last one of the list ("the focused window is always last
\* (top)", draw_desktop), through every close, raise, new and vanished window.
THEOREM FocusOnTop == Spec => []FocusIsTop
<1>1. CompositorInv => FocusIsTop
  BY DEF CompositorInv, FocusIsTop, TopOf
<1> QED BY <1>1, CompositorInvariant, PTL

\* No committed pixels and no change of the frames are ever missed by the repaint.
THEOREM RepaintsKept == Spec => []NoLostRepaint
<1>1. CompositorInv => NoLostRepaint
  BY DEF CompositorInv
<1> QED BY <1>1, CompositorInvariant, PTL

\* A key never reaches a client that did not have the focus when it was typed.
THEOREM KeysStay == Spec => []KeysNotLeaked
<1>1. CompositorInv => KeysNotLeaked
  BY DEF CompositorInv
<1> QED BY <1>1, CompositorInvariant, PTL
=============================================================================
