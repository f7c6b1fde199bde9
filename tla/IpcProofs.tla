----------------------------- MODULE IpcProofs ------------------------------
(***************************************************************************)
(* Proofs about Ipc for any number of callers, services, programs and       *)
(* messages, and about Capability, the tables that guard its endpoints, for *)
(* all holders, objects, root capabilities and table sizes.                 *)
(***************************************************************************)
EXTENDS Ipc, Capability, SequenceTheorems, WellFoundedInduction, TLAPS

-----------------------------------------------------------------------------
(* Queues *)

LEMMA ElemsAppend ==
    ASSUME NEW S, NEW q \in Seq(S), NEW x \in S
    PROVE  /\ Append(q, x) \in Seq(S) /\ DOMAIN Append(q, x) = 1..(Len(q) + 1)
           /\ \A k \in DOMAIN q : Append(q, x)[k] = q[k]
           /\ Append(q, x)[Len(q) + 1] = x
           /\ DOMAIN q = 1..Len(q) /\ Len(q) \in Nat
           /\ Elems(Append(q, x)) = Elems(q) \cup {x}
<1>1. /\ Append(q, x) \in Seq(S) /\ Len(Append(q, x)) = Len(q) + 1
      /\ \A k \in 1..Len(q) : Append(q, x)[k] = q[k]
      /\ Append(q, x)[Len(q) + 1] = x /\ DOMAIN q = 1..Len(q) /\ Len(q) \in Nat
  OBVIOUS
<1>2. DOMAIN Append(q, x) = 1..(Len(q) + 1)
  BY <1>1
<1>3. 1..(Len(q) + 1) = 1..Len(q) \cup {Len(q) + 1}
  BY <1>1
<1>4. Elems(Append(q, x)) = Elems(q) \cup {x}
  BY <1>1, <1>2, <1>3 DEF Elems
<1>. QED
  BY <1>1, <1>2, <1>4

LEMMA ElemsTail ==
    ASSUME NEW S, NEW q \in Seq(S), q # <<>>
    PROVE  /\ Tail(q) \in Seq(S) /\ Head(q) \in S /\ 1 \in DOMAIN q /\ q[1] = Head(q)
           /\ Len(q) \in Nat /\ DOMAIN q = 1..Len(q)
           /\ DOMAIN Tail(q) = 1..(Len(q) - 1)
           /\ \A k \in DOMAIN Tail(q) : k + 1 \in DOMAIN q /\ Tail(q)[k] = q[k + 1]
           /\ Elems(q) = Elems(Tail(q)) \cup {Head(q)}
<1>1. /\ Tail(q) \in Seq(S) /\ Head(q) \in S /\ Len(q) \in Nat /\ Len(q) > 0
      /\ DOMAIN q = 1..Len(q) /\ Head(q) = q[1] /\ Len(Tail(q)) = Len(q) - 1
      /\ \A k \in 1..(Len(q) - 1) : Tail(q)[k] = q[k + 1]
  OBVIOUS
<1>2. DOMAIN Tail(q) = 1..(Len(q) - 1)
  BY <1>1
<1>3. \A k \in 1..Len(q) : k = 1 \/ (k - 1 \in 1..(Len(q) - 1) /\ (k - 1) + 1 = k)
  BY <1>1
<1>4. Elems(q) \subseteq Elems(Tail(q)) \cup {Head(q)}
  <2>. SUFFICES ASSUME NEW k \in 1..Len(q) PROVE q[k] \in Elems(Tail(q)) \cup {Head(q)}
    BY <1>1 DEF Elems
  <2>1. CASE k = 1
    BY <1>1, <2>1
  <2>2. CASE k # 1
    <3>1. k - 1 \in DOMAIN Tail(q) /\ Tail(q)[k - 1] = q[k]
      BY <1>1, <1>2, <1>3, <2>2
    <3>. QED  BY <3>1 DEF Elems
  <2>. QED  BY <2>1, <2>2
<1>5. Elems(Tail(q)) \cup {Head(q)} \subseteq Elems(q)
  BY <1>1, <1>2 DEF Elems
<1>. QED
  BY <1>1, <1>2, <1>4, <1>5

\* Removing a task from the list of waiters.
LEMMA WithoutIs ==
    ASSUME NEW S, NEW q \in Seq(S), NEW x,
           \A j, k \in DOMAIN q : q[j] = q[k] => j = k
    PROVE  /\ Without(q, x) \in Seq(S)
           /\ \A j \in DOMAIN Without(q, x) : Without(q, x)[j] # x
           /\ \A j, k \in DOMAIN Without(q, x) : Without(q, x)[j] = Without(q, x)[k] => j = k
<1>1. CASE ~ \E k \in DOMAIN q : q[k] = x
  BY <1>1 DEF Without
<1>2. CASE \E k \in DOMAIN q : q[k] = x
  <2>. DEFINE k == CHOOSE k \in DOMAIN q : q[k] = x
              a == SubSeq(q, 1, k - 1)
              b == SubSeq(q, k + 1, Len(q))
              r == a \o b
  <2>1. k \in 1..Len(q) /\ q[k] = x /\ Len(q) \in Nat
    BY <1>2
  <2>2. Without(q, x) = r
    BY <1>2 DEF Without
  <2>. HIDE DEF k
  <2>3. /\ a \in Seq(S) /\ Len(a) = k - 1
        /\ \A j \in 1..(k - 1) : a[j] = q[j]
    BY <2>1
  <2>4. /\ b \in Seq(S) /\ Len(b) = Len(q) - k
        /\ \A j \in 1..(Len(q) - k) : b[j] = q[k + j]
    BY <2>1
  <2>. HIDE DEF a, b
  <2>5. /\ a \o b \in Seq(S) /\ Len(a \o b) = Len(a) + Len(b)
        /\ \A j \in 1..(Len(a) + Len(b)) : (a \o b)[j] = IF j <= Len(a) THEN a[j] ELSE b[j - Len(a)]
    BY <2>3, <2>4, ConcatProperties, ZenonT(60)
  <2>6. /\ r \in Seq(S) /\ Len(r) = Len(q) - 1 /\ DOMAIN r = 1..(Len(q) - 1)
    BY <2>1, <2>3, <2>4, <2>5
  <2>. HIDE DEF r
  <2>7. \A j \in DOMAIN r : (j < k /\ r[j] = q[j]) \/ (j >= k /\ r[j] = q[j + 1])
    <3>. SUFFICES ASSUME NEW j \in 1..(Len(q) - 1)
                  PROVE  (j < k /\ r[j] = q[j]) \/ (j >= k /\ r[j] = q[j + 1])
      BY <2>6
    <3>1. r[j] = IF j <= Len(a) THEN a[j] ELSE b[j - Len(a)]
      BY <2>1, <2>3, <2>4, <2>5 DEF r
    <3>2. CASE j < k
      BY <2>1, <2>3, <3>1, <3>2
    <3>3. CASE j >= k
      <4>1. j - (k - 1) \in 1..(Len(q) - k) /\ k + (j - (k - 1)) = j + 1 /\ ~(j <= k - 1)
        BY <2>1, <3>3
      <4>. QED  BY <2>3, <2>4, <3>1, <3>3, <4>1
    <3>. QED  BY <2>1, <3>2, <3>3
  <2>8. ASSUME NEW i \in DOMAIN r, NEW j \in DOMAIN r, r[i] = r[j] PROVE i = j
    BY <2>1, <2>6, <2>7, <2>8, SMTT(60)
  <2>9. ASSUME NEW j \in DOMAIN r PROVE r[j] # x
    BY <2>1, <2>6, <2>7
  <2>. QED  BY <2>2, <2>6, <2>8, <2>9
<1>. QED
  BY <1>1, <1>2

-----------------------------------------------------------------------------
(* Tasks and messages *)

LEMMA UnblockType ==
    ASSUME TypeOK, NEW x
    PROVE  Unblock(x) \in [Tasks -> {"Runnable", "Running", "Blocked"}]
BY DEF TypeOK, Unblock

LEMMA SwitchType ==
    ASSUME NEW t \in Tasks, NEW s \in [Tasks -> {"Runnable", "Running", "Blocked"}],
           SwitchTo(t, s)
    PROVE  cur' \in Tasks /\ state' \in [Tasks -> {"Runnable", "Running", "Blocked"}]
BY DEF SwitchTo

\* No task is of two kinds.
LEMMA Kinds ==
    /\ "idle" \in Tasks /\ Callers \subseteq Tasks /\ Servers \subseteq Tasks
    /\ Programs \subseteq Tasks
    /\ \A c \in Callers : c \notin Servers /\ c \notin Programs /\ c # "idle" /\ c # "none"
    /\ \A s \in Servers : s \notin Callers /\ s \notin Programs /\ s # "idle" /\ s # "none"
    /\ \A p \in Programs : p \notin Callers /\ p \notin Servers /\ p # "idle" /\ p # "none"
    /\ MaxMsgs \in Nat /\ Timeout \in Nat /\ MaxTicks \in Nat
BY IpcAssumption DEF Tasks

\* What is said of the messages is kept by a step that leaves them alone.
LEMMA SameMessages ==
    ASSUME IpcInv, UNCHANGED <<ipcVars, got>>
    PROVE  EachMessageOnce' /\ SendersInv' /\ ReplyToOwnRequest'
BY DEF IpcInv, ipcVars, EachMessageOnce, Elems, Stashed, SendersInv, ReplyToOwnRequest

LEMMA IpcInit == Init => IpcInv
<1>. SUFFICES ASSUME Init PROVE IpcInv
  OBVIOUS
<1>1. TypeOK
  <2>1. pc \in [Tasks -> Places] /\ state \in [Tasks -> {"Runnable", "Running", "Blocked"}]
    BY DEF Init, Places
  <2>2. replies \in [Tasks -> 0..Absent] /\ ticks \in 0..MaxTicks /\ sent \in 0..MaxMsgs
        /\ msg \in [Servers -> 0..MaxMsgs] /\ deadline \in [Callers -> Nat]
    BY Kinds DEF Init, Absent
  <2>3. cur \in Tasks /\ iflag \in [Tasks -> BOOLEAN] /\ hung \in BOOLEAN
        /\ sender \in [1..MaxMsgs -> Tasks \cup {"none"}] /\ wake \in [Tasks -> Tasks \cup {"none"}]
    BY Kinds DEF Init
  <2>4. queue \in Seq(1..MaxMsgs) /\ waiters \in Seq(Servers \cup Programs) /\ got \in Seq(1..MaxMsgs)
    BY DEF Init
  <2>. QED  BY <2>1, <2>2, <2>3, <2>4 DEF TypeOK
<1>2. PlacesInv /\ SendersInv /\ SlotWhileCalling /\ ReplyToOwnRequest
  BY <1>1, Kinds DEF Init, PlacesInv, SendersInv, SlotWhileCalling, ReplyToOwnRequest, Absent
<1>3. EachMessageOnce
  <2>1. Stashed = {} /\ Elems(queue) = {} /\ Elems(got) = {} /\ 1..sent = {}
    BY Kinds DEF Init, Stashed, Elems
  <2>. QED  BY <2>1 DEF Init, EachMessageOnce
<1>. QED
  BY <1>1, <1>2, <1>3 DEF IpcInv

-----------------------------------------------------------------------------
(* Steps that leave the messages alone *)

LEMMA TimerTickKeeps ==
    ASSUME IpcInv, NEW t \in Tasks, TimerTick(t)
    PROVE  IpcInv'
<1>1. TypeOK
  BY DEF IpcInv, SlotWhileCalling
<1>2. [state EXCEPT ![cur] = "Runnable"] \in [Tasks -> {"Runnable", "Running", "Blocked"}]
  BY <1>1 DEF TypeOK
<1>3. TypeOK'
  <2>1. cur' \in Tasks /\ state' \in [Tasks -> {"Runnable", "Running", "Blocked"}]
    BY <1>2, SwitchType DEF TimerTick
  <2>2. ticks' \in 0..MaxTicks
    BY <1>1, Kinds DEF TimerTick, TypeOK
  <2>. QED  BY <1>1, <2>1, <2>2 DEF TimerTick, TypeOK, ipcVars, Absent
<1>4. PlacesInv'
  BY DEF IpcInv, PlacesInv, TimerTick, ipcVars, Absent
<1>5. SlotWhileCalling'
  BY <1>3 DEF IpcInv, SlotWhileCalling, TimerTick, ipcVars, Absent
<1>. QED
  BY <1>3, <1>4, <1>5, SameMessages DEF IpcInv, TimerTick

LEMMA SysRecvKeeps ==
    ASSUME IpcInv, NEW p \in Programs, SysRecv(p)
    PROVE  IpcInv'
<1>1. TypeOK
  BY DEF IpcInv, SlotWhileCalling
<1>3. TypeOK'
  BY <1>1, Kinds DEF SysRecv, TypeOK, Goto, Places, ipcVars, Absent
<1>4. PlacesInv'
  BY <1>1, Kinds DEF IpcInv, PlacesInv, SysRecv, At, Goto, TypeOK, ipcVars, Absent
<1>5. SlotWhileCalling'
  BY <1>1, <1>3, Kinds DEF IpcInv, SlotWhileCalling, SysRecv, Goto, TypeOK, ipcVars, Absent
<1>. QED
  BY <1>3, <1>4, <1>5, SameMessages DEF IpcInv, SysRecv

LEMMA RecvNestedKeeps ==
    ASSUME IpcInv, NEW t \in Servers \cup Programs, RecvNested(t)
    PROVE  IpcInv'
<1>1. TypeOK
  BY DEF IpcInv, SlotWhileCalling
<1>3. TypeOK'
  BY <1>1, Kinds DEF RecvNested, TypeOK, ipcVars, Absent
<1>4. PlacesInv'
  BY <1>1, Kinds DEF IpcInv, PlacesInv, RecvNested, TypeOK, ipcVars, Absent
<1>5. SlotWhileCalling'
  BY <1>3 DEF IpcInv, SlotWhileCalling, RecvNested, ipcVars, Absent
<1>. QED
  BY <1>3, <1>4, <1>5, SameMessages DEF IpcInv, RecvNested

LEMMA ReplyWakeKeeps ==
    ASSUME IpcInv, NEW s \in Servers, ReplyWake(s)
    PROVE  IpcInv'
<1>1. TypeOK
  BY DEF IpcInv, SlotWhileCalling
<1>3. TypeOK'
  <2>1. state' \in [Tasks -> {"Runnable", "Running", "Blocked"}]
    BY <1>1, UnblockType DEF ReplyWake
  <2>. QED  BY <1>1, <2>1, Kinds DEF ReplyWake, TypeOK, Goto, Places, ipcVars, Absent
<1>4. PlacesInv'
  BY <1>1, Kinds DEF IpcInv, PlacesInv, ReplyWake, At, Goto, TypeOK, ipcVars, Absent
<1>5. SlotWhileCalling'
  BY <1>1, <1>3, Kinds DEF IpcInv, SlotWhileCalling, ReplyWake, Goto, TypeOK, ipcVars, Absent
<1>. QED
  BY <1>3, <1>4, <1>5, SameMessages DEF IpcInv, ReplyWake

LEMMA CallWakeKeeps ==
    ASSUME IpcInv, NEW c \in Callers, CallWake(c)
    PROVE  IpcInv'
<1>1. TypeOK
  BY DEF IpcInv, SlotWhileCalling
<1>3. TypeOK'
  <2>1. state' \in [Tasks -> {"Runnable", "Running", "Blocked"}]
    BY <1>1, UnblockType DEF CallWake
  <2>2. ticks + Timeout \in Nat
    BY <1>1, Kinds DEF TypeOK
  <2>. QED  BY <1>1, <2>1, <2>2, Kinds DEF CallWake, TypeOK, Goto, Places, ipcVars, Absent
<1>4. PlacesInv'
  BY <1>1, Kinds DEF IpcInv, PlacesInv, CallWake, At, Goto, TypeOK, ipcVars, Absent
<1>5. SlotWhileCalling'
  BY <1>1, <1>3, Kinds DEF IpcInv, SlotWhileCalling, CallWake, At, Goto, TypeOK, ipcVars, Absent
<1>. QED
  BY <1>3, <1>4, <1>5, SameMessages DEF IpcInv, CallWake

\* The caller that gives the CPU away is the running task: no program is in receive().
LEMMA CallBlockKeeps ==
    ASSUME IpcInv, NEW c \in Callers, CallBlock(c)
    PROVE  IpcInv'
<1>1. TypeOK
  BY DEF IpcInv, SlotWhileCalling
<1>2. [state EXCEPT ![c] = "Blocked"] \in [Tasks -> {"Runnable", "Running", "Blocked"}]
  BY <1>1, Kinds DEF TypeOK
<1>3. TypeOK'
  <2>1. cur' \in Tasks /\ state' \in [Tasks -> {"Runnable", "Running", "Blocked"}]
    BY <1>2, SwitchType DEF CallBlock
  <2>. QED  BY <1>1, <2>1, Kinds DEF CallBlock, TypeOK, Goto, Places, ipcVars, Absent
<1>4. \A p \in Programs : pc[p] = "rest" /\ pc'[p] = "rest"
  BY <1>1, Kinds DEF IpcInv, PlacesInv, CallBlock, At, Goto, TypeOK
<1>5. PlacesInv'
  BY <1>1, <1>4, Kinds DEF IpcInv, PlacesInv, CallBlock, At, Goto, TypeOK, ipcVars, Absent
<1>6. SlotWhileCalling'
  BY <1>1, <1>3, Kinds DEF IpcInv, SlotWhileCalling, CallBlock, At, Goto, TypeOK, ipcVars, Absent
<1>. QED
  BY <1>3, <1>5, <1>6, SameMessages DEF IpcInv, CallBlock

LEMMA RestKeeps ==
    ASSUME IpcInv, NEW c \in Callers, Rest(c)
    PROVE  IpcInv'
<1>1. TypeOK
  BY DEF IpcInv, SlotWhileCalling
<1>2. [state EXCEPT ![c] = "Runnable"] \in [Tasks -> {"Runnable", "Running", "Blocked"}]
  BY <1>1, Kinds DEF TypeOK
<1>3. TypeOK'
  <2>1. cur' \in Tasks /\ state' \in [Tasks -> {"Runnable", "Running", "Blocked"}]
    BY <1>2, SwitchType DEF Rest
  <2>. QED  BY <1>1, <2>1, Kinds DEF Rest, TypeOK, ipcVars, Absent
<1>4. \A p \in Programs : pc[p] = "rest" /\ pc'[p] = "rest"
  BY Kinds DEF IpcInv, PlacesInv, Rest, At
<1>5. PlacesInv'
  BY <1>4 DEF IpcInv, PlacesInv, Rest, ipcVars, Absent
<1>6. SlotWhileCalling'
  BY <1>3 DEF IpcInv, SlotWhileCalling, Rest, ipcVars, Absent
<1>. QED
  BY <1>3, <1>5, <1>6, SameMessages DEF IpcInv, Rest

-----------------------------------------------------------------------------
(* Steps of the messages *)

\* A step of a caller's slot puts no message aside.
LEMMA SameStash ==
    ASSUME \A t \in Servers \cup Programs : replies'[t] = replies[t]
    PROVE  Stashed' = Stashed
BY DEF Stashed, Absent

\* A message that is enqueued is the last one sent.
LEMMA EnqueueMessages ==
    ASSUME IpcInv, NEW t, Enqueue(t), Stashed' = Stashed, got' = got
    PROVE  EachMessageOnce'
<1>1. TypeOK /\ EachMessageOnce
  BY DEF IpcInv, SlotWhileCalling
<1>2. /\ queue \in Seq(1..MaxMsgs) /\ sent \in Nat /\ sent + 1 \in 1..MaxMsgs
      /\ sent' = sent + 1 /\ queue' = Append(queue, sent + 1)
  BY <1>1, Kinds DEF TypeOK, Enqueue
<1>3. /\ DOMAIN queue' = 1..(Len(queue) + 1) /\ DOMAIN queue = 1..Len(queue)
      /\ \A k \in DOMAIN queue : queue'[k] = queue[k]
      /\ queue'[Len(queue) + 1] = sent + 1 /\ Len(queue) \in Nat
  BY <1>2, ElemsAppend
<1>4. Elems(queue)' = Elems(queue) \cup {sent + 1}
  <2>1. 1..(Len(queue) + 1) = 1..Len(queue) \cup {Len(queue) + 1}
    BY <1>3
  <2>. QED  BY <1>3, <2>1 DEF Elems
<1>5. Elems(got)' = Elems(got)
  BY DEF Elems
<1>6. 1..sent' = 1..sent \cup {sent + 1} /\ \A m \in 1..sent : m \in Nat /\ m < sent + 1
  BY <1>2
<1>7. \A m \in Elems(queue) \cup Stashed \cup Elems(got) : m \in Nat /\ m < sent + 1
  BY <1>1, <1>6 DEF EachMessageOnce
<1>8. /\ Elems(queue)' \cup Stashed' \cup Elems(got)' = 1..sent'
      /\ Elems(queue)' \cap Elems(got)' = {}
      /\ Stashed' \cap (Elems(queue)' \cup Elems(got)') = {}
  <2>1. sent + 1 \notin Elems(got) /\ sent + 1 \notin Stashed
    BY <1>2, <1>7
  <2>. QED  BY <1>1, <1>4, <1>5, <1>6, <2>1 DEF EachMessageOnce
<1>9. \A j, k \in DOMAIN got' : got'[j] = got'[k] => j = k
  BY <1>1 DEF EachMessageOnce
<1>10. \A j, k \in DOMAIN queue' : j < k => queue'[j] < queue'[k]
  <2>. SUFFICES ASSUME NEW j \in DOMAIN queue', NEW k \in DOMAIN queue', j < k
                PROVE  queue'[j] < queue'[k]
    OBVIOUS
  <2>1. j \in DOMAIN queue /\ queue'[j] = queue[j] /\ queue[j] \in Elems(queue)
    BY <1>3 DEF Elems
  <2>2. CASE k = Len(queue) + 1
    BY <1>3, <1>7, <2>1, <2>2
  <2>3. CASE k # Len(queue) + 1
    <3>1. k \in DOMAIN queue /\ queue'[k] = queue[k]
      BY <1>3, <2>3
    <3>. QED  BY <1>1, <2>1, <3>1 DEF EachMessageOnce
  <2>. QED  BY <2>2, <2>3
<1>11. \A q \in Elems(queue)' : \A m \in Elems(got)' \cup Stashed' : m < q
  BY <1>1, <1>4, <1>5, <1>7 DEF EachMessageOnce
<1>. QED
  BY <1>8, <1>9, <1>10, <1>11 DEF EachMessageOnce

\* The message that leaves the queue is the oldest one there.
LEMMA TakeMessages ==
    ASSUME IpcInv, queue # <<>>, queue' = Tail(queue), sent' = sent,
           \/ got' = Append(got, Head(queue)) /\ Stashed' = Stashed
           \/ got' = got /\ Stashed' = Stashed \cup {Head(queue)}
    PROVE  EachMessageOnce'
<1>1. TypeOK /\ EachMessageOnce
  BY DEF IpcInv, SlotWhileCalling
<1>2. queue \in Seq(1..MaxMsgs) /\ got \in Seq(1..MaxMsgs) /\ sent \in Nat
  BY <1>1 DEF TypeOK
<1>. DEFINE h == Head(queue)
<1>3. /\ h \in 1..MaxMsgs /\ 1 \in DOMAIN queue /\ queue[1] = h /\ Len(queue) \in Nat
      /\ DOMAIN queue = 1..Len(queue) /\ DOMAIN Tail(queue) = 1..(Len(queue) - 1)
      /\ \A k \in DOMAIN Tail(queue) : k + 1 \in DOMAIN queue /\ Tail(queue)[k] = queue[k + 1]
      /\ Elems(queue) = Elems(Tail(queue)) \cup {h}
  BY <1>2, ElemsTail
<1>4. /\ DOMAIN Append(got, h) = 1..(Len(got) + 1) /\ DOMAIN got = 1..Len(got)
      /\ \A k \in DOMAIN got : Append(got, h)[k] = got[k]
      /\ Append(got, h)[Len(got) + 1] = h /\ Len(got) \in Nat
      /\ Elems(Append(got, h)) = Elems(got) \cup {h}
  BY <1>2, <1>3, ElemsAppend
<1>. HIDE DEF h
<1>5. Elems(queue)' = Elems(Tail(queue)) /\ h \in Elems(queue)
  BY <1>3 DEF Elems
<1>6. \/ Elems(got)' = Elems(got) \cup {h} /\ Stashed' = Stashed
      \/ Elems(got)' = Elems(got) /\ Stashed' = Stashed \cup {h}
  BY <1>4 DEF Elems, h
<1>7. \A q \in Elems(queue)' : h < q
  <2>. SUFFICES ASSUME NEW k \in DOMAIN Tail(queue) PROVE h < Tail(queue)[k]
    BY DEF Elems
  <2>1. k + 1 \in DOMAIN queue /\ 1 < k + 1
    BY <1>3
  <2>. QED  BY <1>1, <1>3, <2>1 DEF EachMessageOnce
<1>8. h \notin Elems(queue)'
  BY <1>3, <1>7
<1>9. /\ Elems(queue)' \cup Stashed' \cup Elems(got)' = 1..sent'
      /\ Elems(queue)' \cap Elems(got)' = {}
      /\ Stashed' \cap (Elems(queue)' \cup Elems(got)') = {}
  BY <1>1, <1>3, <1>5, <1>6, <1>8 DEF EachMessageOnce
<1>10. \A j, k \in DOMAIN got' : got'[j] = got'[k] => j = k
  <2>1. CASE got' = got
    BY <1>1, <2>1 DEF EachMessageOnce
  <2>2. CASE got' = Append(got, h)
    <3>. SUFFICES ASSUME NEW j \in DOMAIN got', NEW k \in DOMAIN got', got'[j] = got'[k]
                  PROVE  j = k
      OBVIOUS
    <3>0. DOMAIN got' = 1..(Len(got) + 1) /\ \A i \in DOMAIN got : got'[i] = got[i]
      BY <1>4, <2>2, Zenon
    <3>1. \A i \in DOMAIN got' : i \in DOMAIN got \/ i = Len(got) + 1
      BY <1>4, <3>0
    <3>2. \A i \in DOMAIN got : got'[i] = got[i] /\ got[i] # h
      <4>1. h \notin Elems(got)
        BY <1>1, <1>5 DEF EachMessageOnce
      <4>. QED  BY <3>0, <4>1 DEF Elems
    <3>3. got'[Len(got) + 1] = h
      BY <1>4, <2>2
    <3>. QED  BY <1>1, <3>1, <3>2, <3>3 DEF EachMessageOnce
  <2>. QED  BY <2>1, <2>2 DEF h
<1>11. \A j, k \in DOMAIN queue' : j < k => queue'[j] < queue'[k]
  <2>. SUFFICES ASSUME NEW j \in DOMAIN queue', NEW k \in DOMAIN queue', j < k
                PROVE  queue'[j] < queue'[k]
    OBVIOUS
  <2>1. /\ j + 1 \in DOMAIN queue /\ queue'[j] = queue[j + 1]
        /\ k + 1 \in DOMAIN queue /\ queue'[k] = queue[k + 1] /\ j + 1 < k + 1
    BY <1>3
  <2>. QED  BY <1>1, <2>1 DEF EachMessageOnce
<1>12. \A q \in Elems(queue)' : \A m \in Elems(got)' \cup Stashed' : m < q
  BY <1>1, <1>3, <1>5, <1>6, <1>7 DEF EachMessageOnce
<1>. QED
  BY <1>9, <1>10, <1>11, <1>12 DEF EachMessageOnce

\* Enqueueing a message: the types, the waiters that are left, and the senders.
LEMMA EnqueueKeeps ==
    ASSUME IpcInv, NEW t \in Callers \cup Programs, Enqueue(t)
    PROVE  /\ sent' \in 0..MaxMsgs /\ sender' \in [1..MaxMsgs -> Tasks \cup {"none"}]
           /\ queue' \in Seq(1..MaxMsgs) /\ waiters' \in Seq(Servers \cup Programs)
           /\ FirstWaiter \in Tasks \cup {"none"}
           /\ \A j, k \in DOMAIN waiters' : waiters'[j] = waiters'[k] => j = k
           /\ \A m \in 1..sent' : sender'[m] \in Callers \cup Programs
           /\ 1..sent \subseteq 1..sent' /\ \A m \in 1..sent : sender'[m] = sender[m]
<1>1. TypeOK
  BY DEF IpcInv, SlotWhileCalling
<1>2. sent' \in 0..MaxMsgs /\ sent + 1 \in 1..MaxMsgs /\ sent' = sent + 1 /\ sent \in Nat
  BY <1>1, Kinds DEF TypeOK, Enqueue
<1>3. t \in Tasks /\ sender' \in [1..MaxMsgs -> Tasks \cup {"none"}]
  BY <1>1, <1>2, Kinds DEF TypeOK, Enqueue
<1>4. queue' \in Seq(1..MaxMsgs)
  BY <1>1, <1>2 DEF TypeOK, Enqueue
<1>5. waiters' \in Seq(Servers \cup Programs) /\ FirstWaiter \in Tasks \cup {"none"}
  BY <1>1, Kinds DEF TypeOK, Enqueue, FirstWaiter
<1>6. \A j, k \in DOMAIN waiters' : waiters'[j] = waiters'[k] => j = k
  <2>1. CASE waiters = <<>>
    BY <2>1 DEF IpcInv, PlacesInv, Enqueue
  <2>2. CASE waiters # <<>>
    <3>1. waiters' = Tail(waiters) /\ waiters \in Seq(Servers \cup Programs)
      BY <1>1, <2>2 DEF Enqueue, TypeOK
    <3>2. /\ Len(waiters) \in Nat /\ DOMAIN waiters' = 1..(Len(waiters) - 1)
          /\ \A k \in DOMAIN waiters' : k + 1 \in DOMAIN waiters /\ waiters'[k] = waiters[k + 1]
      BY <2>2, <3>1, ElemsTail
    <3>. SUFFICES ASSUME NEW j \in DOMAIN waiters', NEW k \in DOMAIN waiters',
                         waiters'[j] = waiters'[k]
                  PROVE  j = k
      OBVIOUS
    <3>3. j + 1 = k + 1
      BY <3>2 DEF IpcInv, PlacesInv
    <3>. QED  BY <3>2, <3>3
  <2>. QED  BY <2>1, <2>2
<1>7. 1..sent \subseteq 1..sent' /\ \A m \in 1..sent : sender'[m] = sender[m]
  BY <1>1, <1>2 DEF TypeOK, Enqueue
<1>8. ASSUME NEW m \in 1..sent' PROVE sender'[m] \in Callers \cup Programs
  <2>1. CASE m = sent + 1
    BY <1>1, <1>2, <2>1 DEF TypeOK, Enqueue
  <2>2. CASE m # sent + 1
    <3>1. m \in 1..sent
      BY <1>2, <2>2
    <3>. QED  BY <1>7, <3>1 DEF IpcInv, SendersInv
  <2>. QED  BY <2>1, <2>2
<1>. QED
  BY <1>2, <1>3, <1>4, <1>5, <1>6, <1>7, <1>8

LEMMA SysSendKeeps ==
    ASSUME IpcInv, NEW p \in Programs, SysSend(p)
    PROVE  IpcInv'
<1>1. TypeOK /\ Enqueue(p)
  BY DEF IpcInv, SlotWhileCalling, SysSend
<1>2. /\ sent' \in 0..MaxMsgs /\ sender' \in [1..MaxMsgs -> Tasks \cup {"none"}]
      /\ queue' \in Seq(1..MaxMsgs) /\ waiters' \in Seq(Servers \cup Programs)
      /\ \A j, k \in DOMAIN waiters' : waiters'[j] = waiters'[k] => j = k
      /\ \A m \in 1..sent' : sender'[m] \in Callers \cup Programs
      /\ 1..sent \subseteq 1..sent' /\ \A m \in 1..sent : sender'[m] = sender[m]
  BY <1>1, EnqueueKeeps
<1>3. TypeOK'
  <2>1. state' \in [Tasks -> {"Runnable", "Running", "Blocked"}]
    BY <1>1, UnblockType DEF SysSend
  <2>. QED  BY <1>1, <1>2, <2>1 DEF SysSend, TypeOK, Absent
<1>4. PlacesInv'
  BY <1>2 DEF IpcInv, PlacesInv, SysSend, Absent
<1>5. SendersInv'
  BY <1>2 DEF IpcInv, SendersInv, SysSend, Absent
<1>6. EachMessageOnce'
  BY <1>1, SameStash, EnqueueMessages DEF SysSend
<1>7. SlotWhileCalling'
  BY <1>3 DEF IpcInv, SlotWhileCalling, SysSend, Absent
<1>8. ReplyToOwnRequest'
  BY <1>2 DEF IpcInv, SendersInv, ReplyToOwnRequest, SysSend, Absent
<1>. QED
  BY <1>4, <1>5, <1>6, <1>7, <1>8 DEF IpcInv

LEMMA CallSendKeeps ==
    ASSUME IpcInv, NEW c \in Callers, CallSend(c)
    PROVE  IpcInv'
<1>1. TypeOK /\ Enqueue(c)
  BY DEF IpcInv, SlotWhileCalling, CallSend
<1>2. /\ sent' \in 0..MaxMsgs /\ sender' \in [1..MaxMsgs -> Tasks \cup {"none"}]
      /\ queue' \in Seq(1..MaxMsgs) /\ waiters' \in Seq(Servers \cup Programs)
      /\ FirstWaiter \in Tasks \cup {"none"}
      /\ \A j, k \in DOMAIN waiters' : waiters'[j] = waiters'[k] => j = k
      /\ \A m \in 1..sent' : sender'[m] \in Callers \cup Programs
      /\ 1..sent \subseteq 1..sent' /\ \A m \in 1..sent : sender'[m] = sender[m]
  BY <1>1, EnqueueKeeps
<1>3. /\ replies' \in [Tasks -> 0..Absent] /\ replies'[c] = 0
      /\ \A t \in Tasks \ {c} : replies'[t] = replies[t]
  BY <1>1, Kinds DEF TypeOK, CallSend, Absent
<1>4. /\ pc' \in [Tasks -> Places] /\ pc'[c] = "cwake"
      /\ \A t \in Tasks \ {c} : pc'[t] = pc[t]
  BY <1>1, Kinds DEF TypeOK, CallSend, Goto, Places
<1>5. TypeOK'
  <2>1. wake' \in [Tasks -> Tasks \cup {"none"}]
    BY <1>1, <1>2, Kinds DEF TypeOK, CallSend
  <2>2. replies' \in [Tasks -> 0..Absent']
    BY <1>3 DEF Absent
  <2>. QED  BY <1>1, <1>2, <2>2, <1>4, <2>1 DEF CallSend, TypeOK
<1>6. PlacesInv'
  <2>1. cur' = cur /\ iflag' = iflag /\ msg' = msg
    BY DEF CallSend
  <2>2. \A p \in Programs : pc'[p] # "rest" => cur' = p /\ ~iflag'[p]
    BY <1>4, <2>1, Kinds DEF IpcInv, PlacesInv
  <2>3. \A t \in Servers \cup Programs : replies'[t] # Absent => pc'[t] = "nested"
    BY <1>3, <1>4, Kinds DEF IpcInv, PlacesInv
  <2>4. \A s \in Servers : pc'[s] = "reply" => msg'[s] \in 1..sent'
    BY <1>2, <1>4, <2>1, Kinds DEF IpcInv, PlacesInv
  <2>. QED  BY <1>2, <2>2, <2>3, <2>4 DEF PlacesInv, Absent
<1>7. SendersInv'
  BY <1>2, <1>3, Kinds DEF IpcInv, SendersInv, Absent
<1>8. EachMessageOnce'
  <2>1. \A t \in Servers \cup Programs : replies'[t] = replies[t]
    BY <1>3, Kinds
  <2>2. Stashed' = Stashed /\ got' = got
    BY <2>1, SameStash DEF CallSend
  <2>. QED  BY <1>1, <2>2, EnqueueMessages
<1>9. SlotWhileCalling'
  <2>1. 0 # Absent
    BY Kinds DEF Absent
  <2>. QED  BY <1>3, <1>4, <1>5, <2>1, Kinds DEF IpcInv, SlotWhileCalling, Absent
<1>10. ReplyToOwnRequest'
  BY <1>2, <1>3, Kinds DEF IpcInv, SendersInv, ReplyToOwnRequest, Absent
<1>. QED
  BY <1>6, <1>7, <1>8, <1>9, <1>10 DEF IpcInv

\* The reply slot of caller c changes; the messages stay where they are.
LEMMA SlotStep ==
    ASSUME IpcInv, NEW c \in Callers, UNCHANGED <<sent, sender, queue, waiters, got>>,
           \A t \in Tasks \ {c} : replies'[t] = replies[t],
           replies'[c] \in {0, Absent} \/ (replies'[c] \in 1..sent /\ sender[replies'[c]] = c)
    PROVE  EachMessageOnce' /\ SendersInv' /\ ReplyToOwnRequest'
<1>1. \A t \in Servers \cup Programs : replies'[t] = replies[t]
  BY Kinds
<1>2. Stashed' = Stashed
  BY <1>1, SameStash
<1>3. EachMessageOnce'
  BY <1>2 DEF IpcInv, EachMessageOnce, Elems
<1>4. SendersInv'
  BY Kinds DEF IpcInv, SendersInv, Absent
<1>5. ReplyToOwnRequest'
  BY Kinds DEF IpcInv, ReplyToOwnRequest, Absent
<1>. QED
  BY <1>3, <1>4, <1>5

LEMMA CallCheckKeeps ==
    ASSUME IpcInv, NEW c \in Callers, CallCheck(c)
    PROVE  IpcInv'
<1>1. TypeOK
  BY DEF IpcInv, SlotWhileCalling
<1>2. /\ replies' \in [Tasks -> 0..Absent]
      /\ \A t \in Tasks \ {c} : replies'[t] = replies[t] /\ pc'[t] = pc[t]
      /\ pc' \in [Tasks -> Places] /\ pc[c] = "check"
      /\ \/ replies'[c] = Absent /\ pc'[c] = "rest"
         \/ replies'[c] = 0 /\ pc'[c] = "late"
  <2>1. Absent \in 0..Absent
    BY Kinds DEF Absent
  <2>2. c \in Tasks /\ replies \in [Tasks -> 0..Absent] /\ pc \in [Tasks -> Places] /\ pc[c] = "check"
        /\ "rest" \in Places /\ "late" \in Places
    BY <1>1, Kinds DEF TypeOK, CallCheck, At, Places
  <2>3. CASE replies[c] # 0
    BY <2>1, <2>2, <2>3 DEF CallCheck, Goto
  <2>4. CASE replies[c] = 0
    BY <2>2, <2>4 DEF CallCheck, Goto
  <2>. QED  BY <2>3, <2>4
<1>3. TypeOK'
  BY <1>1, <1>2 DEF TypeOK, CallCheck, Absent
<1>4. PlacesInv'
  BY <1>1, <1>2, Kinds DEF IpcInv, PlacesInv, CallCheck, Absent
<1>5. SlotWhileCalling'
  <2>1. 0 # Absent
    BY Kinds DEF Absent
  <2>. QED  BY <1>2, <1>3, <2>1, Kinds DEF IpcInv, SlotWhileCalling, Absent
<1>6. EachMessageOnce' /\ SendersInv' /\ ReplyToOwnRequest'
  BY <1>2, SlotStep DEF CallCheck
<1>. QED
  BY <1>4, <1>5, <1>6 DEF IpcInv

LEMMA CallDeadlineKeeps ==
    ASSUME IpcInv, NEW c \in Callers, CallDeadline(c)
    PROVE  IpcInv'
<1>1. TypeOK
  BY DEF IpcInv, SlotWhileCalling
<1>2. /\ replies' \in [Tasks -> 0..Absent] /\ iflag' \in [Tasks -> BOOLEAN]
      /\ \A t \in Tasks \ {c} : replies'[t] = replies[t] /\ pc'[t] = pc[t] /\ iflag'[t] = iflag[t]
      /\ pc' \in [Tasks -> Places] /\ pc[c] = "late"
      /\ \/ replies'[c] = Absent /\ pc'[c] = "rest"
         \/ replies' = replies /\ pc'[c] = "block"
  <2>1. Absent \in 0..Absent
    BY Kinds DEF Absent
  <2>2. c \in Tasks /\ replies \in [Tasks -> 0..Absent] /\ pc \in [Tasks -> Places] /\ pc[c] = "late"
        /\ iflag \in [Tasks -> BOOLEAN] /\ "rest" \in Places /\ "block" \in Places
    BY <1>1, Kinds DEF TypeOK, CallDeadline, At, Places
  <2>3. \/ replies' = [replies EXCEPT ![c] = Absent] /\ Goto(c, "rest") /\ iflag' = iflag
        \/ replies' = replies /\ Goto(c, "block") /\ iflag' = [iflag EXCEPT ![c] = TRUE]
    BY DEF CallDeadline
  <2>. QED  BY <2>1, <2>2, <2>3 DEF Goto
<1>3. TypeOK'
  BY <1>1, <1>2 DEF TypeOK, CallDeadline, Absent
<1>4. PlacesInv'
  BY <1>1, <1>2, Kinds DEF IpcInv, PlacesInv, CallDeadline, Absent
<1>5. SlotWhileCalling'
  BY <1>2, <1>3, Kinds DEF IpcInv, SlotWhileCalling, Absent
<1>6. EachMessageOnce' /\ SendersInv' /\ ReplyToOwnRequest'
  <2>1. CASE replies' = replies
    BY <2>1, SameMessages DEF CallDeadline, ipcVars
  <2>2. CASE replies'[c] = Absent
    BY <1>2, <2>2, SlotStep DEF CallDeadline
  <2>. QED  BY <1>2, <2>1, <2>2
<1>. QED
  BY <1>4, <1>5, <1>6 DEF IpcInv

\* A reply goes to a caller: a program that has a message put aside is in
\* receive() and has the CPU, which the service that replies has now.
LEMMA ReplyStoreKeeps ==
    ASSUME IpcInv, NEW s \in Servers, ReplyStore(s)
    PROVE  IpcInv'
<1>1. TypeOK
  BY DEF IpcInv, SlotWhileCalling
<1>2. /\ cur = s /\ pc[s] = "reply" /\ s \in Tasks
      /\ pc' \in [Tasks -> Places] /\ pc'[s] = "rwake"
      /\ \A t \in Tasks \ {s} : pc'[t] = pc[t]
  BY <1>1, Kinds DEF ReplyStore, At, Goto, TypeOK, Places
<1>3. msg[s] \in 1..sent /\ sent \in 0..MaxMsgs
  BY <1>1, <1>2 DEF IpcInv, PlacesInv, TypeOK
<1>4. PICK to \in Callers \cup Programs : to = sender[msg[s]]
  BY <1>3 DEF IpcInv, SendersInv
<1>5. to \in Tasks /\ msg[s] \in 0..Absent /\ msg[s] # Absent
  BY <1>3, Kinds DEF Absent
<1>6. \/ /\ replies[to] # Absent
         /\ replies' = [replies EXCEPT ![to] = msg[s]]
         /\ wake' = [wake EXCEPT ![s] = to]
      \/ replies' = replies /\ wake' = wake
  BY <1>4 DEF ReplyStore
<1>7. TypeOK'
  <2>1. replies' \in [Tasks -> 0..Absent] /\ wake' \in [Tasks -> Tasks \cup {"none"}]
    BY <1>1, <1>2, <1>5, <1>6, ZenonT(60) DEF TypeOK
  <2>2. replies' \in [Tasks -> 0..Absent']
    BY <2>1 DEF Absent
  <2>. QED  BY <1>1, <1>2, <2>1, <2>2 DEF ReplyStore, TypeOK
<1>8. \A t \in Servers \cup Programs : replies'[t] = replies[t]
  <2>1. CASE replies' = replies
    BY <2>1
  <2>2. CASE replies[to] # Absent /\ replies' = [replies EXCEPT ![to] = msg[s]]
    <3>1. to \in Callers
      BY <1>2, <2>2, Kinds DEF IpcInv, PlacesInv
    <3>. QED  BY <1>1, <2>2, <3>1, Kinds DEF TypeOK
  <2>. QED  BY <1>6, <2>1, <2>2
<1>9. PlacesInv'
  <2>1. cur' = cur /\ iflag' = iflag /\ msg' = msg /\ sent' = sent /\ waiters' = waiters
    BY DEF ReplyStore
  <2>2. \A p \in Programs : pc'[p] # "rest" => cur' = p /\ ~iflag'[p]
    BY <1>2, <2>1, Kinds DEF IpcInv, PlacesInv
  <2>3. \A t \in Servers \cup Programs : replies'[t] # Absent => pc'[t] = "nested"
    BY <1>2, <1>8, Kinds DEF IpcInv, PlacesInv
  <2>4. \A u \in Servers : pc'[u] = "reply" => msg'[u] \in 1..sent'
    BY <1>2, <2>1, Kinds DEF IpcInv, PlacesInv
  <2>. QED  BY <2>1, <2>2, <2>3, <2>4 DEF IpcInv, PlacesInv, Absent
<1>10. SlotWhileCalling'
  <2>1. \A c \in Callers : replies'[c] # Absent <=> replies[c] # Absent
    BY <1>1, <1>5, <1>6, Kinds DEF TypeOK
  <2>. QED  BY <1>2, <1>7, <2>1, Kinds DEF IpcInv, SlotWhileCalling, Absent
<1>11. EachMessageOnce' /\ SendersInv' /\ ReplyToOwnRequest'
  <2>1. UNCHANGED <<sent, sender, queue, waiters, got>>
    BY DEF ReplyStore
  <2>2. CASE replies' = replies
    BY <2>1, <2>2, SameMessages DEF ipcVars
  <2>3. CASE replies[to] # Absent /\ replies' = [replies EXCEPT ![to] = msg[s]]
    <3>1. to \in Callers
      BY <1>2, <2>3, Kinds DEF IpcInv, PlacesInv
    <3>2. /\ \A t \in Tasks \ {to} : replies'[t] = replies[t]
          /\ replies'[to] \in 1..sent /\ sender[replies'[to]] = to
      BY <1>1, <1>3, <1>4, <1>5, <2>3 DEF TypeOK
    <3>. QED  BY <2>1, <3>1, <3>2, SlotStep
  <2>. QED  BY <1>6, <2>2, <2>3
<1>. QED
  BY <1>9, <1>10, <1>11 DEF IpcInv

LEMMA RecvFastKeeps ==
    ASSUME IpcInv, NEW t \in Servers \cup Programs, RecvFast(t)
    PROVE  IpcInv'
<1>1. TypeOK /\ t \in Tasks /\ t \notin Callers
  BY Kinds DEF IpcInv, SlotWhileCalling
<1>2. /\ cur = t /\ pc[t] = "recv"
      /\ UNCHANGED <<cur, state, ticks, sent, sender, waiters, replies, wake, deadline, hung>>
  BY DEF RecvFast, At
<1>3. replies[t] = Absent
  BY <1>2 DEF IpcInv, PlacesInv
<1>4. SendersInv' /\ ReplyToOwnRequest' /\ Stashed' = Stashed
  BY <1>2, SameStash DEF IpcInv, SendersInv, ReplyToOwnRequest, Absent
<1>5. CASE queue # <<>>
  <2>1. queue \in Seq(1..MaxMsgs) /\ got \in Seq(1..MaxMsgs)
    BY <1>1 DEF TypeOK
  <2>2. /\ Tail(queue) \in Seq(1..MaxMsgs) /\ Head(queue) \in 1..MaxMsgs
        /\ Elems(queue) = Elems(Tail(queue)) \cup {Head(queue)}
    BY <1>5, <2>1, ElemsTail
  <2>3. Append(got, Head(queue)) \in Seq(1..MaxMsgs)
    BY <2>1, <2>2
  <2>4. Head(queue) \in 1..sent
    BY <2>2 DEF IpcInv, EachMessageOnce
  <2>5. queue' = Tail(queue) /\ Received(t, Head(queue))
    BY <1>5 DEF RecvFast
  <2>6. /\ got' = Append(got, Head(queue))
        /\ \/ /\ t \in Servers /\ Goto(t, "reply") /\ msg' = [msg EXCEPT ![t] = Head(queue)]
              /\ iflag' = iflag
           \/ /\ t \notin Servers /\ Goto(t, "rest") /\ iflag' = [iflag EXCEPT ![t] = TRUE]
              /\ msg' = msg
    BY <2>5 DEF Received
  <2>7. /\ pc' \in [Tasks -> Places] /\ \A u \in Tasks \ {t} : pc'[u] = pc[u]
        /\ pc'[t] \in {"reply", "rest"}
        /\ t \in Programs => pc'[t] = "rest"
        /\ iflag' \in [Tasks -> BOOLEAN] /\ \A u \in Tasks \ {t} : iflag'[u] = iflag[u]
    BY <1>1, <2>6, Kinds DEF TypeOK, Goto, Places
  <2>8. /\ msg' \in [Servers -> 0..MaxMsgs]
        /\ \A u \in Servers : (u = t /\ msg'[u] \in 1..sent) \/ (u # t /\ msg'[u] = msg[u])
    <3>1. Head(queue) \in 0..MaxMsgs
      BY <2>2
    <3>. QED  BY <1>1, <2>4, <2>6, <3>1 DEF TypeOK
  <2>9. TypeOK'
    BY <1>1, <1>2, <2>2, <2>3, <2>5, <2>6, <2>7, <2>8 DEF TypeOK, Absent
  <2>10. PlacesInv'
    <3>1. \A p \in Programs : pc'[p] # "rest" => cur' = p /\ ~iflag'[p]
      BY <1>2, <2>7, Kinds DEF IpcInv, PlacesInv
    <3>2. \A u \in Servers \cup Programs : replies'[u] # Absent => pc'[u] = "nested"
      BY <1>2, <1>3, <2>7, Kinds DEF IpcInv, PlacesInv
    <3>3. \A u \in Servers : pc'[u] = "reply" => msg'[u] \in 1..sent'
      BY <1>2, <2>7, <2>8, Kinds DEF IpcInv, PlacesInv
    <3>. QED  BY <1>2, <3>1, <3>2, <3>3 DEF IpcInv, PlacesInv, Absent
  <2>11. SlotWhileCalling'
    BY <1>1, <1>2, <2>7, <2>9, Kinds DEF IpcInv, SlotWhileCalling, Absent
  <2>12. EachMessageOnce'
    BY <1>2, <1>4, <1>5, <2>5, <2>6, TakeMessages
  <2>. QED  BY <1>4, <2>10, <2>11, <2>12 DEF IpcInv
<1>6. CASE queue = <<>>
  <2>1. Goto(t, "register") /\ UNCHANGED <<queue, got, msg, iflag>>
    BY <1>6 DEF RecvFast
  <2>2. TypeOK'
    BY <1>1, <1>2, <2>1 DEF TypeOK, Goto, Places, Absent
  <2>3. PlacesInv'
    BY <1>1, <1>2, <1>3, <2>1, Kinds DEF IpcInv, PlacesInv, TypeOK, Goto, Absent
  <2>4. SlotWhileCalling'
    BY <1>1, <1>2, <2>1, <2>2, Kinds DEF IpcInv, SlotWhileCalling, TypeOK, Goto, Absent
  <2>5. EachMessageOnce'
    BY <1>2, <2>1, SameMessages DEF ipcVars
  <2>. QED  BY <1>4, <2>3, <2>4, <2>5 DEF IpcInv
<1>. QED
  BY <1>5, <1>6

LEMMA RecvRegisterKeeps ==
    ASSUME IpcInv, NEW t \in Servers \cup Programs, RecvRegister(t)
    PROVE  IpcInv'
<1>1. TypeOK /\ t \in Tasks /\ t \notin Callers
  BY Kinds DEF IpcInv, SlotWhileCalling
<1>2. /\ cur = t /\ pc[t] = "register"
      /\ UNCHANGED <<cur, state, iflag, ticks, sent, sender, wake, deadline, msg, got, hung>>
  BY DEF RecvRegister, At
<1>3. replies[t] = Absent
  BY <1>2 DEF IpcInv, PlacesInv
<1>4. /\ pc' \in [Tasks -> Places] /\ \A u \in Tasks \ {t} : pc'[u] = pc[u]
      /\ pc'[t] = "nested"
  BY <1>1 DEF RecvRegister, TypeOK, Goto, Places
<1>5. CASE queue # <<>>
  <2>1. queue \in Seq(1..MaxMsgs) /\ MaxMsgs \in Nat
    BY <1>1, Kinds DEF TypeOK
  <2>2. Tail(queue) \in Seq(1..MaxMsgs) /\ Head(queue) \in 1..MaxMsgs
    BY <1>5, <2>1, ElemsTail
  <2>3. Head(queue) \in 0..Absent /\ Head(queue) # Absent
    BY <2>1, <2>2 DEF Absent
  <2>4. /\ queue' = Tail(queue) /\ replies' = [replies EXCEPT ![t] = Head(queue)]
        /\ waiters' = waiters
    BY <1>5 DEF RecvRegister
  <2>5. /\ replies' \in [Tasks -> 0..Absent] /\ replies'[t] = Head(queue)
        /\ \A u \in Tasks \ {t} : replies'[u] = replies[u]
    BY <1>1, <2>3, <2>4 DEF TypeOK
  <2>6. TypeOK'
    BY <1>1, <1>2, <1>4, <2>2, <2>4, <2>5 DEF TypeOK, Absent
  <2>7. PlacesInv'
    <3>1. \A p \in Programs : pc'[p] # "rest" => cur' = p /\ ~iflag'[p]
      BY <1>2, <1>4, Kinds DEF IpcInv, PlacesInv
    <3>2. \A u \in Servers \cup Programs : replies'[u] # Absent => pc'[u] = "nested"
      BY <1>4, <2>5, Kinds DEF IpcInv, PlacesInv
    <3>3. \A u \in Servers : pc'[u] = "reply" => msg'[u] \in 1..sent'
      BY <1>2, <1>4, Kinds DEF IpcInv, PlacesInv
    <3>. QED  BY <2>4, <3>1, <3>2, <3>3 DEF IpcInv, PlacesInv, Absent
  <2>8. SlotWhileCalling'
    BY <1>1, <1>4, <2>5, <2>6, Kinds DEF IpcInv, SlotWhileCalling, Absent
  <2>9. SendersInv' /\ ReplyToOwnRequest'
    BY <1>1, <1>2, <2>5, Kinds DEF IpcInv, SendersInv, ReplyToOwnRequest, Absent
  <2>10. Stashed' = Stashed \cup {Head(queue)}
    <3>. DEFINE U == {u \in Servers \cup Programs : replies[u] # Absent}
    <3>1. {u \in Servers \cup Programs : replies'[u] # Absent} = U \cup {t} /\ t \notin U
      BY <1>3, <2>3, <2>5, Kinds
    <3>2. \A u \in U : replies'[u] = replies[u]
      BY <2>5, <3>1, Kinds
    <3>3. Stashed = {replies[u] : u \in U} /\ Absent' = Absent
      BY DEF Stashed, Absent
    <3>. HIDE DEF U
    <3>4. Stashed' = {replies'[u] : u \in U \cup {t}}
      BY <3>1, <3>3 DEF Stashed
    <3>. QED  BY <2>5, <3>2, <3>3, <3>4
  <2>11. EachMessageOnce'
    BY <1>2, <1>5, <2>4, <2>10, TakeMessages
  <2>. QED  BY <2>7, <2>8, <2>9, <2>11 DEF IpcInv
<1>6. CASE queue = <<>>
  <2>1. waiters' = Append(Without(waiters, t), t) /\ UNCHANGED <<queue, replies>>
    BY <1>6 DEF RecvRegister
  <2>. DEFINE w == Without(waiters, t)
  <2>2. /\ w \in Seq(Servers \cup Programs) /\ \A j \in DOMAIN w : w[j] # t
        /\ \A j, k \in DOMAIN w : w[j] = w[k] => j = k
    BY <1>1, WithoutIs DEF IpcInv, PlacesInv, TypeOK
  <2>. HIDE DEF w
  <2>3. /\ Append(w, t) \in Seq(Servers \cup Programs) /\ DOMAIN Append(w, t) = 1..(Len(w) + 1)
        /\ \A k \in DOMAIN w : Append(w, t)[k] = w[k]
        /\ Append(w, t)[Len(w) + 1] = t
        /\ DOMAIN w = 1..Len(w) /\ Len(w) \in Nat
    BY <2>2, ElemsAppend
  <2>4. waiters' = Append(w, t)
    BY <2>1 DEF w
  <2>5. \A j, k \in DOMAIN waiters' : waiters'[j] = waiters'[k] => j = k
    <3>1. DOMAIN waiters' = 1..(Len(w) + 1) /\ waiters'[Len(w) + 1] = t
          /\ \A k \in DOMAIN w : waiters'[k] = w[k]
      BY <2>3, <2>4, Zenon
    <3>2. \A i \in DOMAIN waiters' : i \in DOMAIN w \/ i = Len(w) + 1
      BY <2>3, <3>1
    <3>. QED  BY <2>2, <3>1, <3>2
  <2>6. TypeOK'
    BY <1>1, <1>2, <1>4, <2>1, <2>3, <2>4 DEF TypeOK, Absent
  <2>7. PlacesInv'
    <3>1. \A p \in Programs : pc'[p] # "rest" => cur' = p /\ ~iflag'[p]
      BY <1>2, <1>4, Kinds DEF IpcInv, PlacesInv
    <3>2. \A u \in Servers \cup Programs : replies'[u] # Absent => pc'[u] = "nested"
      BY <1>4, <2>1, Kinds DEF IpcInv, PlacesInv
    <3>3. \A u \in Servers : pc'[u] = "reply" => msg'[u] \in 1..sent'
      BY <1>2, <1>4, Kinds DEF IpcInv, PlacesInv
    <3>. QED  BY <2>5, <3>1, <3>2, <3>3 DEF PlacesInv, Absent
  <2>8. SlotWhileCalling'
    BY <1>1, <1>4, <2>1, <2>6, Kinds DEF IpcInv, SlotWhileCalling, Absent
  <2>9. SendersInv' /\ ReplyToOwnRequest'
    BY <1>2, <2>1 DEF IpcInv, SendersInv, ReplyToOwnRequest, Absent
  <2>10. EachMessageOnce'
    <3>1. Stashed' = Stashed
      BY <2>1, SameStash
    <3>. QED  BY <1>2, <2>1, <3>1 DEF IpcInv, EachMessageOnce, Elems
  <2>. QED  BY <2>7, <2>8, <2>9, <2>10 DEF IpcInv
<1>. QED
  BY <1>5, <1>6

-----------------------------------------------------------------------------
(* The theorems *)

LEMMA IpcStep ==
    ASSUME IpcInv, [Next]_vars
    PROVE  IpcInv'
<1>1. CASE UNCHANGED vars
  <2>1. UNCHANGED <<ipcVars, got>> /\ UNCHANGED <<cur, state, iflag, pc, ticks, wake, deadline, msg, hung>>
    BY <1>1 DEF vars, ipcVars
  <2>2. EachMessageOnce' /\ SendersInv' /\ ReplyToOwnRequest'
    BY <2>1, SameMessages
  <2>3. SlotWhileCalling' /\ PlacesInv'
    BY <2>1 DEF IpcInv, SlotWhileCalling, TypeOK, PlacesInv, Absent, ipcVars
  <2>. QED  BY <2>2, <2>3 DEF IpcInv
<1>2. CASE \E t \in Tasks : TimerTick(t)
  BY <1>2, TimerTickKeeps
<1>3. CASE \E p \in Programs : SysSend(p) \/ SysRecv(p)
  BY <1>3, SysSendKeeps, SysRecvKeeps
<1>4. CASE \E t \in Servers \cup Programs : RecvStep(t)
  BY <1>4, RecvFastKeeps, RecvRegisterKeeps, RecvNestedKeeps DEF RecvStep
<1>5. CASE \E s \in Servers : ReplyStep(s)
  BY <1>5, ReplyStoreKeeps, ReplyWakeKeeps DEF ReplyStep
<1>6. CASE \E c \in Callers : CallStep(c)
  BY <1>6, CallSendKeeps, CallWakeKeeps, CallCheckKeeps, CallDeadlineKeeps, CallBlockKeeps,
     RestKeeps DEF CallStep
<1>7. CASE Spin
  BY <1>1, <1>7 DEF Spin
<1>. QED
  BY <1>1, <1>2, <1>3, <1>4, <1>5, <1>6, <1>7 DEF Next

\* The inductive invariant of message passing (ipc.rs).
THEOREM IpcInvariant == Spec => []IpcInv
BY IpcInit, IpcStep, PTL DEF Spec

\* send(), call() and receive() deliver each message once and in order, for any
\* number of tasks and messages and however the tasks are preempted.
THEOREM MessagesOnce == Spec => []EachMessageOnce
<1>1. IpcInv => EachMessageOnce
  BY DEF IpcInv
<1>. QED  BY <1>1, IpcInvariant, PTL

\* A reply slot of call() exists exactly while the call is in progress.
THEOREM SlotsExact == Spec => []SlotWhileCalling
<1>1. IpcInv => SlotWhileCalling
  BY DEF IpcInv
<1>. QED  BY <1>1, IpcInvariant, PTL

\* call() returns a reply to a message of the caller itself.
THEOREM RepliesOwn == Spec => []ReplyToOwnRequest
<1>1. IpcInv => ReplyToOwnRequest
  BY DEF IpcInv
<1>. QED  BY <1>1, IpcInvariant, PTL

-----------------------------------------------------------------------------
(* Capability: tables *)

\* A non-empty set of natural numbers has its Min as a member.
LEMMA MinIsMember ==
    ASSUME NEW S \in SUBSET Nat, S # {}
    PROVE  Min(S) \in S
<1>1. \E m \in S : \A k \in S : ~ (<<k, m>> \in OpToRel(<, Nat))
  BY NatLessThanWellFounded, WFMin
<1>2. \A m, k \in S : ~ (<<k, m>> \in OpToRel(<, Nat)) => m <= k
  BY DEF OpToRel
<1>3. \E m \in S : \A k \in S : m <= k
  BY <1>1, <1>2
<1>. QED
  BY <1>3 DEF Min

\* insert() puts the capability in a slot that was free, the next one if none
\* was, and changes no other slot.
LEMMA InsertTakesFreeSlot ==
    ASSUME NEW table \in Seq(SlotValues), NEW cap \in SlotValues
    PROVE  \E f \in Nat \ {0} :
             /\ Insert(table, cap) \in Seq(SlotValues)
             /\ DOMAIN Insert(table, cap) = DOMAIN table \cup {f}
             /\ f \in DOMAIN table => table[f] = NoCap
             /\ Insert(table, cap)[f] = cap
             /\ \A k \in DOMAIN table : k # f => Insert(table, cap)[k] = table[k]
<1>. DEFINE free == {k \in DOMAIN table : table[k] = NoCap}
<1>0. Len(table) \in Nat /\ DOMAIN table = 1..Len(table)
  OBVIOUS
<1>1. CASE free = {}
  <2>1. Insert(table, cap) = Append(table, cap)
    BY <1>1 DEF Insert
  <2>2. /\ Append(table, cap) \in Seq(SlotValues) /\ Len(Append(table, cap)) = Len(table) + 1
        /\ Append(table, cap)[Len(table) + 1] = cap
        /\ \A k \in 1..Len(table) : Append(table, cap)[k] = table[k]
    OBVIOUS
  <2>3. DOMAIN Append(table, cap) = 1..(Len(table) + 1)
    BY <2>2
  <2>4. Len(table) + 1 \in Nat \ {0} /\ Len(table) + 1 \notin DOMAIN table
    BY <1>0
  <2>5. DOMAIN Append(table, cap) = DOMAIN table \cup {Len(table) + 1}
    BY <1>0, <2>3
  <2>. QED  BY <1>0, <2>1, <2>2, <2>4, <2>5
<1>2. CASE free # {}
  <2>1. Min(free) \in free
    <3>1. free \in SUBSET Nat
      BY <1>0
    <3>. QED  BY <1>2, <3>1, MinIsMember
  <2>2. Insert(table, cap) = [table EXCEPT ![Min(free)] = cap]
    BY <1>2 DEF Insert
  <2>. DEFINE f == Min(free)
  <2>3. f \in DOMAIN table /\ table[f] = NoCap /\ f \in Nat \ {0}
    BY <1>0, <2>1
  <2>. HIDE DEF f
  <2>4. Insert(table, cap) = [table EXCEPT ![f] = cap]
    BY <2>2 DEF f
  <2>5. [table EXCEPT ![f] = cap] \in Seq(SlotValues)
    BY <1>0, <2>3
  <2>. QED  BY <1>0, <2>3, <2>4, <2>5
<1>. QED  BY <1>1, <1>2

-----------------------------------------------------------------------------
(* Capability: the invariant, and the stability of slots *)

CapInv == CapTypeOK /\ RightsMonotonic

\* The capability a new one is covered by: what mint and grant add to a table.
Covered(t, cap, roots) ==
    \E root \in roots : /\ root.object = cap.object /\ cap.rights \subseteq root.rights
                        /\ root.task = t \/ "GRANT" \in root.rights

\* Adding a covered capability to one table keeps the invariant and the slots.
LEMMA InsertKeeps ==
    ASSUME CapInv, NEW to \in Holders, NEW cap \in Capabilities,
           slots' = [slots EXCEPT ![to] = Insert(@, cap)],
           minted \subseteq minted', minted' \subseteq RootGrants, Covered(to, cap, minted')
    PROVE  CapInv' /\ SlotStableStep
<1>0. slots \in [Holders -> Seq(SlotValues)] /\ slots[to] \in Seq(SlotValues) /\ cap \in SlotValues
  BY DEF CapInv, CapTypeOK, SlotValues
<1>1. slots'[to] = Insert(slots[to], cap) /\ \A t \in Holders : t # to => slots'[t] = slots[t]
  BY <1>0
<1>2. PICK f \in Nat \ {0} :
        /\ slots'[to] \in Seq(SlotValues)
        /\ DOMAIN slots'[to] = DOMAIN slots[to] \cup {f}
        /\ f \in DOMAIN slots[to] => slots[to][f] = NoCap
        /\ slots'[to][f] = cap
        /\ \A k \in DOMAIN slots[to] : k # f => slots'[to][k] = slots[to][k]
  <2>1. \E f \in Nat \ {0} :
          /\ Insert(slots[to], cap) \in Seq(SlotValues)
          /\ DOMAIN Insert(slots[to], cap) = DOMAIN slots[to] \cup {f}
          /\ f \in DOMAIN slots[to] => slots[to][f] = NoCap
          /\ Insert(slots[to], cap)[f] = cap
          /\ \A k \in DOMAIN slots[to] : k # f => Insert(slots[to], cap)[k] = slots[to][k]
    BY <1>0, InsertTakesFreeSlot
  <2>. QED  BY <1>1, <2>1
<1>3. slots' \in [Holders -> Seq(SlotValues)]
  BY <1>0, <1>2
<1>4. CapTypeOK'
  BY <1>3 DEF CapTypeOK
<1>5. ASSUME NEW t \in Holders, NEW k \in DOMAIN slots'[t], slots'[t][k] # NoCap
      PROVE  Covered(t, slots'[t][k], minted')
  <2>1. CASE t = to /\ k = f
    BY <1>2, <2>1
  <2>2. CASE ~ (t = to /\ k = f)
    <3>1. k \in DOMAIN slots[t] /\ slots'[t][k] = slots[t][k]
      BY <1>1, <1>2, <1>5, <2>2
    <3>2. Covered(t, slots[t][k], minted)
      BY <1>5, <3>1 DEF CapInv, RightsMonotonic, Covered
    <3>. QED  BY <3>1, <3>2 DEF Covered
  <2>. QED  BY <2>1, <2>2
<1>6. RightsMonotonic'
  BY <1>5 DEF RightsMonotonic, Covered
<1>7. SlotStableStep
  <2>1. ASSUME NEW t \in Holders, NEW k \in DOMAIN slots[t]
        PROVE  /\ k \in DOMAIN slots'[t]
               /\ slots[t][k] # NoCap => slots'[t][k] \in {slots[t][k], NoCap}
    <3>1. CASE t = to
      BY <1>2, <2>1, <3>1
    <3>2. CASE t # to
      BY <1>1, <2>1, <3>2
    <3>. QED  BY <3>1, <3>2
  <2>. QED  BY <2>1 DEF SlotStableStep
<1>. QED  BY <1>4, <1>6, <1>7 DEF CapInv

\* Every operation keeps the invariant and leaves the other slots alone.
LEMMA CapStepKeeps ==
    ASSUME CapInv, CapNext
    PROVE  CapInv' /\ SlotStableStep
<1>1. ASSUME NEW root \in RootGrants, Mint(root)
      PROVE  CapInv' /\ SlotStableStep
  <2>. DEFINE cap == [object |-> root.object, rights |-> root.rights]
  <2>1. root \in [task : Holders, object : Objects, rights : SUBSET AllRights]
    BY CapabilityAssumption
  <2>2. root.task \in Holders /\ cap \in Capabilities
    BY <2>1 DEF Capabilities
  <2>3. minted \subseteq minted' /\ minted' \subseteq RootGrants /\ root \in minted'
    BY <1>1 DEF Mint, CapInv, CapTypeOK
  <2>4. Covered(root.task, cap, minted')
    BY <2>3 DEF Covered
  <2>5. slots' = [slots EXCEPT ![root.task] = Insert(@, cap)]
    BY <1>1 DEF Mint
  <2>. HIDE DEF cap
  <2>. QED  BY <2>2, <2>3, <2>4, <2>5, InsertKeeps
<1>2. ASSUME NEW t \in Holders, NEW to \in Holders, NEW k \in 1..MaxSlots, NEW asked \in Requests,
             SysCapGrant(t, k, to, asked)
      PROVE  CapInv' /\ SlotStableStep
  <2>. DEFINE src == slots[t][k]
  <2>0. /\ Check(t, k, {"GRANT"})
        /\ slots' = [slots EXCEPT ![to] = Insert(@, Derive(src, asked))]
        /\ minted' = minted
    BY <1>2 DEF SysCapGrant
  <2>1. k \in DOMAIN slots[t] /\ src # NoCap /\ "GRANT" \in src.rights
    BY <2>0 DEF Check, Lookup
  <2>2. src \in Capabilities
    BY <2>1 DEF CapInv, CapTypeOK, SlotValues
  <2>3. PICK root \in minted : /\ root.object = src.object /\ src.rights \subseteq root.rights
    BY <2>1 DEF CapInv, RightsMonotonic
  <2>. HIDE DEF src
  <2>4. /\ Derive(src, asked) \in Capabilities
        /\ Derive(src, asked).object = src.object
        /\ Derive(src, asked).rights \subseteq src.rights
    BY <2>2 DEF Derive, Capabilities
  <2>5. Covered(to, Derive(src, asked), minted')
    BY <2>0, <2>1, <2>3, <2>4 DEF Covered
  <2>. QED  BY <2>0, <2>4, <2>5, InsertKeeps DEF CapInv, CapTypeOK
<1>3. ASSUME NEW t \in Holders, NEW k \in 1..MaxSlots, Revoke(t, k)
      PROVE  CapInv' /\ SlotStableStep
  <2>1. /\ slots \in [Holders -> Seq(SlotValues)] /\ k \in DOMAIN slots[t] /\ NoCap \in SlotValues
        /\ slots' = [slots EXCEPT ![t][k] = NoCap] /\ minted' = minted
    BY <1>3 DEF Revoke, Lookup, CapInv, CapTypeOK, SlotValues
  <2>2. slots[t] \in Seq(SlotValues) /\ slots'[t] = [slots[t] EXCEPT ![k] = NoCap]
        /\ \A u \in Holders : u # t => slots'[u] = slots[u]
    BY <2>1
  <2>3. /\ slots'[t] \in Seq(SlotValues) /\ DOMAIN slots'[t] = DOMAIN slots[t]
        /\ \A j \in DOMAIN slots[t] : slots'[t][j] = IF j = k THEN NoCap ELSE slots[t][j]
    BY <2>1, <2>2
  <2>4. slots' \in [Holders -> Seq(SlotValues)]
    BY <2>1, <2>2, <2>3
  <2>5. \A u \in Holders : /\ DOMAIN slots'[u] = DOMAIN slots[u]
                         /\ \A j \in DOMAIN slots[u] : slots'[u][j] \in {slots[u][j], NoCap}
    BY <2>2, <2>3
  <2>6. CapTypeOK'
    BY <2>1, <2>4 DEF CapTypeOK, CapInv
  <2>7. RightsMonotonic'
    BY <2>1, <2>5 DEF CapInv, RightsMonotonic
  <2>8. SlotStableStep
    BY <2>5 DEF SlotStableStep
  <2>. QED  BY <2>6, <2>7, <2>8 DEF CapInv
<1>. QED  BY <1>1, <1>2, <1>3 DEF CapNext

\* The invariant holds in every reachable state.
THEOREM CapInvariant == CapSpec => []CapInv
<1>1. CapInit => CapInv
  BY DEF CapInit, CapInv, CapTypeOK, RightsMonotonic
<1>2. CapInv /\ [CapNext]_capVars => CapInv'
  <2>1. CASE CapNext
    BY <2>1, CapStepKeeps
  <2>2. CASE UNCHANGED capVars
    BY <2>2 DEF capVars, CapInv, CapTypeOK, RightsMonotonic
  <2>. QED  BY <2>1, <2>2
<1>. QED  BY <1>1, <1>2, PTL DEF CapSpec

\* The capability tables are well formed whatever is minted, granted and revoked:
\* Insert (CapTable::insert) always yields a table.
THEOREM TablesTyped == CapSpec => []CapTypeOK
<1>1. CapInv => CapTypeOK
  BY DEF CapInv
<1>. QED  BY <1>1, CapInvariant, PTL

\* Authority is never amplified: every capability in any table is covered by a
\* root capability minted by the kernel, and only roots with GRANT travel.
THEOREM NoAmplification == CapSpec => []RightsMonotonic
<1>1. CapInv => RightsMonotonic
  BY DEF CapInv
<1>. QED  BY <1>1, CapInvariant, PTL

\* A slot number keeps its meaning until its holder revokes it: mint and grant
\* only ever fill a free slot or add one (CapTable::insert).
THEOREM SlotsStay == CapSpec => SlotStable
<1>1. CapInv /\ [CapNext]_capVars => [SlotStableStep]_capVars
  BY CapStepKeeps
<1>. QED  BY <1>1, CapInvariant, PTL DEF CapSpec, SlotStable
=============================================================================
