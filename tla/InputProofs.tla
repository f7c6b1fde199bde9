---------------------------- MODULE InputProofs -----------------------------
(***************************************************************************)
(* Proofs about Input, for any number of readers, any size of the ring      *)
(* buffer and any number of bytes: the handshake between the interrupts of  *)
(* the keyboard and the mouse and their driver tasks loses no interrupt,    *)
(* the console delivers the keys in order, and no stale waiter is left.     *)
(***************************************************************************)
EXTENDS Input, SequenceTheorems, TLAPS

\* The part of the type invariant the argument rests on.
IrqTypes ==
    /\ cur \in Tasks
    /\ state \in [Tasks -> {"Runnable", "Running", "Blocked"}]
    /\ pc \in [Tasks -> Places]
    /\ sent \in Nat /\ aux \subseteq 1..sent /\ taken \subseteq 1..sent /\ full \in BOOLEAN
    /\ full => sent > 0
    /\ irr \subseteq Drivers /\ pending \in [Drivers -> Nat]
    /\ waiter \in [Drivers -> Drivers \cup {"none"}] /\ \A d \in Drivers : waiter[d] \in {"none", d}

\* The current task, and no other, is Running.
CurRuns == \A t \in Tasks : state[t] = "Running" <=> t = cur

\* A key's byte is at one place of its way: raised, counted, or being read.  This is
\* what makes OneBytePerWake inductive: as long as only the keyboard driver takes the
\* keyboard's bytes, a key cannot raise IRQ1 again before port 0x60 was read.
OnePlace ==
    ~Stolen => /\ "kbd" \in irr => pending["kbd"] = 0 /\ pc["kbd"] # "inb"
               /\ pending["kbd"] > 0 => pc["kbd"] # "inb"

IrqInv == IrqTypes /\ CurRuns /\ NoLostIrq /\ OneBytePerWake /\ OnePlace

\* The places at which a driver is serving an interrupt.
Serving == {"inb", "status", "data"}

\* The names of the kernel tasks are not names of readers.
LEMMA TaskNames ==
    /\ "kbd" \in Tasks /\ "mouse" \in Tasks /\ "poll" \in Tasks /\ "idle" \in Tasks
    /\ Readers \subseteq Tasks /\ Drivers \subseteq Tasks
    /\ "poll" \notin Drivers /\ \A r \in Readers : r \notin Drivers
BY InputAssumption DEF Tasks, Drivers

\* In the initial state there is no byte and nobody sleeps.
LEMMA IrqInit == Init => IrqInv
<1> SUFFICES ASSUME Init PROVE IrqInv
  OBVIOUS
<1>1. IrqTypes
  <2>1. pc \in [Tasks -> Places]
    <3>1. \A t \in Tasks : (CASE t = "idle" -> "hlt" [] t \in Drivers -> "wait"
                             [] t = "poll" -> "rest" [] OTHER -> "user") \in Places
      BY DEF Places
    <3> QED
      BY <3>1 DEF Init
  <2> QED
    BY <2>1, TaskNames DEF Init, IrqTypes
<1>2. CurRuns
  BY TaskNames DEF Init, CurRuns
<1>3. NoLostIrq /\ OneBytePerWake /\ OnePlace
  BY TaskNames DEF Init, NoLostIrq, OneBytePerWake, OnePlace, Drivers
<1> QED
  BY <1>1, <1>2, <1>3 DEF IrqInv

\* A switch from the current task, left in state x, to a runnable one.
LEMMA SwitchRuns ==
    ASSUME IrqTypes, CurRuns, NEW t, NEW x \in {"Runnable", "Blocked"}, t \in Tasks,
           SwitchTo(t, [state EXCEPT ![cur] = x])
    PROVE  /\ cur' = t
           /\ state' \in [Tasks -> {"Runnable", "Running", "Blocked"}]
           /\ CurRuns'
           /\ \A u \in Tasks : u # cur /\ state[u] # "Blocked" => state'[u] # "Blocked"
           /\ \A u \in Tasks : u # cur /\ state'[u] = "Blocked" => state[u] = "Blocked"
           /\ x = "Runnable" => state'[cur] # "Blocked"
BY DEF SwitchTo, IrqTypes, CurRuns

\* A step that touches neither the controller nor the lines: the drivers stay where
\* they are, or move between places at which they serve no interrupt.
LEMMA IrqFrame ==
    ASSUME IrqInv, UNCHANGED <<sent, aux, full, taken, irr, pending, waiter>>,
           cur' \in Tasks, state' \in [Tasks -> {"Runnable", "Running", "Blocked"}], CurRuns',
           \A d \in Drivers : state'[d] = "Blocked" => state[d] = "Blocked",
           pc' \in [Tasks -> Places],
           \A d \in Drivers : \/ pc'[d] = pc[d]
                              \/ /\ state'[d] # "Blocked"
                                 /\ pc[d] \notin Serving /\ pc'[d] \notin Serving
    PROVE  IrqInv'
<1>0. IrqTypes /\ CurRuns /\ NoLostIrq /\ OneBytePerWake /\ OnePlace
  BY DEF IrqInv
<1>1. IrqTypes'
  BY <1>0 DEF IrqTypes
<1>2. Stolen' <=> Stolen
  BY DEF Stolen
<1>3. "kbd" \in Drivers /\ "mouse" \in Drivers
  BY DEF Drivers
<1>4. \A d \in Drivers : pc'[d] \in Serving <=> pc[d] \in Serving
  OBVIOUS
<1>5. pc'["kbd"] = "inb" <=> pc["kbd"] = "inb"
  BY <1>3 DEF Serving
<1>6. NoLostIrq'
  BY <1>0, <1>3, <1>4 DEF NoLostIrq, Serving
<1>7. OneBytePerWake' /\ OnePlace'
  BY <1>0, <1>2, <1>5 DEF OneBytePerWake, OnePlace
<1> QED
  BY <1>1, <1>6, <1>7 DEF IrqInv

\* Every step keeps IrqInv.
LEMMA IrqStep == IrqInv /\ [Next]_vars => IrqInv'
<1> SUFFICES ASSUME IrqInv, [Next]_vars PROVE IrqInv'
  OBVIOUS
<1> USE TaskNames
<1>0. IrqTypes /\ CurRuns /\ NoLostIrq /\ OneBytePerWake /\ OnePlace
  BY DEF IrqInv
<1>d. /\ "kbd" \in Drivers /\ "mouse" \in Drivers /\ "kbd" # "mouse"
      /\ \A d \in Drivers : d = "kbd" \/ d = "mouse"
  BY DEF Drivers
<1>c. cur \in Tasks /\ state[cur] = "Running" /\ state[cur] # "Blocked"
  BY <1>0 DEF IrqTypes, CurRuns
<1>t. \A t \in Tasks : pc[t] \in Places /\ state[t] \in {"Runnable", "Running", "Blocked"}
  BY <1>0 DEF IrqTypes
<1>s. ASSUME UNCHANGED <<cur, state, sent, aux, full, taken, irr, pending, waiter>>,
             NEW t \in Tasks, NEW l \in Places, cur = t, pc' = [pc EXCEPT ![t] = l],
             t \in Drivers => pc[t] \notin Serving /\ l \notin Serving
      PROVE  IrqInv'
  <2>1. pc' \in [Tasks -> Places] /\ pc'[t] = l /\ \A u \in Tasks : u # t => pc'[u] = pc[u]
    BY <1>0, <1>s DEF IrqTypes
  <2>2. /\ cur' \in Tasks /\ state' \in [Tasks -> {"Runnable", "Running", "Blocked"}] /\ CurRuns'
        /\ \A d \in Drivers : state'[d] = "Blocked" => state[d] = "Blocked"
    BY <1>0, <1>s DEF IrqTypes, CurRuns
  <2>3. state'[t] # "Blocked"
    BY <1>c, <1>s
  <2> QED
    BY <1>s, <2>1, <2>2, <2>3, IrqFrame
<1>1. ASSUME NEW t \in Tasks, TimerTick(t) PROVE IrqInv'
  <2>1. SwitchTo(t, [state EXCEPT ![cur] = "Runnable"])
    BY <1>1 DEF TimerTick
  <2>2. UNCHANGED <<pc, sent, aux, full, taken, irr, pending, waiter>>
    BY <1>1 DEF TimerTick, irqVars, portVars
  <2>3. cur' = t /\ state' \in [Tasks -> {"Runnable", "Running", "Blocked"}] /\ CurRuns'
        /\ \A u \in Tasks : state'[u] = "Blocked" => state[u] = "Blocked"
    BY <1>0, <2>1, SwitchRuns
  <2>4. pc' \in [Tasks -> Places]
    BY <1>0, <2>2 DEF IrqTypes
  <2> QED
    BY <2>2, <2>3, <2>4, IrqFrame
<1>2. ASSUME NEW d \in Drivers, ByteArrives(d) PROVE IrqInv'
  <2>1. /\ ~full /\ full' = TRUE /\ sent' = sent + 1 /\ irr' = irr \cup {d}
        /\ aux' = IF d = "mouse" THEN aux \cup {sent + 1} ELSE aux
        /\ UNCHANGED <<cur, state, pc, pending, waiter, taken>>
    BY <1>2 DEF ByteArrives
  <2>2. /\ sent \in Nat /\ aux \subseteq 1..sent /\ taken \subseteq 1..sent
        /\ sent + 1 \notin 1..sent /\ \A n \in 1..sent : n # sent + 1
    BY <1>0 DEF IrqTypes
  <2>3. Stolen' <=> Stolen
    BY <2>1, <2>2 DEF Stolen
  <2>4. sent' \in aux' <=> d = "mouse"
    BY <2>1, <2>2
  <2>5. IrqTypes'
    <3>1. sent' \in Nat /\ aux' \subseteq 1..sent' /\ taken' \subseteq 1..sent'
      BY <2>1, <2>2
    <3>2. full' \in BOOLEAN /\ irr' \subseteq Drivers
      BY <1>0, <2>1, Zenon DEF IrqTypes
    <3> QED
      BY <1>0, <2>1, <3>1, <3>2 DEF IrqTypes
  <2>6. CurRuns'
    BY <1>0, <2>1 DEF CurRuns
  <2>7. NoLostIrq'
    BY <1>0, <1>d, <2>1, <2>4 DEF NoLostIrq
  <2>8. ~Stolen => ~("kbd" \in irr) /\ ~(pending["kbd"] > 0) /\ pc["kbd"] # "inb"
    BY <1>0, <2>1 DEF OneBytePerWake
  <2>9. pending["kbd"] \in Nat
    BY <1>0, <1>d DEF IrqTypes
  <2>10. OneBytePerWake' /\ OnePlace'
    BY <1>d, <2>1, <2>3, <2>4, <2>8, <2>9 DEF OneBytePerWake, OnePlace
  <2> QED
    BY <2>5, <2>6, <2>7, <2>10 DEF IrqInv
<1>3. ASSUME NEW d \in Drivers, NotifyFromIsr(d) PROVE IrqInv'
  <2>1. /\ d \in irr /\ irr' = irr \ {d} /\ pending' = [pending EXCEPT ![d] = pending[d] + 1]
        /\ UNCHANGED <<cur, pc, sent, aux, full, taken, waiter>>
    BY <1>3 DEF NotifyFromIsr, portVars
  <2>2. /\ state' \in [Tasks -> {"Runnable", "Running", "Blocked"}]
        /\ \A t \in Tasks : state'[t] = "Running" <=> state[t] = "Running"
        /\ \A t \in Tasks : state'[t] = "Blocked" => state[t] = "Blocked"
        /\ waiter[d] = d => state'[d] # "Blocked"
    <3>1. CASE waiter[d] = "none"
      <4>1. "none" # d
        BY <1>d
      <4> QED
        BY <1>0, <1>3, <3>1, <4>1 DEF NotifyFromIsr, IrqTypes
    <3>2. CASE waiter[d] = d
      <4>1. d \in Tasks /\ d # "none"
        BY <1>d
      <4>2. state' = [state EXCEPT ![d] = IF state[d] = "Blocked" THEN "Runnable" ELSE state[d]]
        BY <1>3, <3>2, <4>1 DEF NotifyFromIsr, Unblock
      <4> QED
        BY <1>0, <4>1, <4>2 DEF IrqTypes
    <3> QED
      BY <1>0, <3>1, <3>2 DEF IrqTypes
  <2>3. state'[d] # "Blocked"
    BY <1>0, <2>2 DEF NoLostIrq
  <2>4. /\ pending' \in [Drivers -> Nat] /\ pending'[d] = pending[d] + 1 /\ pending'[d] > 0
        /\ pending[d] \in Nat /\ \A e \in Drivers : e # d => pending'[e] = pending[e]
    BY <1>0, <2>1 DEF IrqTypes
  <2>5. IrqTypes' /\ CurRuns'
    <3>1. CurRuns'
      BY <1>0, <2>1, <2>2 DEF CurRuns
    <3> QED
      BY <1>0, <2>1, <2>2, <2>4, <3>1 DEF IrqTypes
  <2>6. NoLostIrq'
    <3>1. \A e \in Drivers : e # d => (e \in irr' <=> e \in irr)
      BY <2>1
    <3>2. ASSUME full', NEW e \in Drivers, e = IF sent' \in aux' THEN "mouse" ELSE "kbd"
          PROVE  e \in irr' \/ pending'[e] > 0 \/ pc'[e] \in {"inb", "status", "data"}
      <4>1. e \in irr \/ pending[e] > 0 \/ pc[e] \in {"inb", "status", "data"}
        BY <1>0, <2>1, <3>2 DEF NoLostIrq
      <4> QED
        BY <2>1, <2>4, <3>1, <4>1
    <3>3. ASSUME NEW e \in Drivers, state'[e] = "Blocked"
          PROVE  pc'[e] = "woken" /\ waiter'[e] = e /\ pending'[e] = 0
      <4>1. e # d /\ state[e] = "Blocked"
        BY <2>2, <2>3, <3>3
      <4> QED
        BY <1>0, <2>1, <2>4, <4>1 DEF NoLostIrq
    <3> QED
      BY <1>d, <3>2, <3>3 DEF NoLostIrq
  <2>7. Stolen' <=> Stolen
    BY <2>1 DEF Stolen
  <2>8. CASE d = "kbd"
    <3>1. ~Stolen => pending["kbd"] = 0 /\ pending'["kbd"] = 1 /\ pc["kbd"] # "inb"
                     /\ full /\ sent \notin aux
      BY <1>0, <2>1, <2>4, <2>8 DEF OnePlace, OneBytePerWake
    <3>2. OneBytePerWake' /\ OnePlace'
      BY <2>1, <2>7, <2>8, <3>1 DEF OneBytePerWake, OnePlace
    <3> QED
      BY <2>5, <2>6, <3>2 DEF IrqInv
  <2>9. CASE d # "kbd"
    <3>1. pending'["kbd"] = pending["kbd"] /\ ("kbd" \in irr' <=> "kbd" \in irr)
      BY <1>d, <2>1, <2>4, <2>9
    <3>2. OneBytePerWake' /\ OnePlace'
      BY <1>0, <2>1, <2>7, <3>1 DEF OneBytePerWake, OnePlace
    <3> QED
      BY <2>5, <2>6, <3>2 DEF IrqInv
  <2> QED
    BY <2>8, <2>9
<1>4. ASSUME Acquire PROVE IrqInv'
  <2>1. UNCHANGED <<cur, state, sent, aux, full, taken, irr, pending, waiter>>
    BY <1>4 DEF Acquire, irqVars, portVars
  <2>2. pc[cur] \in LockPoints /\ pc' = [pc EXCEPT ![cur] = Inside(pc[cur])]
    BY <1>4 DEF Acquire
  <2>3. Inside(pc[cur]) \in {"push", "scan", "drain", "poll"}
    BY <2>2 DEF Inside, LockPoints
  <2>4. Inside(pc[cur]) \in Places /\ Inside(pc[cur]) \notin Serving /\ pc[cur] \notin Serving
    BY <2>2, <2>3 DEF LockPoints, Serving, Places
  <2> QED
    BY <1>c, <1>s, <2>1, <2>2, <2>4
<1>5. ASSUME NEW d \in Drivers, IrqWait(d) PROVE IrqInv'
  <2>1. /\ cur = d /\ pc[d] = "wait" /\ UNCHANGED <<sent, aux, full, taken, irr>>
    BY <1>5 DEF IrqWait, At, portVars
  <2>2. Serve(d) \in {"inb", "status"} /\ (Serve(d) = "inb" <=> d = "kbd")
    BY DEF Serve
  <2>3. Stolen' <=> Stolen
    BY <2>1 DEF Stolen
  <2>4. CASE /\ pending[d] > 0 /\ pending' = [pending EXCEPT ![d] = 0] /\ Goto(d, Serve(d))
             /\ UNCHANGED <<cur, state, waiter>>
    <3>1. pc' \in [Tasks -> Places] /\ pc'[d] = Serve(d) /\ \A u \in Tasks : u # d => pc'[u] = pc[u]
      BY <1>0, <2>2, <2>4 DEF Goto, IrqTypes, Places
    <3>2. pending' \in [Drivers -> Nat] /\ pending'[d] = 0
          /\ \A e \in Drivers : e # d => pending'[e] = pending[e]
      BY <1>0, <2>4 DEF IrqTypes
    <3>3. IrqTypes' /\ CurRuns'
      BY <1>0, <2>1, <2>4, <3>1, <3>2 DEF IrqTypes, CurRuns
    <3>4. NoLostIrq'
      BY <1>0, <1>c, <1>d, <2>1, <2>2, <2>4, <3>1, <3>2 DEF NoLostIrq
    <3>5. OneBytePerWake' /\ OnePlace'
      BY <1>0, <1>d, <2>1, <2>2, <2>3, <2>4, <3>1, <3>2 DEF OneBytePerWake, OnePlace
    <3> QED
      BY <3>3, <3>4, <3>5 DEF IrqInv
  <2>5. CASE /\ pending[d] = 0 /\ waiter' = [waiter EXCEPT ![d] = d] /\ Goto(d, "woken")
             /\ Block /\ UNCHANGED pending
    <3>1. pc' \in [Tasks -> Places] /\ pc'[d] = "woken" /\ \A u \in Tasks : u # d => pc'[u] = pc[u]
      BY <1>0, <2>5 DEF Goto, IrqTypes, Places
    <3>2. PICK t \in Tasks : SwitchTo(t, [state EXCEPT ![cur] = "Blocked"])
      BY <2>5 DEF Block
    <3>3. /\ cur' = t /\ state' \in [Tasks -> {"Runnable", "Running", "Blocked"}] /\ CurRuns'
          /\ \A u \in Tasks : u # cur /\ state'[u] = "Blocked" => state[u] = "Blocked"
      BY <1>0, <3>2, SwitchRuns
    <3>4. /\ waiter' \in [Drivers -> Drivers \cup {"none"}] /\ waiter'[d] = d
          /\ \A e \in Drivers : e # d => waiter'[e] = waiter[e]
          /\ \A e \in Drivers : waiter'[e] \in {"none", e}
      BY <1>0, <2>5 DEF IrqTypes
    <3>5. IrqTypes'
      BY <1>0, <2>1, <2>5, <3>1, <3>3, <3>4 DEF IrqTypes
    <3>6. NoLostIrq'
      <4>1. ASSUME NEW e \in Drivers, state'[e] = "Blocked"
            PROVE  pc'[e] = "woken" /\ waiter'[e] = e /\ pending'[e] = 0
        BY <1>0, <2>1, <2>5, <3>1, <3>3, <3>4, <4>1 DEF NoLostIrq
      <4>2. ASSUME full', NEW e \in Drivers, e = IF sent' \in aux' THEN "mouse" ELSE "kbd"
            PROVE  e \in irr' \/ pending'[e] > 0 \/ pc'[e] \in {"inb", "status", "data"}
        <5>1. e \in irr \/ pending[e] > 0 \/ pc[e] \in {"inb", "status", "data"}
          BY <1>0, <2>1, <4>2 DEF NoLostIrq
        <5> QED
          BY <2>1, <2>5, <3>1, <5>1
      <4> QED
        BY <1>d, <4>1, <4>2 DEF NoLostIrq
    <3>7. pc'["kbd"] = "inb" <=> pc["kbd"] = "inb"
      BY <1>d, <2>1, <3>1
    <3>8. OneBytePerWake' /\ OnePlace'
      BY <1>0, <2>1, <2>3, <2>5, <3>7 DEF OneBytePerWake, OnePlace
    <3> QED
      BY <3>3, <3>5, <3>6, <3>8 DEF IrqInv
  <2> QED
    BY <1>5, <2>4, <2>5 DEF IrqWait
<1>6. ASSUME NEW d \in Drivers, IrqWoken(d) PROVE IrqInv'
  <2>1. /\ cur = d /\ pc[d] = "woken" /\ pc' = [pc EXCEPT ![d] = "wait"]
        /\ waiter' = [waiter EXCEPT ![d] = "none"]
        /\ UNCHANGED <<cur, state, sent, aux, full, taken, irr, pending>>
    BY <1>6 DEF IrqWoken, At, Goto, portVars
  <2>2. pc' \in [Tasks -> Places] /\ pc'[d] = "wait" /\ \A u \in Tasks : u # d => pc'[u] = pc[u]
    BY <1>0, <2>1 DEF IrqTypes, Places
  <2>3. /\ waiter' \in [Drivers -> Drivers \cup {"none"}]
        /\ \A e \in Drivers : e # d => waiter'[e] = waiter[e]
        /\ \A e \in Drivers : waiter'[e] \in {"none", e}
    BY <1>0, <2>1 DEF IrqTypes
  <2>4. IrqTypes' /\ CurRuns'
    BY <1>0, <2>1, <2>2, <2>3 DEF IrqTypes, CurRuns
  <2>5. \A e \in Drivers : pc'[e] \in {"inb", "status", "data"} <=> pc[e] \in {"inb", "status", "data"}
    BY <2>1, <2>2
  <2>6. NoLostIrq'
    BY <1>0, <1>c, <1>d, <2>1, <2>2, <2>3, <2>5 DEF NoLostIrq
  <2>7. Stolen' <=> Stolen
    BY <2>1 DEF Stolen
  <2>8. pc'["kbd"] = "inb" <=> pc["kbd"] = "inb"
    BY <1>d, <2>1, <2>2
  <2>9. OneBytePerWake' /\ OnePlace'
    BY <1>0, <2>1, <2>7, <2>8 DEF OneBytePerWake, OnePlace
  <2> QED
    BY <2>4, <2>6, <2>9 DEF IrqInv
<1>7. ASSUME KbdStep PROVE IrqInv'
  <2>1. ASSUME Inb PROVE IrqInv'
    <3>1. /\ cur = "kbd" /\ pc["kbd"] = "inb" /\ pc' = [pc EXCEPT !["kbd"] = "lock"] /\ full' = FALSE
          /\ UNCHANGED <<cur, state, sent, aux, taken, irr, pending, waiter>>
      BY <2>1 DEF Inb, Kbd, KbdGoto, At, Goto, irqVars
    <3>2. pc' \in [Tasks -> Places] /\ pc'["kbd"] = "lock"
          /\ \A u \in Tasks : u # "kbd" => pc'[u] = pc[u]
      BY <1>0, <3>1 DEF IrqTypes, Places
    <3>3. IrqTypes' /\ CurRuns'
      <4>1. full' \in BOOLEAN
        BY <3>1, Zenon
      <4> QED
        BY <1>0, <3>1, <3>2, <4>1 DEF IrqTypes, CurRuns
    <3>4. NoLostIrq'
      BY <1>0, <1>c, <3>1, <3>2 DEF NoLostIrq
    <3>5. Stolen' <=> Stolen
      BY <3>1 DEF Stolen
    <3>6. pending["kbd"] \in Nat
      BY <1>0, <1>d DEF IrqTypes
    <3>7. OneBytePerWake' /\ OnePlace'
      BY <1>0, <3>1, <3>2, <3>5, <3>6 DEF OneBytePerWake, OnePlace
    <3> QED
      BY <3>3, <3>4, <3>7 DEF IrqInv
  <2>2. ASSUME FeedScancode PROVE IrqInv'
    <3>1. cur = "kbd" /\ pc["kbd"] = "push" /\ (KbdGoto("wake") \/ KbdGoto("wait"))
          /\ UNCHANGED <<cur, state, sent, aux, full, taken, irr, pending, waiter>>
      BY <2>2 DEF FeedScancode, Kbd, At, irqVars
    <3>2. \E l \in {"wake", "wait"} : pc' = [pc EXCEPT !["kbd"] = l]
      BY <3>1 DEF KbdGoto, Goto
    <3>3. \A l \in {"wake", "wait"} : l \in Places /\ l \notin Serving /\ "push" \notin Serving
      BY DEF Places, Serving
    <3> QED
      BY <1>s, <3>1, <3>2, <3>3
  <2>3. ASSUME NEW r \in Readers, WakeWaiter(r) PROVE IrqInv'
    <3>1. UNCHANGED <<cur, pc, sent, aux, full, taken, irr, pending, waiter>>
      BY <2>3 DEF WakeWaiter, irqVars, portVars
    <3>2. /\ state' \in [Tasks -> {"Runnable", "Running", "Blocked"}]
          /\ \A t \in Tasks : state'[t] = "Running" <=> state[t] = "Running"
          /\ \A t \in Tasks : state'[t] = "Blocked" => state[t] = "Blocked"
      BY <1>0, <2>3 DEF WakeWaiter, Unblock, IrqTypes
    <3>3. CurRuns' /\ cur' \in Tasks /\ pc' \in [Tasks -> Places]
      BY <1>0, <3>1, <3>2 DEF CurRuns, IrqTypes
    <3> QED
      BY <3>1, <3>2, <3>3, IrqFrame
  <2>4. ASSUME WakeDone PROVE IrqInv'
    <3>1. cur = "kbd" /\ pc["kbd"] = "wake" /\ pc' = [pc EXCEPT !["kbd"] = "wait"]
          /\ UNCHANGED <<cur, state, sent, aux, full, taken, irr, pending, waiter>>
      BY <2>4 DEF WakeDone, Kbd, KbdGoto, At, Goto, irqVars, portVars
    <3>2. "wait" \in Places /\ "wait" \notin Serving /\ "wake" \notin Serving
      BY DEF Places, Serving
    <3> QED
      BY <1>s, <3>1, <3>2
  <2> QED
    BY <1>7, <2>1, <2>2, <2>3, <2>4 DEF KbdStep
<1>8. ASSUME MouseStep PROVE IrqInv'
  <2>0. ASSUME NEW l \in {"status", "data", "wait"}, pc' = [pc EXCEPT !["mouse"] = l]
        PROVE  pc' \in [Tasks -> Places] /\ pc'["mouse"] = l
               /\ \A u \in Tasks : u # "mouse" => pc'[u] = pc[u]
    BY <1>0, <2>0 DEF IrqTypes, Places
  <2>1. ASSUME MouseStatus PROVE IrqInv'
    <3>1. /\ cur = "mouse" /\ pc["mouse"] = "status"
          /\ pc' = [pc EXCEPT !["mouse"] = IF full THEN "data" ELSE "wait"]
          /\ UNCHANGED <<cur, state, sent, aux, full, taken, irr, pending, waiter>>
      BY <2>1 DEF MouseStatus, At, Goto, irqVars, portVars
    <3>2. PICK l \in {"data", "wait"} : l = IF full THEN "data" ELSE "wait"
      OBVIOUS
    <3>3. /\ pc' \in [Tasks -> Places] /\ pc'["mouse"] = l
          /\ \A u \in Tasks : u # "mouse" => pc'[u] = pc[u]
      BY <2>0, <3>1, <3>2
    <3>4. IrqTypes' /\ CurRuns'
      BY <1>0, <3>1, <3>3 DEF IrqTypes, CurRuns
    <3>5. full => pc'["mouse"] \in {"inb", "status", "data"}
      BY <3>2, <3>3
    <3>6. NoLostIrq'
      BY <1>0, <1>c, <1>d, <3>1, <3>3, <3>5 DEF NoLostIrq
    <3>7. Stolen' <=> Stolen
      BY <3>1 DEF Stolen
    <3>8. OneBytePerWake' /\ OnePlace'
      BY <1>0, <1>d, <3>1, <3>3, <3>7 DEF OneBytePerWake, OnePlace
    <3> QED
      BY <3>4, <3>6, <3>8 DEF IrqInv
  <2>2. ASSUME MouseData PROVE IrqInv'
    <3>1. /\ cur = "mouse" /\ pc["mouse"] = "data" /\ pc' = [pc EXCEPT !["mouse"] = "status"]
          /\ taken' = IF full THEN taken \cup {sent} ELSE taken
          /\ full' = FALSE /\ UNCHANGED <<cur, state, sent, aux, irr, pending, waiter>>
      BY <2>2 DEF MouseData, At, Goto, irqVars
    <3>2. /\ pc' \in [Tasks -> Places] /\ pc'["mouse"] = "status"
          /\ \A u \in Tasks : u # "mouse" => pc'[u] = pc[u]
      BY <2>0, <3>1
    <3>t. full => sent \in 1..sent
      BY <1>0 DEF IrqTypes
    <3>3. IrqTypes' /\ CurRuns'
      <4>1. full' \in BOOLEAN
        BY <3>1, Zenon
      <4>2. taken' \subseteq 1..sent'
        BY <1>0, <3>1, <3>t DEF IrqTypes
      <4> QED
        BY <1>0, <3>1, <3>2, <4>1, <4>2 DEF IrqTypes, CurRuns
    <3>4. NoLostIrq'
      BY <1>0, <1>c, <3>1, <3>2 DEF NoLostIrq
    <3>5. ~Stolen' => ~Stolen /\ (full => sent \in aux)
      BY <3>1 DEF Stolen
    <3>6. pending["kbd"] \in Nat /\ pc'["kbd"] = pc["kbd"]
      BY <1>0, <1>d, <3>2 DEF IrqTypes
    <3>7. ~Stolen' => ~("kbd" \in irr) /\ ~(pending["kbd"] > 0) /\ pc["kbd"] # "inb"
      BY <1>0, <3>5 DEF OneBytePerWake
    <3>8. OneBytePerWake' /\ OnePlace'
      BY <3>1, <3>6, <3>7 DEF OneBytePerWake, OnePlace
    <3> QED
      BY <3>3, <3>4, <3>8 DEF IrqInv
  <2> QED
    BY <1>8, <2>1, <2>2 DEF MouseStep
<1>9. ASSUME NEW r \in Readers, ReaderStep(r) PROVE IrqInv'
  <2>0. \A l \in {"rlock", "dlock", "user", "block"} : l \in Places
    BY DEF Places
  <2>1. ASSUME ReadBlock(r) PROVE IrqInv'
    <3>1. cur = r /\ pc' = [pc EXCEPT ![r] = "rlock"]
          /\ UNCHANGED <<sent, aux, full, taken, irr, pending, waiter>>
      BY <2>1 DEF ReadBlock, irqVars, portVars
    <3>2. PICK t \in Tasks : SwitchTo(t, [state EXCEPT ![cur] = "Blocked"])
      BY <2>1 DEF ReadBlock, Block
    <3>3. cur' = t /\ state' \in [Tasks -> {"Runnable", "Running", "Blocked"}] /\ CurRuns'
          /\ \A d \in Drivers : state'[d] = "Blocked" => state[d] = "Blocked"
      BY <1>0, <3>1, <3>2, SwitchRuns
    <3>4. pc' \in [Tasks -> Places] /\ \A d \in Drivers : pc'[d] = pc[d]
      BY <1>0, <2>0, <3>1 DEF IrqTypes
    <3> QED
      BY <3>1, <3>3, <3>4, IrqFrame
  <2>2. ASSUME SysRead(r) \/ ReadScan(r) \/ ReadDrain(r) PROVE IrqInv'
    <3>1. \E l \in {"rlock", "dlock", "user", "block"} : pc' = [pc EXCEPT ![r] = l]
      BY <2>2 DEF SysRead, ReadScan, ReadDrain, ReadGoesOn
    <3>2. cur = r /\ UNCHANGED <<cur, state, sent, aux, full, taken, irr, pending, waiter>>
      BY <2>2 DEF SysRead, ReadScan, ReadDrain, irqVars, portVars
    <3> QED
      BY <1>s, <2>0, <3>1, <3>2
  <2> QED
    BY <1>9, <2>1, <2>2 DEF ReaderStep
<1>10. ASSUME PollStart \/ Poll PROVE IrqInv'
  <2>1. \E l \in {"plock", "rest"} : pc' = [pc EXCEPT !["poll"] = l]
    BY <1>10 DEF PollStart, Poll
  <2>2. cur = "poll" /\ UNCHANGED <<cur, state, sent, aux, full, taken, irr, pending, waiter>>
    BY <1>10 DEF PollStart, Poll, irqVars, portVars
  <2>3. \A l \in {"plock", "rest"} : l \in Places
    BY DEF Places
  <2> QED
    BY <1>s, <2>1, <2>2, <2>3
<1>11. ASSUME UNCHANGED vars PROVE IrqInv'
  <2>1. UNCHANGED <<cur, state, pc, sent, aux, full, taken, irr, pending, waiter>>
    BY <1>11 DEF vars
  <2>2. /\ cur' \in Tasks /\ state' \in [Tasks -> {"Runnable", "Running", "Blocked"}] /\ CurRuns'
        /\ pc' \in [Tasks -> Places]
    BY <1>0, <2>1 DEF IrqTypes, CurRuns
  <2> QED
    BY <2>1, <2>2, IrqFrame
<1>12. CASE KeyPress \/ MouseMove
  BY <1>2, <1>12, <1>d DEF KeyPress, MouseMove
<1>13. CASE KeyboardInterrupt \/ MouseInterrupt
  BY <1>3, <1>13, <1>d DEF KeyboardInterrupt, MouseInterrupt
<1>14. CASE \E d \in Drivers : BridgeStep(d)
  BY <1>5, <1>6, <1>14 DEF BridgeStep
<1> QED
  BY <1>1, <1>4, <1>7, <1>8, <1>9, <1>10, <1>11, <1>12, <1>13, <1>14 DEF Next, Spin

\* The handshake of irq::wait and notify_from_isr, with the driver's loop, is
\* invariant for every Readers, CAP and MaxBytes.
THEOREM Handshake == Spec => []IrqInv
BY IrqInit, IrqStep, PTL DEF Spec

\* No interrupt of the keyboard or the mouse is lost: a byte in the controller is
\* raised, counted or being read, and no driver ever sleeps on a counted interrupt.
THEOREM NoInterruptLost == Spec => []NoLostIrq
<1>1. IrqInv => NoLostIrq
  BY DEF IrqInv
<1> QED
  BY <1>1, Handshake, PTL

\* Until the mouse driver has taken a byte of the keyboard, reading one byte per
\* wake-up is enough: interrupts do not pile up, and the keyboard driver reads neither
\* an empty controller nor a byte of the mouse.
THEOREM OneByteEnough == Spec => []OneBytePerWake
<1>1. IrqInv => OneBytePerWake
  BY DEF IrqInv
<1> QED
  BY <1>1, Handshake, PTL

-----------------------------------------------------------------------------
(* The console *)

\* Whoever is inside a section of INPUT holds it.
LockHeld ==
    \A t \in Tasks : pc[t] \in {"push", "wake", "scan", "drain", "poll"} => lock = t

\* What push_char accepted is what was taken out followed by what is buffered.
RingHolds == accepted = out \o Buffered

\* The characters came in the order of the bytes, none after a later one.
Sorted == \A j, k \in DOMAIN accepted : j < k => accepted[j] <= accepted[k]

\* Each key came once, and no byte of the mouse came as a key.
Distinct ==
    /\ \A k \in DOMAIN accepted : accepted[k] \notin aux
    /\ \A j, k \in DOMAIN accepted : j < k => accepted[j] < accepted[k]

\* A byte moves from the controller to the driver to the buffer before the next one
\* can overtake it.
KeysInOrder ==
    /\ Sorted
    /\ \A k \in DOMAIN accepted : accepted[k] <= sent
    /\ pc["kbd"] \in {"lock", "push"} =>
         code <= sent /\ \A k \in DOMAIN accepted : accepted[k] <= code

\* Until a byte of the keyboard is stolen, the byte in the controller and the one the
\* driver holds are new.
KeysNew ==
    ~Stolen =>
      /\ Distinct
      /\ full => \A k \in DOMAIN accepted : accepted[k] < sent
      /\ pc["kbd"] \in {"lock", "push"} =>
           /\ code \notin aux /\ (full => code < sent)
           /\ \A k \in DOMAIN accepted : accepted[k] < code

\* With IrqInv, the inductive invariant of the console.
ConsoleInv == TypeOK /\ LockHeld /\ NoStaleWaiter /\ RingHolds /\ KeysInOrder /\ KeysNew

LEMMA FifoParts == RingHolds /\ KeysInOrder /\ KeysNew => Fifo
BY DEF Fifo, RingHolds, KeysInOrder, KeysNew, Sorted, Distinct

\* The index arithmetic of the ring, without the remainders.
LEMMA Remainder ==
    ASSUME NEW n \in Nat \ {0}, NEW x \in Nat, x < n + n
    PROVE  x % n = IF x < n THEN x ELSE x - n
OBVIOUS

LEMMA RingIndex ==
    ASSUME NEW h \in 0..(CAP - 1), NEW t \in 0..(CAP - 1)
    PROVE  /\ (h + CAP - t) % CAP = IF h >= t THEN h - t ELSE h + CAP - t
           /\ (h + 1) % CAP = IF h + 1 < CAP THEN h + 1 ELSE 0
           /\ \A k \in 1..CAP : (t + k - 1) % CAP = IF t + k - 1 < CAP THEN t + k - 1
                                                    ELSE t + k - 1 - CAP
<1>0. CAP \in Nat \ {0} /\ CAP >= 2
  BY InputAssumption
<1>r. \A x \in Nat : x < CAP + CAP => x % CAP = IF x < CAP THEN x ELSE x - CAP
  BY <1>0, Remainder
<1>1. (h + CAP - t) % CAP = IF h >= t THEN h - t ELSE h + CAP - t
  <2>1. h + CAP - t \in Nat /\ h + CAP - t < CAP + CAP
    BY <1>0
  <2>2. (h + CAP - t) % CAP = IF h + CAP - t < CAP THEN h + CAP - t ELSE (h + CAP - t) - CAP
    BY <1>r, <2>1
  <2>. QED  BY <1>0, <2>2
<1>2. (h + 1) % CAP = IF h + 1 < CAP THEN h + 1 ELSE 0
  <2>1. h + 1 \in Nat /\ h + 1 < CAP + CAP /\ (~(h + 1 < CAP) => (h + 1) - CAP = 0)
    BY <1>0
  <2>. QED  BY <1>r, <2>1
<1>3. ASSUME NEW k \in 1..CAP
      PROVE  (t + k - 1) % CAP = IF t + k - 1 < CAP THEN t + k - 1 ELSE t + k - 1 - CAP
  <2>1. PICK x \in Nat : x = t + k - 1 /\ x < CAP + CAP
    <3>1. t + k - 1 \in Nat /\ t + k - 1 < CAP + CAP
      BY <1>0
    <3>. QED  BY <3>1
  <2>2. x % CAP = IF x < CAP THEN x ELSE x - CAP
    BY <1>r, <2>1
  <2>3. t + k - 1 = x
    BY <2>1
  <2>4. (t + k - 1) % CAP = x % CAP
    BY <2>3, Zenon
  <2>5. (t + k - 1 < CAP <=> x < CAP) /\ t + k - 1 - CAP = x - CAP
    BY <2>3, <1>0
  <2>6. CASE x < CAP
    BY <2>2, <2>3, <2>4, <2>5, <2>6
  <2>7. CASE ~(x < CAP)
    BY <2>2, <2>3, <2>4, <2>5, <2>7
  <2>. QED  BY <2>6, <2>7
<1>. QED
  BY <1>1, <1>2, <1>3

LEMMA FunctionIsSeq ==
    ASSUME NEW S, NEW n \in Nat, NEW q \in [1..n -> S]
    PROVE  q \in Seq(S) /\ Len(q) = n
OBVIOUS

\* What is in a ring B with head h and tail t, oldest first.
RingSeq(B, h, t) == [k \in 1..((h + CAP - t) % CAP) |-> B[(t + k - 1) % CAP]]

RingShape(q, B, h, t) ==
    /\ q \in Seq(0..MaxBytes)
    /\ Len(q) = IF h >= t THEN h - t ELSE h + CAP - t
    /\ Len(q) \in Nat /\ Len(q) < CAP
    /\ \A k \in 1..Len(q) :
          q[k] = B[IF t + k - 1 < CAP THEN t + k - 1 ELSE t + k - 1 - CAP]

\* What is buffered, as a sequence.
LEMMA BufferedIs ==
    ASSUME NEW B \in [0..(CAP - 1) -> 0..MaxBytes], NEW h \in 0..(CAP - 1), NEW t \in 0..(CAP - 1),
           NEW q, q = RingSeq(B, h, t)
    PROVE  RingShape(q, B, h, t)
<1>. DEFINE n == (h + CAP - t) % CAP
            at(k) == IF t + k - 1 < CAP THEN t + k - 1 ELSE t + k - 1 - CAP
<1>0. CAP \in Nat /\ CAP >= 2
  BY InputAssumption
<1>1. n = IF h >= t THEN h - t ELSE h + CAP - t
  BY RingIndex
<1>2. n \in 0..(CAP - 1)
  BY <1>0, <1>1
<1>. HIDE DEF n
<1>3. \A k \in 1..n : (t + k - 1) % CAP = at(k) /\ at(k) \in 0..(CAP - 1)
  <2>. SUFFICES ASSUME NEW k \in 1..n
                PROVE  (t + k - 1) % CAP = at(k) /\ at(k) \in 0..(CAP - 1)
    OBVIOUS
  <2>1. k \in 1..CAP /\ at(k) \in 0..(CAP - 1)
    BY <1>0, <1>2
  <2>2. (t + k - 1) % CAP = at(k)
    BY <2>1, RingIndex
  <2>. QED  BY <2>1, <2>2
<1>. HIDE DEF at
<1>4. q = [k \in 1..n |-> B[at(k)]]
  BY <1>3 DEF n, RingSeq
<1>5. \A k \in 1..n : B[at(k)] \in 0..MaxBytes
  BY <1>3
<1>6. q \in [1..n -> 0..MaxBytes] /\ n \in Nat /\ \A k \in 1..n : q[k] = B[at(k)]
  BY <1>0, <1>2, <1>4, <1>5
<1>7. q \in Seq(0..MaxBytes) /\ Len(q) = n
  BY <1>6, FunctionIsSeq
<1>8. Len(q) \in Nat /\ Len(q) < CAP
  BY <1>0, <1>2, <1>7
<1>. QED
  BY <1>1, <1>6, <1>7, <1>8 DEF at, RingShape

\* A sequence that is put together from two.
LEMMA ConcatIs ==
    ASSUME NEW S, NEW a \in Seq(S), NEW b \in Seq(S), NEW c \in Seq(S),
           Len(c) = Len(a) + Len(b), \A i \in 1..Len(a) : c[i] = a[i],
           \A i \in 1..Len(b) : c[Len(a) + i] = b[i]
    PROVE  c = a \o b
<1>1. a \o b \in Seq(S) /\ Len(a \o b) = Len(c)
  BY ConcatProperties
<1>2. ASSUME NEW i \in 1..Len(c) PROVE c[i] = (a \o b)[i]
  <2>1. i <= Len(a) => i \in 1..Len(a)
    OBVIOUS
  <2>2. ~(i <= Len(a)) => i - Len(a) \in 1..Len(b) /\ Len(a) + (i - Len(a)) = i
    OBVIOUS
  <2>3. (a \o b)[i] = IF i <= Len(a) THEN a[i] ELSE b[i - Len(a)]
    BY ConcatProperties
  <2>. QED  BY <2>1, <2>2, <2>3
<1>3. \A i \in 1..Len(c) : c[i] = (a \o b)[i]
  BY <1>2
<1>. QED
  BY <1>1, <1>3, SeqEqual

\* The types of the ring and its histories.
RingType ==
    /\ buf \in [0..(CAP - 1) -> 0..MaxBytes]
    /\ head \in 0..(CAP - 1) /\ tail \in 0..(CAP - 1)
    /\ accepted \in Seq(0..MaxBytes) /\ out \in Seq(0..MaxBytes)

\* push_char: a character goes to the end of what is buffered.
LEMMA PushRing ==
    ASSUME RingType, RingHolds, NEW c \in 0..MaxBytes, PushChar(c)
    PROVE  /\ RingType' /\ RingHolds'
           /\ accepted' = accepted \/ accepted' = Append(accepted, c)
<1>0. CAP \in Nat /\ CAP >= 2
  BY InputAssumption
<1>1. CASE (head + 1) % CAP = tail
  <2>1. UNCHANGED ringVars
    BY <1>1 DEF PushChar
  <2>. QED  BY <2>1 DEF RingType, RingHolds, Buffered, ringVars
<1>2. CASE (head + 1) % CAP # tail
  <2>1. /\ buf' = [buf EXCEPT ![head] = c] /\ head' = (head + 1) % CAP
        /\ accepted' = Append(accepted, c) /\ tail' = tail /\ out' = out
    BY <1>2 DEF PushChar
  <2>2. /\ head \in 0..(CAP - 1) /\ tail \in 0..(CAP - 1)
        /\ head' = IF head + 1 < CAP THEN head + 1 ELSE 0
    BY <2>1, RingIndex DEF RingType
  <2>3. RingType' /\ head' # tail
    <3>1. head' \in 0..(CAP - 1) /\ head' # tail
      BY <1>0, <1>2, <2>1, <2>2
    <3>2. accepted' \in Seq(0..MaxBytes) /\ buf' \in [0..(CAP - 1) -> 0..MaxBytes]
      BY <2>1 DEF RingType
    <3>. QED  BY <2>1, <3>1, <3>2 DEF RingType
  <2>. DEFINE b == Buffered
              b2 == Buffered'
  <2>4. /\ b \in Seq(0..MaxBytes) /\ Len(b) \in Nat /\ Len(b) < CAP
        /\ Len(b) = IF head >= tail THEN head - tail ELSE head + CAP - tail
        /\ \A k \in 1..Len(b) :
                b[k] = buf[IF tail + k - 1 < CAP THEN tail + k - 1 ELSE tail + k - 1 - CAP]
    <3>1. /\ buf \in [0..(CAP - 1) -> 0..MaxBytes] /\ head \in 0..(CAP - 1) /\ tail \in 0..(CAP - 1)
          /\ b = RingSeq(buf, head, tail)
      BY DEF RingType, Buffered, RingSeq
    <3>. HIDE DEF b
    <3>2. RingShape(b, buf, head, tail)
      BY <3>1, BufferedIs
    <3>. QED  BY <3>2, Zenon DEF RingShape
  <2>5. /\ b2 \in Seq(0..MaxBytes) /\ Len(b2) \in Nat /\ Len(b2) < CAP
        /\ Len(b2) = IF head' >= tail' THEN head' - tail' ELSE head' + CAP - tail'
        /\ \A k \in 1..Len(b2) :
             b2[k] = buf'[IF tail' + k - 1 < CAP THEN tail' + k - 1 ELSE tail' + k - 1 - CAP]
    <3>1. /\ buf' \in [0..(CAP - 1) -> 0..MaxBytes] /\ head' \in 0..(CAP - 1) /\ tail' \in 0..(CAP - 1)
          /\ b2 = RingSeq(buf', head', tail')
      BY <2>3 DEF RingType, Buffered, RingSeq
    <3>. HIDE DEF b2
    <3>2. RingShape(b2, buf', head', tail')
      BY <3>1, BufferedIs
    <3>. QED  BY <3>2, Zenon DEF RingShape
  <2>. HIDE DEF b, b2
  <2>6. Len(b2) = Len(b) + 1
    BY <1>0, <2>1, <2>2, <2>3, <2>4, <2>5
  <2>7. \A k \in 1..Len(b) : b2[k] = b[k]
    <3>. SUFFICES ASSUME NEW k \in 1..Len(b) PROVE b2[k] = b[k]
      OBVIOUS
    <3>. DEFINE j == IF tail + k - 1 < CAP THEN tail + k - 1 ELSE tail + k - 1 - CAP
    <3>1. j \in 0..(CAP - 1) /\ j # head /\ k \in 1..Len(b2)
      BY <1>0, <2>2, <2>4, <2>6
    <3>2. b[k] = buf[j] /\ b2[k] = buf'[j]
      BY <2>1, <2>4, <2>5, <3>1
    <3>. HIDE DEF j
    <3>. QED  BY <2>1, <3>1, <3>2 DEF RingType
  <2>8. b2[Len(b) + 1] = c
    <3>. DEFINE k == Len(b) + 1
                j == IF tail + k - 1 < CAP THEN tail + k - 1 ELSE tail + k - 1 - CAP
    <3>1. j = head /\ k \in 1..Len(b2)
      BY <1>0, <2>2, <2>4, <2>6
    <3>2. b2[k] = buf'[j]
      BY <2>1, <2>5, <3>1
    <3>. HIDE DEF j
    <3>. QED  BY <2>1, <2>2, <3>1, <3>2 DEF RingType
  <2>9. accepted' = out' \o b2
    <3>1. /\ accepted \in Seq(0..MaxBytes) /\ out \in Seq(0..MaxBytes) /\ accepted = out \o b
          /\ Len(accepted) = Len(out) + Len(b)
          /\ \A i \in 1..(Len(out) + Len(b)) : accepted[i] = IF i <= Len(out) THEN out[i] ELSE b[i - Len(out)]
      <4>1. accepted = out \o b /\ accepted \in Seq(0..MaxBytes) /\ out \in Seq(0..MaxBytes)
        BY DEF RingHolds, RingType, b
      <4>. QED  BY <2>4, <4>1, ConcatProperties
    <3>2. /\ accepted' \in Seq(0..MaxBytes) /\ Len(accepted') = Len(accepted) + 1
          /\ \A i \in 1..Len(accepted) : accepted'[i] = accepted[i]
          /\ accepted'[Len(accepted) + 1] = c
      BY <2>1, <3>1, AppendProperties
    <3>3. Len(accepted') = Len(out) + Len(b2) /\ Len(out) \in Nat
      BY <2>4, <2>6, <3>1, <3>2
    <3>4. \A i \in 1..Len(out) : accepted'[i] = out[i]
      BY <2>4, <3>1, <3>2, <3>3
    <3>5. \A i \in 1..Len(b2) : accepted'[Len(out) + i] = b2[i]
      <4>. SUFFICES ASSUME NEW i \in 1..Len(b2) PROVE accepted'[Len(out) + i] = b2[i]
        OBVIOUS
      <4>1. CASE i = Len(b) + 1
        <5>1. Len(out) + i = Len(accepted) + 1
          BY <2>4, <3>1, <3>3, <4>1
        <5>. QED  BY <2>8, <3>2, <4>1, <5>1
      <4>2. CASE i # Len(b) + 1
        <5>1. /\ i \in 1..Len(b) /\ Len(out) + i \in 1..Len(accepted) /\ ~(Len(out) + i <= Len(out))
              /\ (Len(out) + i) - Len(out) = i
          BY <2>4, <2>6, <3>1, <3>3, <4>2, SMTT(60)
        <5>. QED  BY <2>7, <3>1, <3>2, <5>1
      <4>. QED  BY <4>1, <4>2
    <3>6. accepted' = out \o b2
      BY <2>5, <3>1, <3>2, <3>3, <3>4, <3>5, ConcatIs
    <3>. QED  BY <2>1, <3>6
  <2>. QED  BY <2>1, <2>3, <2>9 DEF RingHolds, b2
<1>. QED
  BY <1>1, <1>2

\* read_char: the oldest character moves from the buffer to the reader.
LEMMA TakeRing ==
    ASSUME RingType, RingHolds, TakeChar
    PROVE  RingType' /\ RingHolds' /\ accepted' = accepted
<1>0. CAP \in Nat /\ CAP >= 2
  BY InputAssumption
<1>1. /\ head # tail /\ tail' = (tail + 1) % CAP /\ out' = Append(out, buf[tail])
      /\ buf' = buf /\ head' = head /\ accepted' = accepted
  BY DEF TakeChar, Empty
<1>2. /\ head \in 0..(CAP - 1) /\ tail \in 0..(CAP - 1)
      /\ tail' = IF tail + 1 < CAP THEN tail + 1 ELSE 0
  BY <1>1, RingIndex DEF RingType
<1>3. RingType'
  <2>1. tail' \in 0..(CAP - 1)
    BY <1>0, <1>2
  <2>2. out' \in Seq(0..MaxBytes)
    BY <1>1 DEF RingType
  <2>. QED  BY <1>1, <2>1, <2>2 DEF RingType
<1>. DEFINE b == Buffered
            b2 == Buffered'
<1>4. RingShape(b, buf, head, tail)
  BY BufferedIs DEF RingType, Buffered, RingSeq
<1>5. RingShape(b2, buf', head', tail')
  <2>1. /\ buf' \in [0..(CAP - 1) -> 0..MaxBytes] /\ head' \in 0..(CAP - 1) /\ tail' \in 0..(CAP - 1)
        /\ b2 = RingSeq(buf', head', tail')
    BY <1>3 DEF RingType, Buffered, RingSeq
  <2>. HIDE DEF b2
  <2>. QED  BY <2>1, BufferedIs
<1>. HIDE DEF b, b2
<1>6. /\ b \in Seq(0..MaxBytes) /\ Len(b) \in Nat /\ b2 \in Seq(0..MaxBytes) /\ Len(b2) \in Nat
      /\ Len(b) < CAP /\ Len(b2) < CAP
      /\ Len(b) = IF head >= tail THEN head - tail ELSE head + CAP - tail
      /\ Len(b2) = IF head >= tail' THEN head - tail' ELSE head + CAP - tail'
  BY <1>1, <1>4, <1>5 DEF RingShape
<1>7. Len(b) = Len(b2) + 1
  BY <1>0, <1>1, <1>2, <1>6
<1>8. b[1] = buf[tail]
  <2>1. 1 \in 1..Len(b) /\ tail + 1 - 1 < CAP /\ tail + 1 - 1 = tail
    BY <1>0, <1>2, <1>6, <1>7
  <2>. QED  BY <1>4, <2>1 DEF RingShape
<1>9. \A k \in 1..Len(b2) : b2[k] = b[k + 1]
  <2>. SUFFICES ASSUME NEW k \in 1..Len(b2) PROVE b2[k] = b[k + 1]
    OBVIOUS
  <2>. DEFINE j == IF tail + (k + 1) - 1 < CAP THEN tail + (k + 1) - 1 ELSE tail + (k + 1) - 1 - CAP
              j2 == IF tail' + k - 1 < CAP THEN tail' + k - 1 ELSE tail' + k - 1 - CAP
  <2>1. k + 1 \in 1..Len(b) /\ j = j2
    BY <1>0, <1>2, <1>6, <1>7
  <2>2. b2[k] = buf'[j2] /\ b[k + 1] = buf[j]
    BY <1>4, <1>5, <2>1 DEF RingShape
  <2>. HIDE DEF j, j2
  <2>. QED  BY <1>1, <2>1, <2>2
<1>10. accepted = out' \o b2
  <2>1. /\ accepted \in Seq(0..MaxBytes) /\ out \in Seq(0..MaxBytes) /\ accepted = out \o b
        /\ Len(accepted) = Len(out) + Len(b)
        /\ \A i \in 1..(Len(out) + Len(b)) : accepted[i] = IF i <= Len(out) THEN out[i] ELSE b[i - Len(out)]
    <3>1. accepted = out \o b /\ accepted \in Seq(0..MaxBytes) /\ out \in Seq(0..MaxBytes)
      BY DEF RingHolds, RingType, b
    <3>. QED  BY <1>6, <3>1, ConcatProperties
  <2>2. buf[tail] \in 0..MaxBytes
    BY <1>2 DEF RingType
  <2>3. /\ out' \in Seq(0..MaxBytes) /\ Len(out') = Len(out) + 1 /\ Len(out) \in Nat
        /\ \A i \in 1..Len(out) : out'[i] = out[i]
        /\ out'[Len(out) + 1] = buf[tail]
    BY <1>1, <2>1, <2>2, AppendProperties
  <2>4. Len(accepted) = Len(out') + Len(b2)
    BY <1>6, <1>7, <2>1, <2>3
  <2>5. \A i \in 1..Len(out') : accepted[i] = out'[i]
    <3>. SUFFICES ASSUME NEW i \in 1..Len(out') PROVE accepted[i] = out'[i]
      OBVIOUS
    <3>1. CASE i = Len(out) + 1
      <4>1. i \in 1..(Len(out) + Len(b)) /\ ~(i <= Len(out)) /\ i - Len(out) = 1
        BY <1>6, <1>7, <2>3, <3>1
      <4>. QED  BY <1>8, <2>1, <2>3, <3>1, <4>1
    <3>2. CASE i # Len(out) + 1
      <4>1. i \in 1..Len(out) /\ i \in 1..(Len(out) + Len(b)) /\ i <= Len(out)
        BY <1>6, <2>3, <3>2
      <4>. QED  BY <2>1, <2>3, <4>1
    <3>. QED  BY <3>1, <3>2
  <2>6. \A i \in 1..Len(b2) : accepted[Len(out') + i] = b2[i]
    <3>. SUFFICES ASSUME NEW i \in 1..Len(b2) PROVE accepted[Len(out') + i] = b2[i]
      OBVIOUS
    <3>1. /\ Len(out') + i \in 1..(Len(out) + Len(b)) /\ ~(Len(out') + i <= Len(out))
          /\ (Len(out') + i) - Len(out) = i + 1
      BY <1>6, <1>7, <2>3
    <3>. QED  BY <1>9, <2>1, <3>1
  <2>7. PICK o \in Seq(0..MaxBytes) : o = out'
    BY <2>3
  <2>8. /\ Len(accepted) = Len(o) + Len(b2) /\ \A i \in 1..Len(o) : accepted[i] = o[i]
        /\ \A i \in 1..Len(b2) : accepted[Len(o) + i] = b2[i]
    BY <2>4, <2>5, <2>6, <2>7, Zenon
  <2>9. accepted \in Seq(0..MaxBytes) /\ b2 \in Seq(0..MaxBytes)
    BY <1>6, <2>1
  <2>10. accepted = o \o b2
    BY <2>8, <2>9, ConcatIs
  <2>. QED  BY <2>7, <2>10
<1>. QED
  BY <1>1, <1>3, <1>10 DEF RingHolds, b2

\* flush: what was buffered is taken, and nothing is left.
LEMMA FlushRing ==
    ASSUME RingType, RingHolds, FlushBuf
    PROVE  RingType' /\ RingHolds' /\ accepted' = accepted
<1>0. CAP \in Nat /\ CAP >= 2
  BY InputAssumption
<1>1. /\ tail' = head /\ out' = out \o Buffered
      /\ buf' = buf /\ head' = head /\ accepted' = accepted
  BY DEF FlushBuf
<1>2. out' = accepted
  BY <1>1 DEF RingHolds
<1>3. RingType'
  BY <1>1, <1>2 DEF RingType
<1>. DEFINE b2 == Buffered'
<1>4. RingShape(b2, buf', head', tail')
  <2>1. /\ buf' \in [0..(CAP - 1) -> 0..MaxBytes] /\ head' \in 0..(CAP - 1) /\ tail' \in 0..(CAP - 1)
        /\ b2 = RingSeq(buf', head', tail')
    BY <1>3 DEF RingType, Buffered, RingSeq
  <2>. HIDE DEF b2
  <2>. QED  BY <2>1, BufferedIs
<1>. HIDE DEF b2
<1>5. b2 \in Seq(0..MaxBytes) /\ Len(b2) = 0
  BY <1>0, <1>1, <1>3, <1>4 DEF RingShape, RingType
<1>6. b2 = <<>>
  BY <1>5, EmptySeq
<1>7. accepted \o b2 = accepted
  BY <1>6, ConcatEmptySeq DEF RingType
<1>. QED
  BY <1>1, <1>2, <1>3, <1>7 DEF RingHolds, b2

-----------------------------------------------------------------------------
(* The console and its readers, step by step *)

\* The part of the type invariant that IrqInv does not have.
ConsoleType ==
    /\ iflag \in [Tasks -> BOOLEAN]
    /\ sent \in 0..MaxBytes /\ code \in 0..MaxBytes /\ heard \subseteq 0..sent
    /\ lock \in Tasks \cup {"none"}
    /\ waiters \subseteq Readers /\ towake \subseteq Readers
    /\ RingType

LEMMA TypeParts == IrqTypes => (TypeOK <=> ConsoleType)
BY DEF IrqTypes, TypeOK, ConsoleType, RingType

\* A switch leaves blocked tasks blocked.
LEMMA SwitchBlocked ==
    ASSUME IrqTypes, CurRuns, NEW t \in Tasks, NEW x \in {"Runnable", "Blocked"},
           SwitchTo(t, [state EXCEPT ![cur] = x])
    PROVE  /\ \A u \in Tasks : state[u] = "Blocked" => state'[u] = "Blocked"
           /\ x = "Blocked" => state'[cur] = "Blocked"
BY DEF SwitchTo, IrqTypes, CurRuns

\* A step that leaves the ring and the keys alone.
LEMMA SameRing ==
    ASSUME UNCHANGED ringVars
    PROVE  (RingHolds => RingHolds') /\ (RingType => RingType')
BY DEF RingHolds, RingType, ringVars, Buffered

\* A step that sends no byte and pushes none; the controller may be emptied.
LEMMA SameKeys ==
    ASSUME KeysInOrder, KeysNew, UNCHANGED <<accepted, sent, aux, code>>,
           full' => full, taken \subseteq taken',
           pc'["kbd"] \in {"lock", "push"} => pc["kbd"] \in {"lock", "push"}
    PROVE  KeysInOrder' /\ KeysNew'
<1>1. Stolen => Stolen'
  BY DEF Stolen
<1>2. (Sorted => Sorted') /\ (Distinct => Distinct')
  BY DEF Sorted, Distinct
<1>3. KeysInOrder'
  BY <1>2 DEF KeysInOrder
<1>4. KeysNew'
  BY <1>1, <1>2 DEF KeysNew
<1> QED
  BY <1>3, <1>4

\* A character is pushed that is not older than the ones before it.
LEMMA AppendSorted ==
    ASSUME NEW q \in Seq(Nat), NEW c \in Nat, NEW q2, q2 = q \/ q2 = Append(q, c)
    PROVE  /\ \A k \in DOMAIN q2 : q2[k] = c \/ \E j \in DOMAIN q : q2[k] = q[j]
           /\ \A j, k \in DOMAIN q2 : j < k =>
                 \/ j \in DOMAIN q /\ k \in DOMAIN q /\ q2[j] = q[j] /\ q2[k] = q[k]
                 \/ j \in DOMAIN q /\ q2[j] = q[j] /\ q2[k] = c
<1>1. CASE q2 = q
  BY <1>1
<1>2. CASE q2 = Append(q, c)
  <2>1. /\ DOMAIN q = 1..Len(q) /\ Len(q) \in Nat /\ DOMAIN q2 = 1..(Len(q) + 1)
        /\ \A i \in 1..Len(q) : q2[i] = q[i]
        /\ q2[Len(q) + 1] = c
    BY <1>2
  <2>2. \A i \in DOMAIN q2 : i \in DOMAIN q \/ i = Len(q) + 1
    BY <2>1
  <2>3. \A j, k \in DOMAIN q2 : j < k => j \in DOMAIN q
    BY <2>1
  <2> QED
    BY <2>1, <2>2, <2>3
<1> QED
  BY <1>1, <1>2

LEMMA ConsoleInit == Init => ConsoleInv
<1>. SUFFICES ASSUME Init PROVE ConsoleInv
  OBVIOUS
<1>0. CAP \in Nat /\ CAP >= 2 /\ MaxBytes \in Nat
  BY InputAssumption
<1>1. RingType
  BY <1>0 DEF Init, RingType
<1>2. ConsoleType
  BY <1>0, <1>1 DEF Init, ConsoleType
<1>3. TypeOK
  BY <1>2, IrqInit, TypeParts DEF IrqInv
<1>4. \A t \in Tasks : pc[t] \in {"hlt", "wait", "rest", "user"}
  BY DEF Init
<1>5. LockHeld /\ NoStaleWaiter /\ KeysInOrder /\ KeysNew
  BY <1>0, <1>4, TaskNames DEF Init, LockHeld, NoStaleWaiter, KeysInOrder, KeysNew, Sorted, Distinct
<1>6. RingHolds
  <2>. DEFINE b == Buffered
  <2>1. RingShape(b, buf, head, tail)
    BY <1>1, BufferedIs DEF RingType, Buffered, RingSeq
  <2>. HIDE DEF b
  <2>2. b \in Seq(0..MaxBytes) /\ Len(b) = 0
    BY <1>0, <2>1 DEF Init, RingShape
  <2>3. b = <<>> /\ accepted = <<>> /\ out = <<>>
    BY <2>2, EmptySeq DEF Init
  <2>4. <<>> \o b = <<>>
    BY <2>3
  <2>. QED  BY <2>3, <2>4 DEF RingHolds, b
<1>. QED
  BY <1>3, <1>5, <1>6 DEF ConsoleInv

LEMMA ConsoleStep ==
    ASSUME IrqInv, IrqInv', ConsoleInv, [Next]_vars
    PROVE  ConsoleInv'
<1>0. /\ IrqTypes /\ CurRuns /\ OneBytePerWake /\ IrqTypes' /\ ConsoleType /\ LockHeld
      /\ NoStaleWaiter /\ RingHolds /\ KeysInOrder /\ KeysNew /\ RingType /\ OnePlace
  BY TypeParts DEF IrqInv, ConsoleInv, ConsoleType
<1>. SUFFICES ConsoleType' /\ LockHeld' /\ NoStaleWaiter' /\ RingHolds' /\ KeysInOrder' /\ KeysNew'
  <2>1. TypeOK
    BY DEF ConsoleInv
  <2>2. IrqTypes' => (TypeOK' <=> ConsoleType')
    BY DEF IrqTypes, TypeOK, ConsoleType, RingType
  <2>. QED  BY <1>0, <2>2 DEF ConsoleInv
<1>. USE TaskNames
<1>n. "none" \notin Tasks
  BY InputAssumption DEF Tasks, Drivers
<1>1. ASSUME NEW t \in Tasks, TimerTick(t)
      PROVE  ConsoleType' /\ LockHeld' /\ NoStaleWaiter' /\ RingHolds' /\ KeysInOrder' /\ KeysNew'
  <2>1. UNCHANGED <<iflag, pc, sent, aux, full, taken, heard, code, lock, waiters, towake>> /\ UNCHANGED ringVars
    BY <1>1 DEF TimerTick, irqVars, portVars
  <2>2. \A u \in Tasks : state[u] = "Blocked" => state'[u] = "Blocked"
    BY <1>0, <1>1, SwitchBlocked DEF TimerTick
  <2>3. ConsoleType' /\ LockHeld'
    BY <1>0, <2>1, SameRing DEF ConsoleType, LockHeld
  <2>4. NoStaleWaiter'
    BY <1>0, <2>1, <2>2 DEF NoStaleWaiter, ConsoleType
  <2>. QED  BY <1>0, <2>1, <2>3, <2>4, SameRing, SameKeys DEF ringVars
<1>2. ASSUME NEW d \in Drivers, ByteArrives(d)
      PROVE  ConsoleType' /\ LockHeld' /\ NoStaleWaiter' /\ RingHolds' /\ KeysInOrder' /\ KeysNew'
  <2>1. /\ UNCHANGED <<state, iflag, pc, code, heard, taken, lock, waiters, towake>>
        /\ UNCHANGED ringVars
        /\ ~full /\ sent < MaxBytes /\ sent' = sent + 1
        /\ aux' = IF d = "mouse" THEN aux \cup {sent + 1} ELSE aux
    BY <1>2 DEF ByteArrives
  <2>2. sent \in Nat /\ code \in Nat /\ \A k \in DOMAIN accepted : accepted[k] \in Nat
    BY <1>0, InputAssumption DEF ConsoleType, RingType
  <2>3. ConsoleType'
    <3>1. sent' \in 0..MaxBytes /\ heard' \subseteq 0..sent'
      BY <1>0, <2>1, <2>2, InputAssumption DEF ConsoleType
    <3>. QED  BY <1>0, <2>1, <3>1, SameRing DEF ConsoleType
  <2>4. LockHeld' /\ NoStaleWaiter'
    BY <1>0, <2>1 DEF LockHeld, NoStaleWaiter
  <2>5. accepted' = accepted
    BY <2>1 DEF ringVars
  <2>6. Sorted'
    BY <1>0, <2>5 DEF KeysInOrder, Sorted
  <2>7. \A k \in DOMAIN accepted : accepted[k] < sent' /\ accepted[k] <= sent' /\ accepted[k] # sent + 1
    BY <1>0, <2>1, <2>2 DEF KeysInOrder
  <2>8. pc["kbd"] \in {"lock", "push"} => code < sent' /\ code <= sent' /\ code # sent + 1
    BY <1>0, <2>1, <2>2 DEF KeysInOrder
  <2>9. KeysInOrder'
    BY <1>0, <2>1, <2>5, <2>6, <2>7, <2>8 DEF KeysInOrder
  <2>10. Stolen => Stolen'
    <3>1. \A n \in taken : n # sent + 1
      BY <1>0, <2>2 DEF IrqTypes
    <3>. QED  BY <2>1, <3>1 DEF Stolen
  <2>11. Distinct => Distinct'
    BY <2>1, <2>5, <2>7 DEF Distinct
  <2>12. KeysNew'
    BY <1>0, <2>1, <2>5, <2>7, <2>8, <2>10, <2>11 DEF KeysNew
  <2>. QED  BY <1>0, <2>1, <2>3, <2>4, <2>9, <2>12, SameRing
<1>3. ASSUME NEW d \in Drivers, NotifyFromIsr(d)
      PROVE  ConsoleType' /\ LockHeld' /\ NoStaleWaiter' /\ RingHolds' /\ KeysInOrder' /\ KeysNew'
  <2>1. UNCHANGED <<iflag, pc, sent, aux, full, taken, heard, code, lock, waiters, towake>>
        /\ UNCHANGED ringVars
    BY <1>3 DEF NotifyFromIsr, portVars
  <2>2. \A u \in Readers : state'[u] = state[u]
    <3>1. waiter[d] \in {"none", d}
      BY <1>0 DEF IrqTypes
    <3>. QED  BY <1>0, <1>3, <3>1 DEF NotifyFromIsr, Unblock, IrqTypes
  <2>3. ConsoleType' /\ LockHeld'
    BY <1>0, <2>1, SameRing DEF ConsoleType, LockHeld
  <2>4. NoStaleWaiter'
    BY <1>0, <2>1, <2>2 DEF NoStaleWaiter, ConsoleType
  <2>. QED  BY <1>0, <2>1, <2>3, <2>4, SameRing, SameKeys DEF ringVars
<1>4. ASSUME Acquire
      PROVE  ConsoleType' /\ LockHeld' /\ NoStaleWaiter' /\ RingHolds' /\ KeysInOrder' /\ KeysNew'
  <2>1. /\ UNCHANGED <<state, iflag, sent, aux, full, taken, heard, code, waiters, towake>> /\ UNCHANGED ringVars
        /\ lock = "none" /\ lock' = cur /\ pc[cur] \in LockPoints
        /\ pc' = [pc EXCEPT ![cur] = Inside(pc[cur])]
    BY <1>4 DEF Acquire, irqVars, portVars
  <2>2. /\ pc'[cur] = Inside(pc[cur]) /\ \A u \in Tasks \ {cur} : pc'[u] = pc[u]
        /\ cur \in Tasks
    BY <1>0, <2>1 DEF IrqTypes
  <2>3. ConsoleType'
    BY <1>0, <2>1, <2>2, SameRing DEF ConsoleType
  <2>4. LockHeld'
    BY <1>0, <1>n, <2>1, <2>2 DEF LockHeld
  <2>5. NoStaleWaiter'
    <3>1. \A r \in waiters : r # cur /\ (pc[r] = "block" \/ (pc[r] = "rlock" /\ state[r] = "Blocked"))
      BY <1>0, <2>1 DEF NoStaleWaiter, ConsoleType, LockPoints, CurRuns
    <3>. QED  BY <1>0, <2>1, <2>2, <3>1 DEF NoStaleWaiter, ConsoleType
  <2>6. pc'["kbd"] \in {"lock", "push"} => pc["kbd"] \in {"lock", "push"}
    BY <2>1, <2>2 DEF LockPoints, Inside
  <2>. QED  BY <1>0, <2>1, <2>3, <2>4, <2>5, <2>6, SameRing, SameKeys DEF ringVars
<1>5. ASSUME NEW d \in Drivers, IrqWait(d)
      PROVE  ConsoleType' /\ LockHeld' /\ NoStaleWaiter' /\ RingHolds' /\ KeysInOrder' /\ KeysNew'
  <2>1. /\ UNCHANGED <<iflag, sent, aux, full, taken, heard, code, lock, waiters, towake>>
        /\ UNCHANGED ringVars /\ pc[d] = "wait"
    BY <1>5 DEF IrqWait, At, portVars
  <2>2. \E l \in {"inb", "status", "woken"} : pc' = [pc EXCEPT ![d] = l]
    BY <1>5 DEF IrqWait, Goto, Serve
  <2>3. pc'[d] \in {"inb", "status", "woken"} /\ \A u \in Tasks \ {d} : pc'[u] = pc[u]
    BY <1>0, <2>2 DEF IrqTypes
  <2>4. \A u \in Tasks : state[u] = "Blocked" => state'[u] = "Blocked"
    <3>1. CASE UNCHANGED state
      BY <3>1
    <3>2. CASE Block
      BY <1>0, <3>2, SwitchBlocked DEF Block
    <3>. QED  BY <1>5, <3>1, <3>2 DEF IrqWait
  <2>5. ConsoleType'
    BY <1>0, <2>1, SameRing DEF ConsoleType
  <2>6. LockHeld'
    BY <1>0, <2>1, <2>3 DEF LockHeld
  <2>7. pc["kbd"] = "wake" => pc'["kbd"] = "wake"
    BY <2>1, <2>3
  <2>8. NoStaleWaiter'
    BY <1>0, <2>1, <2>3, <2>4, <2>7 DEF NoStaleWaiter, ConsoleType
  <2>9. pc'["kbd"] \in {"lock", "push"} => pc["kbd"] \in {"lock", "push"}
    BY <2>3
  <2>. QED  BY <1>0, <2>1, <2>5, <2>6, <2>8, <2>9, SameRing, SameKeys DEF ringVars
<1>6. ASSUME NEW d \in Drivers, IrqWoken(d)
      PROVE  ConsoleType' /\ LockHeld' /\ NoStaleWaiter' /\ RingHolds' /\ KeysInOrder' /\ KeysNew'
  <2>1. /\ UNCHANGED <<state, iflag, sent, aux, full, taken, heard, code, lock, waiters, towake>>
        /\ UNCHANGED ringVars /\ pc[d] = "woken" /\ pc' = [pc EXCEPT ![d] = "wait"]
    BY <1>6 DEF IrqWoken, At, Goto, portVars
  <2>2. pc'[d] = "wait" /\ \A u \in Tasks \ {d} : pc'[u] = pc[u]
    BY <1>0, <2>1 DEF IrqTypes
  <2>3. ConsoleType'
    BY <1>0, <2>1, SameRing DEF ConsoleType
  <2>4. pc["kbd"] = "wake" => pc'["kbd"] = "wake"
    BY <2>1, <2>2
  <2>5. LockHeld' /\ NoStaleWaiter'
    BY <1>0, <2>1, <2>2, <2>4 DEF LockHeld, NoStaleWaiter, ConsoleType
  <2>6. pc'["kbd"] \in {"lock", "push"} => pc["kbd"] \in {"lock", "push"}
    BY <2>2
  <2>. QED  BY <1>0, <2>1, <2>3, <2>5, <2>6, SameRing, SameKeys DEF ringVars
<1>m. ASSUME MouseStep
      PROVE  ConsoleType' /\ LockHeld' /\ NoStaleWaiter' /\ RingHolds' /\ KeysInOrder' /\ KeysNew'
  <2>1. /\ UNCHANGED <<state, iflag, sent, aux, heard, code, lock, waiters, towake>>
        /\ UNCHANGED ringVars /\ \E l \in {"status", "data", "wait"} : pc' = [pc EXCEPT !["mouse"] = l]
    BY <1>m DEF MouseStep, MouseStatus, MouseData, At, Goto, portVars
  <2>2. (full' => full) /\ taken \subseteq taken'
    BY <1>m DEF MouseStep, MouseStatus, MouseData, portVars
  <2>3. /\ pc'["mouse"] \in {"status", "data", "wait"}
        /\ \A u \in Tasks \ {"mouse"} : pc'[u] = pc[u]
    BY <1>0, <2>1 DEF IrqTypes
  <2>4. ConsoleType'
    BY <1>0, <2>1, SameRing DEF ConsoleType
  <2>5. pc'["kbd"] = pc["kbd"] /\ \A r \in Readers : pc'[r] = pc[r]
    BY <2>3 DEF Drivers
  <2>6. LockHeld'
    BY <1>0, <2>1, <2>3 DEF LockHeld
  <2>7. NoStaleWaiter'
    BY <1>0, <2>1, <2>5 DEF NoStaleWaiter, ConsoleType
  <2>. QED  BY <1>0, <2>1, <2>2, <2>4, <2>5, <2>6, <2>7, SameRing, SameKeys DEF ringVars
<1>7. ASSUME Inb
      PROVE  ConsoleType' /\ LockHeld' /\ NoStaleWaiter' /\ RingHolds' /\ KeysInOrder' /\ KeysNew'
  <2>1. /\ UNCHANGED <<state, iflag, sent, aux, taken, lock, waiters, towake>> /\ UNCHANGED ringVars
        /\ pc["kbd"] = "inb" /\ pc' = [pc EXCEPT !["kbd"] = "lock"]
        /\ code' = sent /\ full' = FALSE /\ heard' = heard \cup {sent}
    BY <1>7 DEF Inb, Kbd, KbdGoto, At, Goto
  <2>2. pc'["kbd"] = "lock" /\ \A u \in Tasks \ {"kbd"} : pc'[u] = pc[u]
    BY <1>0, <2>1 DEF IrqTypes
  <2>3. ConsoleType'
    <3>1. sent \in 0..sent
      BY <1>0 DEF IrqTypes
    <3>2. heard' \subseteq 0..sent'
      BY <1>0, <2>1, <3>1 DEF ConsoleType
    <3>. QED  BY <1>0, <2>1, <3>2, SameRing, InputAssumption DEF ConsoleType
  <2>4. LockHeld' /\ NoStaleWaiter'
    BY <1>0, <2>1, <2>2 DEF LockHeld, NoStaleWaiter, ConsoleType
  <2>5. ~Stolen => full /\ sent \notin aux
    BY <1>0, <2>1 DEF OneBytePerWake
  <2>6. accepted' = accepted /\ (Stolen' <=> Stolen) /\ sent \in Nat /\ sent <= sent
    BY <1>0, <2>1 DEF ringVars, Stolen, IrqTypes
  <2>7. (Sorted => Sorted') /\ (Distinct => Distinct')
    BY <2>1, <2>6 DEF Sorted, Distinct
  <2>8. KeysInOrder'
    BY <1>0, <2>1, <2>6, <2>7 DEF KeysInOrder
  <2>9. KeysNew'
    BY <1>0, <2>1, <2>5, <2>6, <2>7 DEF KeysNew
  <2>. QED  BY <1>0, <2>1, <2>3, <2>4, <2>8, <2>9, SameRing
<1>8. ASSUME FeedScancode
      PROVE  ConsoleType' /\ LockHeld' /\ NoStaleWaiter' /\ RingHolds' /\ KeysInOrder' /\ KeysNew'
  <2>1. /\ UNCHANGED <<state, iflag, sent, aux, full, heard, taken, waiters>> /\ code' = 0
        /\ pc["kbd"] = "push" /\ lock = "kbd"
    BY <1>0, <1>8 DEF FeedScancode, Kbd, At, LockHeld
  <2>2. /\ code \in 0..MaxBytes /\ code \in Nat /\ code <= sent
        /\ \A k \in DOMAIN accepted : accepted[k] <= code
    BY <1>0, <2>1, InputAssumption DEF ConsoleType, KeysInOrder
  <2>n. ~Stolen => /\ Distinct /\ code \notin aux /\ (full => code < sent)
                   /\ \A k \in DOMAIN accepted : accepted[k] < code
                   /\ full => \A k \in DOMAIN accepted : accepted[k] < sent
    BY <1>0, <2>1 DEF KeysNew
  <2>3. 0 \in 0..MaxBytes
    BY InputAssumption
  <2>4. CASE PushChar(code) /\ KbdGoto("wake") /\ towake' = waiters /\ UNCHANGED lock
    <3>1. pc'["kbd"] = "wake" /\ \A u \in Tasks \ {"kbd"} : pc'[u] = pc[u]
      BY <1>0, <2>4 DEF IrqTypes, KbdGoto, Goto
    <3>2. /\ RingType' /\ RingHolds'
          /\ accepted' = accepted \/ accepted' = Append(accepted, code)
      BY <1>0, <2>2, <2>4, PushRing
    <3>3. ConsoleType'
      BY <1>0, <2>1, <2>3, <2>4, <3>2 DEF ConsoleType
    <3>4. LockHeld'
      BY <1>0, <2>1, <2>4, <3>1 DEF LockHeld
    <3>5. NoStaleWaiter'
      BY <1>0, <2>1, <3>1 DEF NoStaleWaiter, ConsoleType
    <3>6. accepted \in Seq(Nat)
      BY <1>0, InputAssumption DEF RingType
    <3>7. PICK q : q = accepted'
      OBVIOUS
    <3>q. q = accepted \/ q = Append(accepted, code)
      BY <3>2, <3>7
    <3>8. /\ \A k \in DOMAIN q : q[k] = code \/ \E j \in DOMAIN accepted : q[k] = accepted[j]
          /\ \A j, k \in DOMAIN q : j < k =>
                \/ j \in DOMAIN accepted /\ k \in DOMAIN accepted
                   /\ q[j] = accepted[j] /\ q[k] = accepted[k]
                \/ j \in DOMAIN accepted /\ q[j] = accepted[j] /\ q[k] = code
      BY <2>2, <3>6, <3>q, AppendSorted, SMTT(60)
    <3>9. Sorted'
      BY <1>0, <2>2, <3>7, <3>8 DEF KeysInOrder, Sorted
    <3>10. KeysInOrder'
      <4>1. \A k \in DOMAIN q : q[k] <= sent
        BY <1>0, <2>2, <3>8 DEF KeysInOrder
      <4>. QED  BY <2>1, <3>1, <3>7, <3>9, <4>1 DEF KeysInOrder
    <3>11. KeysNew'
      <4>1. Stolen' <=> Stolen
        BY <2>1 DEF Stolen
      <4>2. ~Stolen => \A k \in DOMAIN q : q[k] \notin aux /\ (full => q[k] < sent)
        BY <2>n, <3>8 DEF Distinct
      <4>3. ~Stolen => \A j, k \in DOMAIN q : j < k => q[j] < q[k]
        BY <2>n, <3>8 DEF Distinct
      <4>4. ~Stolen => Distinct'
        BY <2>1, <3>7, <4>2, <4>3 DEF Distinct
      <4>. QED  BY <2>1, <3>1, <3>7, <4>1, <4>2, <4>4 DEF KeysNew
    <3>. QED  BY <3>2, <3>3, <3>4, <3>5, <3>10, <3>11
  <2>5. CASE KbdGoto("wait") /\ lock' = "none" /\ UNCHANGED <<ringVars, towake>>
    <3>1. pc'["kbd"] = "wait" /\ \A u \in Tasks \ {"kbd"} : pc'[u] = pc[u]
      BY <1>0, <2>5 DEF IrqTypes, KbdGoto, Goto
    <3>2. ConsoleType' /\ RingHolds'
      BY <1>0, <2>1, <2>3, <2>5, SameRing DEF ConsoleType
    <3>3. LockHeld'
      BY <1>0, <2>1, <3>1 DEF LockHeld
    <3>4. NoStaleWaiter'
      BY <1>0, <2>1, <3>1 DEF NoStaleWaiter, ConsoleType
    <3>5. KeysInOrder' /\ KeysNew'
      <4>1. /\ accepted' = accepted /\ (Stolen' <=> Stolen)
            /\ (Sorted => Sorted') /\ (Distinct => Distinct')
        BY <2>1, <2>5 DEF ringVars, Stolen, Sorted, Distinct
      <4>. QED  BY <1>0, <2>1, <2>n, <3>1, <4>1 DEF KeysInOrder, KeysNew
    <3>. QED  BY <3>2, <3>3, <3>4, <3>5
  <2>. QED  BY <1>8, <2>4, <2>5 DEF FeedScancode
<1>9. ASSUME NEW r \in Readers, WakeWaiter(r)
      PROVE  ConsoleType' /\ LockHeld' /\ NoStaleWaiter' /\ RingHolds' /\ KeysInOrder' /\ KeysNew'
  <2>1. /\ UNCHANGED <<iflag, pc, sent, aux, full, taken, heard, code, lock, waiters>> /\ UNCHANGED ringVars
        /\ pc["kbd"] = "wake" /\ lock = "kbd" /\ towake' = towake \ {r}
    BY <1>0, <1>9 DEF WakeWaiter, Kbd, At, LockHeld, irqVars, portVars
  <2>2. \A u \in Readers \ {r} : state'[u] = state[u]
    BY <1>0, <1>9 DEF WakeWaiter, Unblock, IrqTypes
  <2>3. ConsoleType' /\ LockHeld'
    BY <1>0, <2>1, SameRing DEF ConsoleType, LockHeld
  <2>4. NoStaleWaiter'
    BY <1>0, <2>1, <2>2 DEF NoStaleWaiter, ConsoleType
  <2>. QED  BY <1>0, <2>1, <2>3, <2>4, SameRing, SameKeys DEF ringVars
<1>10. ASSUME WakeDone
       PROVE  ConsoleType' /\ LockHeld' /\ NoStaleWaiter' /\ RingHolds' /\ KeysInOrder' /\ KeysNew'
  <2>1. /\ UNCHANGED <<state, iflag, sent, aux, full, taken, heard, code, towake>> /\ UNCHANGED ringVars
        /\ pc["kbd"] = "wake" /\ lock = "kbd" /\ waiters' = {} /\ lock' = "none"
        /\ pc' = [pc EXCEPT !["kbd"] = "wait"]
    BY <1>0, <1>10 DEF WakeDone, Kbd, KbdGoto, At, Goto, LockHeld, irqVars, portVars
  <2>2. pc'["kbd"] = "wait" /\ \A u \in Tasks \ {"kbd"} : pc'[u] = pc[u]
    BY <1>0, <2>1 DEF IrqTypes
  <2>3. ConsoleType'
    BY <1>0, <2>1, SameRing DEF ConsoleType
  <2>4. LockHeld' /\ NoStaleWaiter'
    BY <1>0, <2>1, <2>2 DEF LockHeld, NoStaleWaiter
  <2>. QED  BY <1>0, <2>1, <2>2, <2>3, <2>4, SameRing, SameKeys DEF ringVars
<1>11. ASSUME NEW r \in Readers, SysRead(r)
       PROVE  ConsoleType' /\ LockHeld' /\ NoStaleWaiter' /\ RingHolds' /\ KeysInOrder' /\ KeysNew'
  <2>1. /\ UNCHANGED <<state, sent, aux, full, taken, heard, code, lock, waiters, towake>> /\ UNCHANGED ringVars
        /\ pc[r] = "user" /\ pc' = [pc EXCEPT ![r] = "rlock"]
        /\ iflag' = [iflag EXCEPT ![r] = FALSE]
    BY <1>11 DEF SysRead, irqVars, portVars
  <2>2. pc'[r] = "rlock" /\ \A u \in Tasks \ {r} : pc'[u] = pc[u]
    BY <1>0, <2>1 DEF IrqTypes
  <2>3. ConsoleType'
    BY <1>0, <2>1, SameRing DEF ConsoleType
  <2>4. LockHeld' /\ NoStaleWaiter'
    BY <1>0, <2>1, <2>2 DEF LockHeld, NoStaleWaiter, ConsoleType
  <2>. QED  BY <1>0, <2>1, <2>2, <2>3, <2>4, SameRing, SameKeys DEF ringVars
<1>12. ASSUME NEW r \in Readers, ReadScan(r) \/ ReadDrain(r)
       PROVE  ConsoleType' /\ LockHeld' /\ NoStaleWaiter' /\ RingHolds' /\ KeysInOrder' /\ KeysNew'
  <2>1. /\ UNCHANGED <<state, sent, aux, full, taken, heard, code, towake>> /\ lock = r /\ lock' = "none"
        /\ pc[r] \in {"scan", "drain"}
    BY <1>0, <1>12 DEF ReadScan, ReadDrain, LockHeld, irqVars, portVars
  <2>2. \E l \in {"dlock", "user", "block"} :
          /\ pc' = [pc EXCEPT ![r] = l]
          /\ waiters' = waiters \/ (waiters' = waiters \cup {r} /\ l = "block")
    BY <1>12 DEF ReadScan, ReadDrain, ReadGoesOn
  <2>3. /\ pc'[r] \in {"dlock", "user", "block"} /\ \A u \in Tasks \ {r} : pc'[u] = pc[u]
        /\ waiters' = waiters \/ (waiters' = waiters \cup {r} /\ pc'[r] = "block")
    BY <1>0, <2>2 DEF IrqTypes
  <2>4. iflag' \in [Tasks -> BOOLEAN]
    BY <1>0, <1>12 DEF ReadScan, ReadDrain, ReadGoesOn, ConsoleType
  <2>5. RingType' /\ RingHolds' /\ accepted' = accepted
    <3>1. CASE TakeChar
      BY <1>0, <3>1, TakeRing
    <3>2. CASE UNCHANGED ringVars
      BY <1>0, <3>2, SameRing DEF ringVars
    <3>. QED  BY <1>12, <3>1, <3>2 DEF ReadScan, ReadDrain
  <2>6. ConsoleType'
    BY <1>0, <2>1, <2>3, <2>4, <2>5 DEF ConsoleType
  <2>7. LockHeld'
    BY <1>0, <2>1, <2>3 DEF LockHeld
  <2>8. NoStaleWaiter'
    <3>1. \A u \in waiters : u # r /\ (pc[u] = "block" \/ (pc[u] = "rlock" /\ state[u] = "Blocked"))
      BY <1>0, <2>1 DEF NoStaleWaiter
    <3>. QED  BY <1>0, <2>1, <2>3, <3>1 DEF NoStaleWaiter, ConsoleType
  <2>. QED  BY <1>0, <2>1, <2>3, <2>5, <2>6, <2>7, <2>8, SameKeys
<1>13. ASSUME NEW r \in Readers, ReadBlock(r)
       PROVE  ConsoleType' /\ LockHeld' /\ NoStaleWaiter' /\ RingHolds' /\ KeysInOrder' /\ KeysNew'
  <2>1. /\ UNCHANGED <<sent, aux, full, taken, heard, code, lock, waiters, towake>> /\ UNCHANGED ringVars
        /\ cur = r /\ pc[r] = "block" /\ pc' = [pc EXCEPT ![r] = "rlock"]
        /\ iflag' = [iflag EXCEPT ![r] = TRUE]
    BY <1>13 DEF ReadBlock, irqVars, portVars
  <2>2. pc'[r] = "rlock" /\ \A u \in Tasks \ {r} : pc'[u] = pc[u]
    BY <1>0, <2>1 DEF IrqTypes
  <2>3. /\ \A u \in Tasks : state[u] = "Blocked" => state'[u] = "Blocked"
        /\ state'[r] = "Blocked"
    BY <1>0, <1>13, <2>1, SwitchBlocked DEF ReadBlock, Block
  <2>4. ConsoleType'
    BY <1>0, <2>1, SameRing DEF ConsoleType
  <2>5. LockHeld'
    BY <1>0, <2>1, <2>2 DEF LockHeld
  <2>6. NoStaleWaiter'
    BY <1>0, <2>1, <2>2, <2>3 DEF NoStaleWaiter, ConsoleType
  <2>. QED  BY <1>0, <2>1, <2>2, <2>4, <2>5, <2>6, SameRing, SameKeys DEF ringVars
<1>14. ASSUME PollStart \/ Poll
       PROVE  ConsoleType' /\ LockHeld' /\ NoStaleWaiter' /\ RingHolds' /\ KeysInOrder' /\ KeysNew'
  <2>0. "poll" \notin Readers /\ "poll" # "kbd"
    BY InputAssumption
  <2>1. /\ UNCHANGED <<state, iflag, sent, aux, full, taken, heard, code, waiters, towake>>
        /\ \/ lock' = lock /\ pc' = [pc EXCEPT !["poll"] = "plock"]
           \/ lock = "poll" /\ lock' = "none" /\ pc' = [pc EXCEPT !["poll"] = "rest"]
    BY <1>0, <1>14 DEF PollStart, Poll, LockHeld, irqVars, portVars
  <2>2. pc'["poll"] \in {"plock", "rest"} /\ \A u \in Tasks \ {"poll"} : pc'[u] = pc[u]
    BY <1>0, <2>1 DEF IrqTypes
  <2>3. RingType' /\ RingHolds' /\ accepted' = accepted
    <3>1. CASE TakeChar
      BY <1>0, <3>1, TakeRing
    <3>2. CASE UNCHANGED ringVars
      BY <1>0, <3>2, SameRing DEF ringVars
    <3>3. CASE FlushBuf
      BY <1>0, <3>3, FlushRing
    <3>. QED  BY <1>14, <3>1, <3>2, <3>3 DEF PollStart, Poll
  <2>4. ConsoleType'
    BY <1>0, <2>1, <2>3 DEF ConsoleType
  <2>5. LockHeld'
    BY <1>0, <2>1, <2>2 DEF LockHeld
  <2>6. NoStaleWaiter'
    BY <1>0, <2>0, <2>1, <2>2 DEF NoStaleWaiter, ConsoleType
  <2>. QED  BY <1>0, <2>0, <2>1, <2>2, <2>3, <2>4, <2>5, <2>6, SameKeys
<1>15. ASSUME UNCHANGED vars
       PROVE  ConsoleType' /\ LockHeld' /\ NoStaleWaiter' /\ RingHolds' /\ KeysInOrder' /\ KeysNew'
  <2>1. /\ UNCHANGED ringVars /\ UNCHANGED <<accepted, sent, aux, full, taken, heard, code>>
        /\ UNCHANGED <<state, pc, iflag, lock, waiters, towake>>
    BY <1>15 DEF vars, ringVars
  <2>2. ConsoleType' /\ LockHeld' /\ NoStaleWaiter'
    BY <1>0, <2>1, SameRing DEF ConsoleType, LockHeld, NoStaleWaiter
  <2>. QED  BY <1>0, <2>1, <2>2, SameRing, SameKeys
<1>16. Next \/ UNCHANGED vars
  OBVIOUS
<1>17. CASE KbdStep
  BY <1>7, <1>8, <1>9, <1>10, <1>17 DEF KbdStep
<1>18. CASE \E r \in Readers : ReaderStep(r)
  BY <1>11, <1>12, <1>13, <1>18 DEF ReaderStep
<1>d. "kbd" \in Drivers /\ "mouse" \in Drivers
  BY DEF Drivers
<1>19. CASE KeyPress \/ MouseMove
  BY <1>2, <1>19, <1>d DEF KeyPress, MouseMove
<1>20. CASE KeyboardInterrupt \/ MouseInterrupt
  BY <1>3, <1>20, <1>d DEF KeyboardInterrupt, MouseInterrupt
<1>21. CASE \E d \in Drivers : BridgeStep(d)
  BY <1>5, <1>6, <1>21 DEF BridgeStep
<1>. QED
  BY <1>1, <1>4, <1>14, <1>15, <1>16, <1>17, <1>18, <1>19, <1>20, <1>21, <1>m DEF Next, Spin

\* The inductive invariant of the console, on top of the handshake's.
THEOREM ConsoleInvariant == Spec => []ConsoleInv
<1>1. IrqInv /\ ConsoleInv /\ [Next]_vars => ConsoleInv'
  BY IrqStep, ConsoleStep
<1>. QED
  BY <1>1, ConsoleInit, Handshake, PTL DEF Spec

\* The ring buffer of any size is a FIFO: the keys come out in the order typed, and,
\* until the mouse driver has taken a byte of the keyboard, none twice and none that is
\* a byte of the mouse, whoever reads, polls or flushes (console.rs).
THEOREM KeysFifo == Spec => []Fifo
<1>1. ConsoleInv => Fifo
  BY FifoParts DEF ConsoleInv
<1>. QED  BY <1>1, ConsoleInvariant, PTL

\* No entry of the waiters list outlives the wait it was made for (wake_waiters).
THEOREM WaitersFresh == Spec => []NoStaleWaiter
<1>1. ConsoleInv => NoStaleWaiter
  BY DEF ConsoleInv
<1>. QED  BY <1>1, ConsoleInvariant, PTL

\* Every variable keeps its type; the indices of the ring stay inside it.
THEOREM InputTyped == Spec => []TypeOK
<1>1. ConsoleInv => TypeOK
  BY DEF ConsoleInv
<1>. QED  BY <1>1, ConsoleInvariant, PTL
=============================================================================
