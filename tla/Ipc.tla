-------------------------------- MODULE Ipc ---------------------------------
(***************************************************************************)
(* Synchronous message passing, kernel/src/ipc.rs, on one endpoint: kernel  *)
(* tasks that call() a service, service tasks that receive() and reply(),   *)
(* and programs that use SYS_IPC_SEND and SYS_IPC_RECV.                     *)
(*                                                                          *)
(* with_state runs with interrupts off, so each of its sections is one      *)
(* step; a kernel task may be preempted between two of them.  The scheduler *)
(* is abstracted to a free choice of a runnable task (see Process).  A      *)
(* message is known by its number, in the order of enqueueing.              *)
(***************************************************************************)
EXTENDS Naturals, Sequences

CONSTANTS
    Callers,   \* kernel tasks that call(): ipc-ping, the shell, service clients
    Servers,   \* kernel tasks that receive() and reply(): ipc-pong, services
    Programs,  \* user tasks that hold SEND and RECV capabilities
    Timeout,   \* the deadline of call(), in ticks (500 in the code)
    MaxMsgs,   \* bound: messages sent
    MaxTicks   \* bound: timer ticks counted

ASSUME IpcAssumption ==
    /\ Timeout \in Nat /\ MaxMsgs \in Nat /\ MaxTicks \in Nat
    /\ Callers \cap Servers = {} /\ Callers \cap Programs = {} /\ Servers \cap Programs = {}
    /\ {"idle", "none"} \cap (Callers \cup Servers \cup Programs) = {}

\* No entry in the replies map: no message has this number.
Absent == MaxMsgs + 1

Tasks == {"idle"} \cup Callers \cup Servers \cup Programs

VARIABLES
    cur,      \* the running task
    state,    \* Task.state
    iflag,    \* the interrupt flag of each task's context
    pc,       \* where each task is
    ticks,    \* the timer ticks since boot
    sent,     \* how many messages have been enqueued
    sender,   \* Message.sender of each message
    queue,    \* Endpoint.queue
    waiters,  \* Endpoint.waiters
    replies,  \* IpcState.replies: Absent, or 0 for a slot that is None, or the
              \* message that Some holds (a reply is known by what it answers)
    wake,     \* the task that a task is going to unblock
    deadline, \* the deadline of each caller
    msg,      \* the message a server is about to answer
    got,      \* history: the messages receive() has returned
    hung      \* SCHEDULER is locked twice: the CPU spins with interrupts off

ipcVars == <<sent, sender, queue, waiters, replies>>
vars == <<cur, state, iflag, pc, ticks, sent, sender, queue, waiters, replies, wake,
          deadline, msg, got, hung>>

\* ipc::init and create_named_endpoint have run; the tasks are ready to go.
Init ==
    /\ cur = "idle"
    /\ state = [t \in Tasks |-> IF t = "idle" THEN "Running" ELSE "Runnable"]
    /\ iflag = [t \in Tasks |-> TRUE]
    /\ pc = [t \in Tasks |-> IF t \in Servers THEN "recv" ELSE "rest"]
    /\ ticks = 0
    /\ sent = 0 /\ sender = [m \in 1..MaxMsgs |-> "none"]
    /\ queue = <<>> /\ waiters = <<>>
    /\ replies = [t \in Tasks |-> Absent]
    /\ wake = [t \in Tasks |-> "none"]
    /\ deadline = [t \in Callers |-> 0]
    /\ msg = [t \in Servers |-> 0]
    /\ got = <<>>
    /\ hung = FALSE

-----------------------------------------------------------------------------
\* A task runs from l to the next place.
At(t, l) == cur = t /\ pc[t] = l /\ ~hung
Goto(t, l) == pc' = [pc EXCEPT ![t] = l]

\* schedule(), the task states being s: some runnable task runs next.
SwitchTo(t, s) ==
    /\ s[t] = "Runnable"
    /\ cur' = t
    /\ state' = [s EXCEPT ![t] = "Running"]

\* The timer interrupt: the tick is counted and the current task preempted.
TimerTick(t) ==
    /\ iflag[cur] /\ ~hung
    /\ ticks' = IF ticks < MaxTicks THEN ticks + 1 ELSE ticks
    /\ SwitchTo(t, [state EXCEPT ![cur] = "Runnable"])
    /\ UNCHANGED <<iflag, pc, ipcVars, wake, deadline, msg, got, hung>>

\* unblock: the states when task t has been made runnable, if there is one.
Unblock(t) ==
    IF t \in Tasks THEN [state EXCEPT ![t] = IF @ = "Blocked" THEN "Runnable" ELSE @] ELSE state

\* The first task of the waiters list, if any.
FirstWaiter == IF waiters = <<>> THEN "none" ELSE Head(waiters)

\* queue.push_back(msg), waiters.pop_front().
Enqueue(t) ==
    /\ sent < MaxMsgs
    /\ sent' = sent + 1
    /\ sender' = [sender EXCEPT ![sent + 1] = t]
    /\ queue' = Append(queue, sent + 1)
    /\ waiters' = IF waiters = <<>> THEN waiters ELSE Tail(waiters)

\* SYS_IPC_SEND: send(), in a system call, with interrupts off.
SysSend(p) ==
    /\ At(p, "rest")
    /\ Enqueue(p)
    /\ state' = Unblock(FirstWaiter)
    /\ UNCHANGED <<cur, iflag, pc, ticks, replies, wake, deadline, msg, got, hung>>

-----------------------------------------------------------------------------
(* receive *)

\* SYS_IPC_RECV enters receive() with interrupts off.
SysRecv(p) ==
    /\ At(p, "rest")
    /\ Goto(p, "recv")
    /\ iflag' = [iflag EXCEPT ![p] = FALSE]
    /\ UNCHANGED <<cur, state, ticks, ipcVars, wake, deadline, msg, got, hung>>

\* receive() returns message m: the service answers it, a program goes on.
Received(t, m) ==
    /\ got' = Append(got, m)
    /\ IF t \in Servers
         THEN Goto(t, "reply") /\ msg' = [msg EXCEPT ![t] = m] /\ UNCHANGED iflag
         ELSE Goto(t, "rest") /\ iflag' = [iflag EXCEPT ![t] = TRUE] /\ UNCHANGED msg

\* A faulty variant of RecvFast: the message is read but stays in the queue.
RecvFastPeek(t) ==
    /\ At(t, "recv")
    /\ \/ /\ queue # <<>>
          /\ UNCHANGED queue
          /\ Received(t, Head(queue))
       \/ /\ queue = <<>>
          /\ Goto(t, "register")
          /\ UNCHANGED <<queue, got, msg, iflag>>
    /\ UNCHANGED <<cur, state, ticks, sent, sender, waiters, replies, wake, deadline, hung>>

\* The fast path: a message is already queued.
RecvFast(t) ==
    /\ At(t, "recv")
    /\ \/ /\ queue # <<>>
          /\ queue' = Tail(queue)
          /\ Received(t, Head(queue))
       \/ /\ queue = <<>>
          /\ Goto(t, "register")
          /\ UNCHANGED <<queue, got, msg, iflag>>
    /\ UNCHANGED <<cur, state, ticks, sent, sender, waiters, replies, wake, deadline, hung>>

\* waiters.retain(|w| w != t): a task is listed at most once.
Without(s, t) ==
    IF \E k \in DOMAIN s : s[k] = t
      THEN LET k == CHOOSE k \in DOMAIN s : s[k] = t
           IN  SubSeq(s, 1, k - 1) \o SubSeq(s, k + 1, Len(s))
      ELSE s

\* The slow path: look at the queue again, or register as a waiter.
RecvRegister(t) ==
    /\ At(t, "register")
    /\ Goto(t, "nested")
    /\ \/ /\ queue # <<>>
          /\ queue' = Tail(queue)
          /\ replies' = [replies EXCEPT ![t] = Head(queue)]
          /\ UNCHANGED waiters
       \/ /\ queue = <<>>
          /\ waiters' = Append(Without(waiters, t), t)
          /\ UNCHANGED <<queue, replies>>
    /\ UNCHANGED <<cur, state, iflag, ticks, sent, sender, wake, deadline, msg, got, hung>>

\* receive() calls task::current_id() from within scheduler::with: the spin lock
\* SCHEDULER is taken a second time by the task that holds it, interrupts off.
RecvNested(t) ==
    /\ At(t, "nested")
    /\ hung' = TRUE
    /\ iflag' = [iflag EXCEPT ![t] = FALSE]
    /\ UNCHANGED <<cur, state, pc, ticks, ipcVars, wake, deadline, msg, got>>

\* The CPU spins for good.
Spin == hung /\ UNCHANGED vars

-----------------------------------------------------------------------------
(* reply *)

\* A faulty variant of ReplyStore: the reply goes to whoever sent last.
ReplyStoreLatest(s) ==
    /\ At(s, "reply")
    /\ LET to == sender[sent] IN
         \/ /\ replies[to] # Absent
            /\ replies' = [replies EXCEPT ![to] = msg[s]]
            /\ wake' = [wake EXCEPT ![s] = to]
         \/ /\ replies[to] = Absent
            /\ UNCHANGED <<replies, wake>>
    /\ Goto(s, "rwake")
    /\ UNCHANGED <<cur, state, iflag, ticks, sent, sender, queue, waiters, deadline, msg,
                   got, hung>>

\* reply(): the reply is put in the caller's slot; without one it is dropped.
ReplyStore(s) ==
    /\ At(s, "reply")
    /\ LET to == sender[msg[s]] IN
         \/ /\ replies[to] # Absent
            /\ replies' = [replies EXCEPT ![to] = msg[s]]
            /\ wake' = [wake EXCEPT ![s] = to]
         \/ /\ replies[to] = Absent
            /\ UNCHANGED <<replies, wake>>
    /\ Goto(s, "rwake")
    /\ UNCHANGED <<cur, state, iflag, ticks, sent, sender, queue, waiters, deadline, msg,
                   got, hung>>

\* reply(), then: unblock the caller and go back to receive().
ReplyWake(s) ==
    /\ At(s, "rwake")
    /\ state' = Unblock(wake[s])
    /\ wake' = [wake EXCEPT ![s] = "none"]
    /\ msg' = [msg EXCEPT ![s] = 0]
    /\ Goto(s, "recv")
    /\ UNCHANGED <<cur, iflag, ticks, ipcVars, deadline, got, hung>>

-----------------------------------------------------------------------------
(* call *)

\* A reply slot is registered and the request enqueued.
CallSend(c) ==
    /\ At(c, "rest")
    /\ Enqueue(c)
    /\ replies' = [replies EXCEPT ![c] = 0]
    /\ wake' = [wake EXCEPT ![c] = FirstWaiter]
    /\ Goto(c, "cwake")
    /\ UNCHANGED <<cur, state, iflag, ticks, deadline, msg, got, hung>>

\* The receiver is unblocked and the deadline computed.
CallWake(c) ==
    /\ At(c, "cwake")
    /\ state' = Unblock(wake[c])
    /\ wake' = [wake EXCEPT ![c] = "none"]
    /\ deadline' = [deadline EXCEPT ![c] = ticks + Timeout]
    /\ Goto(c, "check")
    /\ UNCHANGED <<cur, iflag, ticks, ipcVars, msg, got, hung>>

\* The reply is taken if it has come.
CallCheck(c) ==
    /\ At(c, "check")
    /\ \/ /\ replies[c] # 0
          /\ replies' = [replies EXCEPT ![c] = Absent]
          /\ Goto(c, "rest")
       \/ /\ replies[c] = 0
          /\ Goto(c, "late")
          /\ UNCHANGED replies
    /\ UNCHANGED <<cur, state, iflag, ticks, sent, sender, queue, waiters, wake, deadline,
                   msg, got, hung>>

\* A faulty variant of CallDeadline: the slot is left behind.
CallDeadlineLeaks(c) ==
    /\ At(c, "late")
    /\ \/ /\ ticks >= deadline[c]
          /\ Goto(c, "rest")
          /\ UNCHANGED <<iflag, replies>>
       \/ /\ ticks < deadline[c]
          /\ iflag' = [iflag EXCEPT ![c] = TRUE]
          /\ Goto(c, "block")
          /\ UNCHANGED replies
    /\ UNCHANGED <<cur, state, ticks, sent, sender, queue, waiters, wake, deadline, msg,
                   got, hung>>

\* After the deadline the slot is removed and the call fails; before it,
\* interrupts are enabled ...
CallDeadline(c) ==
    /\ At(c, "late")
    /\ \/ /\ ticks >= deadline[c]
          /\ replies' = [replies EXCEPT ![c] = Absent]
          /\ Goto(c, "rest")
          /\ UNCHANGED iflag
       \/ /\ ticks < deadline[c]
          /\ iflag' = [iflag EXCEPT ![c] = TRUE]
          /\ Goto(c, "block")
          /\ UNCHANGED replies
    /\ UNCHANGED <<cur, state, ticks, sent, sender, queue, waiters, wake, deadline, msg,
                   got, hung>>

\* ... and the caller blocks.  When it runs again it disables interrupts and
\* looks for the reply.
CallBlock(c) ==
    /\ At(c, "block")
    /\ \E t \in Tasks : SwitchTo(t, [state EXCEPT ![c] = "Blocked"])
    /\ iflag' = [iflag EXCEPT ![c] = FALSE]
    /\ Goto(c, "check")
    /\ UNCHANGED <<ticks, ipcVars, wake, deadline, msg, got, hung>>

\* After a call the caller rests: sleep_yield, which leaves interrupts on.
Rest(c) ==
    /\ At(c, "rest")
    /\ \E t \in Tasks : SwitchTo(t, [state EXCEPT ![c] = "Runnable"])
    /\ iflag' = [iflag EXCEPT ![c] = TRUE]
    /\ UNCHANGED <<pc, ticks, ipcVars, wake, deadline, msg, got, hung>>

-----------------------------------------------------------------------------
RecvStep(t) == RecvFast(t) \/ RecvRegister(t) \/ RecvNested(t)
ReplyStep(s) == ReplyStore(s) \/ ReplyWake(s)
CallStep(c) ==
    CallSend(c) \/ CallWake(c) \/ CallCheck(c) \/ CallDeadline(c) \/ CallBlock(c) \/ Rest(c)

Next ==
    \/ \E t \in Tasks : TimerTick(t)
    \/ \E p \in Programs : SysSend(p) \/ SysRecv(p)
    \/ \E t \in Servers \cup Programs : RecvStep(t)
    \/ \E s \in Servers : ReplyStep(s)
    \/ \E c \in Callers : CallStep(c)
    \/ Spin

Spec == Init /\ [][Next]_vars

-----------------------------------------------------------------------------
(* Properties *)

Places == {"rest", "recv", "register", "nested", "reply", "rwake", "cwake", "check", "late",
           "block"}

\* The elements of a sequence.
Elems(s) == {s[k] : k \in DOMAIN s}

\* The type of every variable.
TypeOK ==
    /\ cur \in Tasks
    /\ state \in [Tasks -> {"Runnable", "Running", "Blocked"}]
    /\ iflag \in [Tasks -> BOOLEAN]
    /\ pc \in [Tasks -> Places]
    /\ ticks \in 0..MaxTicks /\ sent \in 0..MaxMsgs
    /\ sender \in [1..MaxMsgs -> Tasks \cup {"none"}]
    /\ queue \in Seq(1..MaxMsgs) /\ waiters \in Seq(Servers \cup Programs)
    /\ replies \in [Tasks -> 0..Absent]
    /\ wake \in [Tasks -> Tasks \cup {"none"}]
    /\ deadline \in [Callers -> Nat]
    /\ msg \in [Servers -> 0..MaxMsgs]
    /\ got \in Seq(1..MaxMsgs)
    /\ hung \in BOOLEAN

\* The messages that the second look of receive() has put aside.
Stashed == {replies[t] : t \in {u \in Servers \cup Programs : replies[u] # Absent}}

\* Each message is delivered once and in order: it is queued, put aside or received,
\* never two of these, none is received twice, and one that is still queued was sent
\* after every message that has been taken, whoever took it.
EachMessageOnce ==
    /\ Elems(queue) \cup Stashed \cup Elems(got) = 1..sent
    /\ Elems(queue) \cap Elems(got) = {}
    /\ Stashed \cap (Elems(queue) \cup Elems(got)) = {}
    /\ \A j, k \in DOMAIN got : got[j] = got[k] => j = k
    /\ \A j, k \in DOMAIN queue : j < k => queue[j] < queue[k]
    /\ \A q \in Elems(queue) : \A m \in Elems(got) \cup Stashed : m < q

\* A reply slot exists exactly while its task is in call(), so that the reply to
\* a pending call is never dropped and no slot leaks.
SlotWhileCalling ==
    /\ TypeOK
    /\ \A c \in Callers : replies[c] # Absent <=> pc[c] \in {"cwake", "check", "late", "block"}

\* What a caller's slot holds answers a message of that caller.
ReplyToOwnRequest ==
    \A c \in Callers : replies[c] \notin {0, Absent} => sender[replies[c]] = c

\* Where the tasks are: a program in receive() has the CPU to itself, and only a
\* task between the two halves of receive()'s slow path has a message put aside.
PlacesInv ==
    /\ \A p \in Programs : pc[p] # "rest" => cur = p /\ ~iflag[p]
    /\ \A t \in Servers \cup Programs : replies[t] # Absent => pc[t] = "nested"
    /\ \A s \in Servers : pc[s] = "reply" => msg[s] \in 1..sent
    /\ \A j, k \in DOMAIN waiters : waiters[j] = waiters[k] => j = k

\* Every message sent has a sender that is no service, and replies are to messages
\* that have been sent.
SendersInv ==
    /\ \A m \in 1..sent : sender[m] \in Callers \cup Programs
    /\ \A c \in Callers : replies[c] \notin {0, Absent} => replies[c] \in 1..sent

\* The inductive invariant behind the three properties.
IpcInv ==
    /\ PlacesInv /\ SendersInv
    /\ EachMessageOnce /\ SlotWhileCalling /\ ReplyToOwnRequest
=============================================================================
