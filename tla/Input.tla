------------------------------- MODULE Input --------------------------------
(***************************************************************************)
(* Keyboard input: the IRQ bridge (driver/irq.rs), the keyboard driver task *)
(* (driver/keyboard.rs), the mouse driver task that reads the same port     *)
(* (driver/mouse.rs), the console ring buffer (driver/console.rs) and the   *)
(* tasks that read it: programs in a blocking read of stdin (fs/vfs.rs),    *)
(* and the shell or the compositor, which poll and flush it.                *)
(*                                                                          *)
(* One CPU; the timer may switch tasks wherever interrupts are on.  The     *)
(* scheduler is abstracted to a free choice of a runnable task: that it is  *)
(* fair is shown in Process.  INPUT is a spin lock that is taken with       *)
(* interrupts as they are, so its holder may be preempted.                  *)
(*                                                                          *)
(* The 8042 controller has one output register for both devices.  A byte is *)
(* known by its number; the register keeps the byte after it was read, so   *)
(* whoever reads an empty controller gets the last byte again.              *)
(***************************************************************************)
EXTENDS Naturals, Sequences

CONSTANTS
    Readers,  \* programs that read stdin
    CAP,      \* the size of the ring buffer (256 in the code)
    MaxBytes  \* bound: the number of bytes the keyboard and the mouse send

ASSUME InputAssumption ==
    /\ CAP \in Nat /\ CAP >= 2
    /\ MaxBytes \in Nat
    /\ Readers \cap {"idle", "kbd", "mouse", "poll", "none"} = {}

\* The driver tasks; each has an IRQ line of its own, IRQ1 and IRQ12.
Drivers == {"kbd", "mouse"}

\* The idle task, the drivers, a polling kernel task and the programs.
Tasks == {"idle", "poll"} \cup Drivers \cup Readers

VARIABLES
    cur,      \* the running task
    state,    \* Task.state
    iflag,    \* the interrupt flag of each task's context
    pc,       \* where each task is
    sent,     \* bytes the devices have sent: the last one is in the data register
    aux,      \* the bytes among them that came from the mouse
    full,     \* the status register's output-buffer-full bit
    irr,      \* the lines that are raised and not yet taken by the CPU
    pending,  \* IrqLine.pending of each driver's line
    waiter,   \* IrqLine.waiter of each driver's line
    code,     \* the scancode the keyboard driver has read
    heard,    \* history: the bytes the keyboard driver has read
    taken,    \* history: the bytes the mouse driver took out of the controller
    lock,     \* the task that holds INPUT
    buf,      \* ConsoleInput.buf
    head,     \* ConsoleInput.head
    tail,     \* ConsoleInput.tail
    waiters,  \* ConsoleInput.waiters
    towake,   \* the waiters wake_waiters has still to unblock
    accepted, \* history: the characters push_char stored
    out       \* history: the characters that were read or flushed

portVars == <<sent, aux, full, code, heard, taken>>
irqVars  == <<irr, pending, waiter>>
ringVars == <<buf, head, tail, accepted, out>>
vars == <<cur, state, iflag, pc, sent, aux, full, irr, pending, waiter, code, heard, taken,
          lock, buf, head, tail, waiters, towake, accepted, out>>

Init ==
    /\ cur = "idle"
    /\ state = [t \in Tasks |-> IF t = "idle" THEN "Running" ELSE "Runnable"]
    /\ iflag = [t \in Tasks |-> TRUE]
    /\ pc = [t \in Tasks |-> CASE t = "idle" -> "hlt" [] t \in Drivers -> "wait"
                               [] t = "poll" -> "rest" [] OTHER -> "user"]
    /\ sent = 0 /\ aux = {} /\ full = FALSE
    /\ irr = {}
    /\ pending = [d \in Drivers |-> 0] /\ waiter = [d \in Drivers |-> "none"]
    /\ code = 0 /\ heard = {} /\ taken = {}
    /\ lock = "none"
    /\ buf = [k \in 0..(CAP - 1) |-> 0]
    /\ head = 0 /\ tail = 0
    /\ waiters = {} /\ towake = {}
    /\ accepted = <<>> /\ out = <<>>

-----------------------------------------------------------------------------
(* Scheduling and interrupts *)

\* schedule(), the task states being s: some runnable task runs next.
SwitchTo(t, s) ==
    /\ s[t] = "Runnable"
    /\ cur' = t
    /\ state' = [s EXCEPT ![t] = "Running"]

\* The timer interrupt, on_timer_tick: the current task is preempted.
TimerTick(t) ==
    /\ iflag[cur]
    /\ SwitchTo(t, [state EXCEPT ![cur] = "Runnable"])
    /\ UNCHANGED <<iflag, pc, irqVars, portVars, lock, ringVars, waiters, towake>>

\* block_current_and_schedule.
Block == \E t \in Tasks : SwitchTo(t, [state EXCEPT ![cur] = "Blocked"])

\* unblock: the states when task t has been made runnable.
Unblock(t) == [state EXCEPT ![t] = IF @ = "Blocked" THEN "Runnable" ELSE @]

\* A device sends a byte: it waits in the controller, which raises the line of
\* that device (the PIC latches it) and holds the next byte of either device back
\* until this one is read.
ByteArrives(d) ==
    /\ ~full /\ sent < MaxBytes
    /\ sent' = sent + 1
    /\ full' = TRUE
    /\ aux' = IF d = "mouse" THEN aux \cup {sent + 1} ELSE aux
    /\ irr' = irr \cup {d}
    /\ UNCHANGED <<cur, state, iflag, pc, pending, waiter, code, heard, taken, lock, ringVars,
                   waiters, towake>>

KeyPress  == ByteArrives("kbd")
MouseMove == ByteArrives("mouse")

\* notify_from_isr: count the interrupt and wake the driver if it has announced
\* that it waits.
NotifyFromIsr(d) ==
    /\ d \in irr /\ iflag[cur]
    /\ irr' = irr \ {d}
    /\ pending' = [pending EXCEPT ![d] = @ + 1]
    /\ state' = IF waiter[d] = "none" THEN state ELSE Unblock(waiter[d])
    /\ UNCHANGED <<cur, iflag, pc, waiter, portVars, lock, ringVars, waiters, towake>>

\* The first-level handlers acknowledge the PIC and notify; neither reads the port.
KeyboardInterrupt == NotifyFromIsr("kbd")
MouseInterrupt    == NotifyFromIsr("mouse")

-----------------------------------------------------------------------------
(* The INPUT lock *)

\* Where a task takes INPUT, and where it is once it has it.
LockPoints == {"lock", "rlock", "dlock", "plock"}
Inside(l) == CASE l = "lock" -> "push" [] l = "rlock" -> "scan"
               [] l = "dlock" -> "drain" [] l = "plock" -> "poll"

Acquire ==
    /\ pc[cur] \in LockPoints /\ lock = "none"
    /\ lock' = cur
    /\ pc' = [pc EXCEPT ![cur] = Inside(@)]
    /\ UNCHANGED <<cur, state, iflag, irqVars, portVars, ringVars, waiters, towake>>

\* The lock is held: the task spins until it is preempted, or forever.
Spin ==
    /\ pc[cur] \in LockPoints /\ lock # "none"
    /\ UNCHANGED vars

\* A reader in a system call spins with interrupts off: the machine is stuck.
Hung == pc[cur] \in LockPoints /\ lock # "none" /\ ~iflag[cur]

-----------------------------------------------------------------------------
(* The ring buffer *)

Empty == head = tail

\* A faulty variant of PushChar: the head does not wrap.
PushCharNoWrap(c) ==
    IF (head + 1) % CAP = tail
      THEN UNCHANGED ringVars
      ELSE /\ buf' = [buf EXCEPT ![head] = c]
           /\ head' = head + 1
           /\ accepted' = Append(accepted, c)
           /\ UNCHANGED <<tail, out>>

\* A faulty variant of PushChar: the test for a full buffer is missing.
PushCharUnchecked(c) ==
    /\ buf' = [buf EXCEPT ![head] = c]
    /\ head' = (head + 1) % CAP
    /\ accepted' = Append(accepted, c)
    /\ UNCHANGED <<tail, out>>

\* push_char: a character that does not fit is dropped.
PushChar(c) ==
    IF (head + 1) % CAP = tail
      THEN UNCHANGED ringVars
      ELSE /\ buf' = [buf EXCEPT ![head] = c]
           /\ head' = (head + 1) % CAP
           /\ accepted' = Append(accepted, c)
           /\ UNCHANGED <<tail, out>>

\* The oldest character is taken out.
TakeChar ==
    /\ ~Empty
    /\ tail' = (tail + 1) % CAP
    /\ out' = Append(out, buf[tail])
    /\ UNCHANGED <<buf, head, accepted>>

\* The characters in the buffer, oldest first.
Buffered == [k \in 1..((head + CAP - tail) % CAP) |-> buf[(tail + k - 1) % CAP]]

\* flush: the buffer is emptied.
FlushBuf ==
    /\ tail' = head
    /\ out' = out \o Buffered
    /\ UNCHANGED <<buf, head, accepted>>

-----------------------------------------------------------------------------
(* The IRQ bridge *)

At(d, l) == cur = d /\ pc[d] = l
Goto(d, l) == pc' = [pc EXCEPT ![d] = l]

\* Where a driver goes when wait returns: the keyboard driver reads the data port,
\* the mouse driver starts with the status port.
Serve(d) == IF d = "kbd" THEN "inb" ELSE "status"

\* A faulty variant of IrqWait: the waiter is announced only after the switch.
IrqWaitUnannounced(d) ==
    /\ At(d, "wait")
    /\ \/ /\ pending[d] > 0
          /\ pending' = [pending EXCEPT ![d] = 0]
          /\ Goto(d, Serve(d))
          /\ UNCHANGED <<cur, state, waiter>>
       \/ /\ pending[d] = 0
          /\ Goto(d, "woken")
          /\ Block
          /\ UNCHANGED <<pending, waiter>>
    /\ UNCHANGED <<iflag, irr, portVars, lock, ringVars, waiters, towake>>

\* A faulty variant of IrqWait: the count is returned but not reset.
IrqWaitNoReset(d) ==
    /\ At(d, "wait")
    /\ \/ /\ pending[d] > 0
          /\ Goto(d, Serve(d))
          /\ UNCHANGED <<cur, state, waiter, pending>>
       \/ /\ pending[d] = 0
          /\ waiter' = [waiter EXCEPT ![d] = d]
          /\ Goto(d, "woken")
          /\ Block
          /\ UNCHANGED pending
    /\ UNCHANGED <<iflag, irr, portVars, lock, ringVars, waiters, towake>>

\* irq::wait: with interrupts off, take the pending interrupts or announce the
\* waiter and block.
IrqWait(d) ==
    /\ At(d, "wait")
    /\ \/ /\ pending[d] > 0
          /\ pending' = [pending EXCEPT ![d] = 0]
          /\ Goto(d, Serve(d))
          /\ UNCHANGED <<cur, state, waiter>>
       \/ /\ pending[d] = 0
          /\ waiter' = [waiter EXCEPT ![d] = d]
          /\ Goto(d, "woken")
          /\ Block
          /\ UNCHANGED pending
    /\ UNCHANGED <<iflag, irr, portVars, lock, ringVars, waiters, towake>>

\* irq::wait, resumed with interrupts on: the waiter slot is cleared and the
\* loop starts again.
IrqWoken(d) ==
    /\ At(d, "woken")
    /\ waiter' = [waiter EXCEPT ![d] = "none"]
    /\ Goto(d, "wait")
    /\ UNCHANGED <<cur, state, iflag, irr, pending, portVars, lock, ringVars, waiters, towake>>

-----------------------------------------------------------------------------
(* mouse_driver_task *)

\* inb(PS2_CMD): the loop ends when the controller is empty.
MouseStatus ==
    /\ At("mouse", "status")
    /\ Goto("mouse", IF full THEN "data" ELSE "wait")
    /\ UNCHANGED <<cur, state, iflag, irqVars, portVars, lock, ringVars, waiters, towake>>

\* inb(PS2_DATA), a step later: whatever is in the controller by now is taken out.
\* A byte the status gave as the keyboard's is ignored, one of the mouse goes to the
\* packet (left out); then the status is read again.
MouseData ==
    /\ At("mouse", "data")
    /\ taken' = IF full THEN taken \cup {sent} ELSE taken
    /\ full' = FALSE
    /\ Goto("mouse", "status")
    /\ UNCHANGED <<cur, state, iflag, irqVars, sent, aux, code, heard, lock, ringVars,
                   waiters, towake>>

-----------------------------------------------------------------------------
(* keyboard_driver_task *)

Kbd(l) == At("kbd", l)
KbdGoto(l) == Goto("kbd", l)

\* portio::inb(PS2_DATA_PORT), without a look at the status: the byte in the data
\* register, new or not and from whichever device, empties the controller.  The
\* driver holds the port's capability from its start, so inb does not refuse.
Inb ==
    /\ Kbd("inb")
    /\ code' = sent
    /\ heard' = heard \cup {sent}
    /\ full' = FALSE
    /\ KbdGoto("lock")
    /\ UNCHANGED <<cur, state, iflag, irqVars, sent, aux, taken, lock, ringVars, waiters, towake>>

\* feed_scancode: the byte is decoded; a key press yields a character, which is
\* pushed; other bytes yield none.
FeedScancode ==
    /\ Kbd("push")
    /\ code' = 0
    /\ \/ /\ PushChar(code)
          /\ KbdGoto("wake")
          /\ towake' = waiters
          /\ UNCHANGED lock
       \/ /\ KbdGoto("wait")
          /\ lock' = "none"
          /\ UNCHANGED <<ringVars, towake>>
    /\ UNCHANGED <<cur, state, iflag, irqVars, sent, aux, full, heard, taken, waiters>>

\* wake_waiters: the readers that wait are unblocked one by one ...
WakeWaiter(r) ==
    /\ Kbd("wake") /\ r \in towake
    /\ state' = Unblock(r)
    /\ towake' = towake \ {r}
    /\ UNCHANGED <<cur, iflag, pc, irqVars, portVars, lock, ringVars, waiters>>

\* A faulty variant of WakeDone: the list is not cleared.
WakeDoneNoClear ==
    /\ Kbd("wake") /\ towake = {}
    /\ lock' = "none"
    /\ KbdGoto("wait")
    /\ UNCHANGED <<cur, state, iflag, irqVars, portVars, ringVars, waiters, towake>>

\* ... then the list is cleared and INPUT released.
WakeDone ==
    /\ Kbd("wake") /\ towake = {}
    /\ waiters' = {}
    /\ lock' = "none"
    /\ KbdGoto("wait")
    /\ UNCHANGED <<cur, state, iflag, irqVars, portVars, ringVars, towake>>

-----------------------------------------------------------------------------
(* The readers *)

\* SYS_READ of fd 0: the call enters the kernel with interrupts off.
SysRead(r) ==
    /\ cur = r /\ pc[r] = "user"
    /\ pc' = [pc EXCEPT ![r] = "rlock"]
    /\ iflag' = [iflag EXCEPT ![r] = FALSE]
    /\ UNCHANGED <<cur, state, irqVars, portVars, lock, ringVars, waiters, towake>>

\* The call goes on to drain the buffer, or returns when the user's is full.
ReadGoesOn(r) ==
    \/ pc' = [pc EXCEPT ![r] = "dlock"] /\ UNCHANGED iflag
    \/ pc' = [pc EXCEPT ![r] = "user"] /\ iflag' = [iflag EXCEPT ![r] = TRUE]

\* read_char_blocking, under the lock: take a character, or register as a waiter.
ReadScan(r) ==
    /\ cur = r /\ pc[r] = "scan"
    /\ lock' = "none"
    /\ \/ TakeChar /\ ReadGoesOn(r) /\ UNCHANGED waiters
       \/ /\ Empty
          /\ waiters' = waiters \cup {r}
          /\ pc' = [pc EXCEPT ![r] = "block"]
          /\ UNCHANGED <<iflag, ringVars>>
    /\ UNCHANGED <<cur, state, irqVars, portVars, towake>>

\* read_char_blocking, the lock released: block.  The task resumes at the top of
\* the loop, with interrupts on.
ReadBlock(r) ==
    /\ cur = r /\ pc[r] = "block"
    /\ pc' = [pc EXCEPT ![r] = "rlock"]
    /\ iflag' = [iflag EXCEPT ![r] = TRUE]
    /\ Block
    /\ UNCHANGED <<irqVars, portVars, lock, ringVars, waiters, towake>>

\* read_char, called by read() for the characters that follow.
ReadDrain(r) ==
    /\ cur = r /\ pc[r] = "drain"
    /\ lock' = "none"
    /\ \/ TakeChar /\ ReadGoesOn(r)
       \/ /\ Empty
          /\ pc' = [pc EXCEPT ![r] = "user"]
          /\ iflag' = [iflag EXCEPT ![r] = TRUE]
          /\ UNCHANGED ringVars
    /\ UNCHANGED <<cur, state, irqVars, portVars, waiters, towake>>

\* The shell and the compositor poll with read_char or flush the buffer.
PollStart ==
    /\ cur = "poll" /\ pc["poll"] = "rest"
    /\ pc' = [pc EXCEPT !["poll"] = "plock"]
    /\ UNCHANGED <<cur, state, iflag, irqVars, portVars, lock, ringVars, waiters, towake>>

Poll ==
    /\ cur = "poll" /\ pc["poll"] = "poll"
    /\ TakeChar \/ (Empty /\ UNCHANGED ringVars) \/ FlushBuf
    /\ lock' = "none"
    /\ pc' = [pc EXCEPT !["poll"] = "rest"]
    /\ UNCHANGED <<cur, state, iflag, irqVars, portVars, waiters, towake>>

-----------------------------------------------------------------------------
BridgeStep(d) == IrqWait(d) \/ IrqWoken(d)

KbdStep == Inb \/ FeedScancode \/ (\E r \in Readers : WakeWaiter(r)) \/ WakeDone

MouseStep == MouseStatus \/ MouseData

ReaderStep(r) == SysRead(r) \/ ReadScan(r) \/ ReadBlock(r) \/ ReadDrain(r)

Next ==
    \/ \E t \in Tasks : TimerTick(t)
    \/ KeyPress
    \/ MouseMove
    \/ KeyboardInterrupt
    \/ MouseInterrupt
    \/ Acquire
    \/ Spin
    \/ \E d \in Drivers : BridgeStep(d)
    \/ KbdStep
    \/ MouseStep
    \/ \E r \in Readers : ReaderStep(r)
    \/ PollStart
    \/ Poll

Spec == Init /\ [][Next]_vars

-----------------------------------------------------------------------------
(* Properties *)

\* The places of the code a task may be at.
Places == {"hlt", "wait", "woken", "status", "data", "inb", "lock", "push", "wake", "user",
           "rlock", "scan", "block", "dlock", "drain", "rest", "plock", "poll"}

\* The type of every variable.
TypeOK ==
    /\ cur \in Tasks
    /\ state \in [Tasks -> {"Runnable", "Running", "Blocked"}]
    /\ iflag \in [Tasks -> BOOLEAN]
    /\ pc \in [Tasks -> Places]
    /\ sent \in 0..MaxBytes /\ aux \subseteq 1..sent /\ full \in BOOLEAN
    /\ irr \subseteq Drivers /\ pending \in [Drivers -> Nat]
    /\ waiter \in [Drivers -> Drivers \cup {"none"}] /\ \A d \in Drivers : waiter[d] \in {"none", d}
    /\ code \in 0..MaxBytes /\ heard \subseteq 0..sent /\ taken \subseteq 1..sent
    /\ lock \in Tasks \cup {"none"}
    /\ buf \in [0..(CAP - 1) -> 0..MaxBytes]
    /\ head \in 0..(CAP - 1) /\ tail \in 0..(CAP - 1)
    /\ waiters \subseteq Readers /\ towake \subseteq Readers
    /\ accepted \in Seq(0..MaxBytes) /\ out \in Seq(0..MaxBytes)

\* irq.rs: "the wake/sleep handshake has no lost-wakeup race".  A byte in the
\* controller is on its way to the driver it is meant for: its interrupt is raised,
\* counted, or being serviced; and no driver sleeps on a counted interrupt.
NoLostIrq ==
    /\ full => LET d == IF sent \in aux THEN "mouse" ELSE "kbd"
               IN  d \in irr \/ pending[d] > 0 \/ pc[d] \in {"inb", "status", "data"}
    /\ \A d \in Drivers : state[d] = "Blocked" =>
                              pc[d] = "woken" /\ waiter[d] = d /\ pending[d] = 0

\* The mouse driver, which drains the controller, took a byte of the keyboard.
Stolen == \E n \in taken : n \notin aux

\* The keyboard driver reads port 0x60 once per wake-up, whatever number wait()
\* returned, and does not look where the byte is from: that is right as long as the
\* mouse driver has not taken a byte of the keyboard.  Until then interrupts do not
\* pile up, and the byte the driver reads is there and is a key's.
OneBytePerWake ==
    ~Stolen =>
        /\ pending["kbd"] <= 1
        /\ "kbd" \in irr \/ pending["kbd"] > 0 \/ pc["kbd"] = "inb" => full /\ sent \notin aux

\* The console is a FIFO: what push_char accepted is what was taken out followed
\* by what is buffered, in the order typed, whoever the readers are.  A key comes
\* twice, or a byte of the mouse comes as a key, only after the mouse driver took a
\* byte of the keyboard.
Fifo ==
    /\ accepted = out \o Buffered
    /\ \A j, k \in DOMAIN accepted : j < k => accepted[j] <= accepted[k]
    /\ ~Stolen => \A j, k \in DOMAIN accepted :
                     accepted[j] \notin aux /\ (j < k => accepted[j] < accepted[k])

\* wake_waiters clears what it wakes: unless it is at work, a task in the waiters
\* list is about to block in read_char_blocking or blocked there, so no stale entry
\* ever wakes a task that sleeps for another reason.
NoStaleWaiter ==
    \A r \in waiters :
        \/ pc["kbd"] = "wake" /\ lock = "kbd" /\ r \notin towake
        \/ pc[r] = "block" \/ (pc[r] = "rlock" /\ state[r] = "Blocked")

=============================================================================
