---------------------------- MODULE Descriptors -----------------------------
(***************************************************************************)
(* File descriptor tables, anonymous pipes and the sockets behind           *)
(* descriptors (kernel/src/fs/vfs.rs, the socket map of net/stack.rs), as   *)
(* programs use them through pipe, read, write, close, socket, fork and     *)
(* exit, and as a kill ends them.                                           *)
(*                                                                          *)
(* A system call runs with interrupts off and yield_now() keeps them off,   *)
(* so a call is one step, except that a read or write that has to wait is   *)
(* one step per round of its loop; between two rounds every other program   *)
(* may run (the scheduler is a free choice, see Process).                   *)
(***************************************************************************)
EXTENDS Integers, Sequences, FiniteSets, FiniteSetsExt

CONSTANTS
    Programs,          \* the ids of user tasks
    STREAMS,           \* standard streams a task starts with (3 in the code)
    MAX_FDS_PER_TASK,  \* 64 in the code
    PIPE_CAPACITY,     \* 4096 in the code
    MAX_SOCKETS,       \* 64 in the code
    Lengths,           \* the lengths programs pass to read and write
    MaxFd,             \* bound: the largest descriptor number
    MaxPipes,          \* bound: pipes ever created
    MaxSockets,        \* bound: sockets ever created
    MaxBytes           \* bound: no write starts that would take a pipe's bytes past it

ASSUME DescriptorsAssumption ==
    /\ IsFiniteSet(Programs)
    /\ STREAMS \in Nat \ {0} /\ MAX_FDS_PER_TASK \in Nat /\ MAX_FDS_PER_TASK > STREAMS
    /\ PIPE_CAPACITY \in Nat \ {0} /\ MAX_SOCKETS \in Nat
    /\ Lengths \subseteq Nat
    /\ MaxFd \in Nat /\ MaxFd >= MAX_FDS_PER_TASK
    /\ MaxPipes \in Nat /\ MaxSockets \in Nat /\ MaxBytes \in Nat

Fds   == 0..MaxFd
Pipes == 1..MaxPipes
Socks == 1..MaxSockets

\* FileType: what a descriptor refers to.
NoFile          == <<"none", 0, FALSE>>
Stream          == <<"stream", 0, FALSE>>
PipeEnd(id, w)  == <<"pipe", id, w>>
Socket(id)      == <<"socket", id, FALSE>>
Files == {NoFile, Stream} \cup {PipeEnd(p, w) : p \in Pipes, w \in BOOLEAN}
                          \cup {Socket(s) : s \in Socks}

\* A byte is known by its writer and its place in all that program writes.
Bytes == Programs \X (Nat \ {0})

\* An entry of PIPES, or NoPipe for an id that has none.
NoPipe == [live |-> FALSE, buf |-> <<>>, read_ends |-> 0, write_ends |-> 0]

\* A program's call in progress: a read or a write that is waiting.
Idle == [kind |-> "idle", id |-> 0, len |-> 0, done |-> 0]

VARIABLES
    status,     \* "none": no task, "alive", "ended"
    table,      \* FdTable.files of each program
    next_fd,    \* FdTable.next_fd
    pipes,      \* PIPES
    nextPipe,   \* NEXT_PIPE_ID
    sockets,    \* NetworkStack.socket_map, its keys
    nextSocket, \* NetworkStack.next_socket_id
    call,       \* the read or write each program is waiting in
    wrote,      \* bytes of each program that write() has put into pipes
    sent,       \* history: the bytes put into each pipe
    out         \* history: the bytes taken out of each pipe

fdVars     == <<status, table, next_fd>>
socketVars == <<sockets, nextSocket>>
vars == <<status, table, next_fd, pipes, nextPipe, sockets, nextSocket, call, wrote,
          sent, out>>

-----------------------------------------------------------------------------
(* FdTable *)

Open(files) == {fd \in Fds : files[fd] # NoFile}

\* The k-th number alloc_fd tries, starting with n.
Tried(n, k) ==
    IF k = 0 THEN n
    ELSE IF n + k < MAX_FDS_PER_TASK THEN n + k
    ELSE STREAMS + ((IF n >= MAX_FDS_PER_TASK THEN k - 1 ELSE n + k - MAX_FDS_PER_TASK)
                       % (MAX_FDS_PER_TASK - STREAMS))

\* alloc_fd: the table is not full.
HasRoom(files) == Cardinality(Open(files)) < MAX_FDS_PER_TASK

\* alloc_fd: the number it chooses when the search starts at n.
FreeFd(files, n) ==
    Tried(n, Min({k \in 0..MAX_FDS_PER_TASK : Tried(n, k) \in Fds /\ files[Tried(n, k)] = NoFile}))

\* alloc_fd, with room in the table: file gets a number, and the search goes on
\* after it.
AllocFd(tab, file) ==
    LET fd == FreeFd(tab.files, tab.next) IN
    [files |-> [tab.files EXCEPT ![fd] = file], next |-> fd + 1]

TableOf(t) == [files |-> table[t], next |-> next_fd[t]]

SetTable(t, tab) ==
    /\ tab.next <= MaxFd
    /\ table' = [table EXCEPT ![t] = tab.files]
    /\ next_fd' = [next_fd EXCEPT ![t] = tab.next]

-----------------------------------------------------------------------------
(* Pipe ends and sockets *)

\* How many of the descriptors in files are this end of the pipe.
EndsIn(files, id, w) == Cardinality({fd \in Fds : files[fd] = PipeEnd(id, w)})

\* pipe_close_end, r times for the read end and w times for the write end: the
\* subtraction saturates, and the pipe is freed when no end is left.
Released(p, r, w) ==
    LET reads  == IF p.read_ends > r THEN p.read_ends - r ELSE 0
        writes == IF p.write_ends > w THEN p.write_ends - w ELSE 0
    IN IF reads = 0 /\ writes = 0
         THEN NoPipe
         ELSE [p EXCEPT !.read_ends = reads, !.write_ends = writes]

\* The pipes after the ends among files have been released.
ReleaseEnds(files) ==
    [p \in Pipes |->
        LET r == EndsIn(files, p, FALSE)
            w == EndsIn(files, p, TRUE)
        IN IF pipes[p].live /\ r + w > 0 THEN Released(pipes[p], r, w) ELSE pipes[p]]

\* The sockets among files: tcp_destroy removes them from the map.
SocketsIn(files) == {s \in Socks : \E fd \in Fds : files[fd] = Socket(s)}

-----------------------------------------------------------------------------
(* Tasks come and go *)

EmptyTable == [fd \in Fds |-> IF fd < STREAMS THEN Stream ELSE NoFile]

\* init_task_fds: a program is launched, with the standard streams.
InitTaskFds(t) ==
    /\ status[t] = "none"
    /\ status' = [status EXCEPT ![t] = "alive"]
    /\ table' = [table EXCEPT ![t] = EmptyTable]
    /\ next_fd' = [next_fd EXCEPT ![t] = STREAMS]
    /\ UNCHANGED <<pipes, nextPipe, socketVars, call, wrote, sent, out>>

\* A faulty variant of CloneTaskFds: the pipe ends of the child are not counted.
CloneTaskFdsNoDup(t, child) ==
    /\ status[t] = "alive" /\ call[t] = Idle /\ status[child] = "none"
    /\ status' = [status EXCEPT ![child] = "alive"]
    /\ table' = [table EXCEPT ![child] = table[t]]
    /\ next_fd' = [next_fd EXCEPT ![child] = next_fd[t]]
    /\ UNCHANGED <<pipes, nextPipe, socketVars, call, wrote, sent, out>>

\* clone_task_fds, for fork: the child gets a copy of the table, and every pipe
\* end in it is counted once more.  Sockets have no count.
CloneTaskFds(t, child) ==
    /\ status[t] = "alive" /\ call[t] = Idle /\ status[child] = "none"
    /\ status' = [status EXCEPT ![child] = "alive"]
    /\ table' = [table EXCEPT ![child] = table[t]]
    /\ next_fd' = [next_fd EXCEPT ![child] = next_fd[t]]
    /\ pipes' = [p \in Pipes |->
                   IF pipes[p].live
                     THEN [pipes[p] EXCEPT
                             !.read_ends = @ + EndsIn(table[t], p, FALSE),
                             !.write_ends = @ + EndsIn(table[t], p, TRUE)]
                     ELSE pipes[p]]
    /\ UNCHANGED <<nextPipe, socketVars, call, wrote, sent, out>>

\* cleanup_task_fds: the program exits, faults, or is killed, possibly while it
\* waits in a read or a write.
CleanupTaskFds(t) ==
    /\ status[t] = "alive"
    /\ status' = [status EXCEPT ![t] = "ended"]
    /\ table' = [table EXCEPT ![t] = [fd \in Fds |-> NoFile]]
    /\ pipes' = ReleaseEnds(table[t])
    /\ sockets' = sockets \ SocketsIn(table[t])
    /\ call' = [call EXCEPT ![t] = Idle]
    /\ UNCHANGED <<next_fd, nextPipe, nextSocket, wrote, sent, out>>

-----------------------------------------------------------------------------
(* pipe, close, socket *)

InUser(t) == status[t] = "alive" /\ call[t] = Idle

\* NEXT_PIPE_ID.
NewPipeId == nextPipe

\* pipe: both ends get a descriptor and the pipe is registered.  The id is used
\* up in any case; when there is room for one descriptor only, the read end stays
\* in the table although the call fails and no pipe is registered.
SysPipe(t) ==
    LET id    == NewPipeId
        tab   == TableOf(t)
        rd    == AllocFd(tab, PipeEnd(id, FALSE))
        full  == ~HasRoom(tab.files)
        fails == full \/ ~HasRoom(rd.files)
    IN
    /\ InUser(t) /\ id <= MaxPipes /\ (full \/ rd.next <= MaxFd)
    /\ nextPipe' = id + 1
    /\ SetTable(t, CASE full  -> tab
                     [] fails /\ ~full -> rd
                     [] OTHER -> AllocFd(rd, PipeEnd(id, TRUE)))
    /\ pipes' = IF fails THEN pipes
                ELSE [pipes EXCEPT ![id] = [live |-> TRUE, buf |-> <<>>,
                                            read_ends |-> 1, write_ends |-> 1]]
    /\ UNCHANGED <<status, socketVars, call, wrote, sent, out>>

\* close: the descriptor goes, and what it referred to is released.
SysClose(t, fd) ==
    LET only == [g \in Fds |-> IF g = fd THEN table[t][fd] ELSE NoFile] IN
    /\ InUser(t) /\ table[t][fd] # NoFile
    /\ table' = [table EXCEPT ![t][fd] = NoFile]
    /\ pipes' = ReleaseEnds(only)
    /\ sockets' = sockets \ SocketsIn(only)
    /\ UNCHANGED <<status, next_fd, nextPipe, nextSocket, call, wrote, sent, out>>

\* create_tcp_socket: a new id in the map, if it is not full.
CreateTcpSocket ==
    /\ Cardinality(sockets) < MAX_SOCKETS
    /\ sockets' = sockets \cup {nextSocket}
    /\ nextSocket' = nextSocket + 1

\* SYS_SOCKET, by a holder of ROLE_NETWORK: a socket is created if there is room
\* for one.  Without room for a descriptor it is closed but stays in the map.
SysSocket(t) ==
    /\ InUser(t) /\ nextSocket <= MaxSockets
    /\ CreateTcpSocket
    /\ IF HasRoom(table[t])
         THEN SetTable(t, AllocFd(TableOf(t), Socket(nextSocket)))
         ELSE UNCHANGED <<table, next_fd>>
    /\ UNCHANGED <<status, pipes, nextPipe, call, wrote, sent, out>>

-----------------------------------------------------------------------------
(* read and write *)

\* read() returns to program t.
ReadReturns(t) == call' = [call EXCEPT ![t] = Idle]

\* Faulty variants of PipeEmpty: a reader waits although no writer is left; it
\* waits for a pipe that does not exist.
PipeEmptyNoEof(p) == pipes[p].live /\ pipes[p].buf = <<>>
PipeEmptyNoPipe(p) == pipes[p].buf = <<>> /\ (pipes[p].live => pipes[p].write_ends > 0)

\* A read finds nothing, but there are writers: it has to wait.
PipeEmpty(p) == pipes[p].live /\ pipes[p].buf = <<>> /\ pipes[p].write_ends > 0

\* One round of the loop of a read of at most len bytes: it takes what is there;
\* with no data and no writers, or no pipe, it returns 0 (end of file); otherwise
\* it yields.
ReadRound(t, p, len) ==
    /\ IF PipeEmpty(p)
         THEN /\ call' = [call EXCEPT ![t] = [kind |-> "read", id |-> p, len |-> len, done |-> 0]]
              /\ UNCHANGED <<pipes, out>>
         ELSE LET buf == pipes[p].buf
                  n   == IF Len(buf) < len THEN Len(buf) ELSE len
              IN /\ pipes' = [pipes EXCEPT ![p].buf = SubSeq(buf, n + 1, Len(buf))]
                 /\ out' = [out EXCEPT ![p] = @ \o SubSeq(buf, 1, n)]
                 /\ ReadReturns(t)
    /\ UNCHANGED <<fdVars, nextPipe, socketVars, wrote, sent>>

\* read on a descriptor of a pipe.
SysRead(t, fd, len) ==
    /\ InUser(t)
    /\ \E p \in Pipes : table[t][fd] = PipeEnd(p, FALSE) /\ ReadRound(t, p, len)

ReadAgain(t) == call[t].kind = "read" /\ ReadRound(t, call[t].id, call[t].len)

\* A faulty variant of Chunk: each round starts at the beginning of the buffer.
ChunkFromStart(t, done, n) == [k \in 1..n |-> <<t, wrote[t] + k>>]

\* buf[written..written + take]: the next n bytes after the done ones.
Chunk(t, done, n) == [k \in 1..n |-> <<t, wrote[t] + done + k>>]

\* write() returns with done bytes written (an error if there are none of some).
WriteReturns(t, done) ==
    /\ call' = [call EXCEPT ![t] = Idle]
    /\ wrote' = [wrote EXCEPT ![t] = @ + done]

\* The room left in the circular buffer.
Space(p) == PIPE_CAPACITY - Len(pipes[p].buf)

\* The loop of a write of len bytes of which done are written, up to the point
\* where it yields or returns: it stops at a pipe that is gone or has no readers;
\* otherwise it fills the space there is and, if that was not enough, finds the
\* pipe full and yields.
WriteRound(t, p, len, done) ==
    LET take == IF Space(p) < len - done THEN Space(p) ELSE len - done IN
    /\ IF pipes[p].read_ends = 0
         THEN WriteReturns(t, done) /\ UNCHANGED <<pipes, sent>>
         ELSE /\ pipes' = [pipes EXCEPT ![p].buf = @ \o Chunk(t, done, take)]
              /\ sent' = [sent EXCEPT ![p] = @ \o Chunk(t, done, take)]
              /\ IF done + take >= len
                   THEN WriteReturns(t, done + take)
                   ELSE /\ call' = [call EXCEPT ![t] = [kind |-> "write", id |-> p, len |-> len,
                                                        done |-> done + take]]
                        /\ UNCHANGED wrote
    /\ UNCHANGED <<fdVars, nextPipe, socketVars, out>>

\* write on a descriptor of a pipe.
SysWrite(t, fd, len) ==
    /\ InUser(t)
    /\ \E p \in Pipes : /\ table[t][fd] = PipeEnd(p, TRUE) /\ Len(sent[p]) + len <= MaxBytes
                        /\ WriteRound(t, p, len, 0)

WriteAgain(t) ==
    call[t].kind = "write" /\ WriteRound(t, call[t].id, call[t].len, call[t].done)

-----------------------------------------------------------------------------
Init ==
    /\ status = [t \in Programs |-> "none"]
    /\ table = [t \in Programs |-> [fd \in Fds |-> NoFile]]
    /\ next_fd = [t \in Programs |-> STREAMS]
    /\ pipes = [p \in Pipes |-> NoPipe]
    /\ nextPipe = 1
    /\ sockets = {}
    /\ nextSocket = 1
    /\ call = [t \in Programs |-> Idle]
    /\ wrote = [t \in Programs |-> 0]
    /\ sent = [p \in Pipes |-> <<>>]
    /\ out = [p \in Pipes |-> <<>>]

Next ==
    \E t \in Programs :
        \/ InitTaskFds(t)
        \/ \E child \in Programs : CloneTaskFds(t, child)
        \/ CleanupTaskFds(t)
        \/ SysPipe(t)
        \/ \E fd \in Fds : SysClose(t, fd)
        \/ SysSocket(t)
        \/ \E fd \in Fds, len \in Lengths : SysRead(t, fd, len) \/ SysWrite(t, fd, len)
        \/ ReadAgain(t)
        \/ WriteAgain(t)

Spec == Init /\ [][Next]_vars

\* Round-robin scheduling (Process, RunnableRuns): a program that waits in a read
\* or a write gets its next round.
FairSpec == Spec /\ \A t \in Programs : WF_vars(ReadAgain(t) \/ WriteAgain(t))

-----------------------------------------------------------------------------
(* Properties *)

\* The type of every variable; no table exceeds its limit.
TypeOK ==
    /\ status \in [Programs -> {"none", "alive", "ended"}]
    /\ table \in [Programs -> [Fds -> Files]]
    /\ \A t \in Programs : Cardinality(Open(table[t])) <= MAX_FDS_PER_TASK
    /\ next_fd \in [Programs -> Fds]
    /\ pipes \in [Pipes -> [live : BOOLEAN, buf : Seq(Bytes), read_ends : Nat, write_ends : Nat]]
    /\ \A p \in Pipes : Len(pipes[p].buf) <= PIPE_CAPACITY
    /\ nextPipe \in 1..(MaxPipes + 1)
    /\ sockets \subseteq Socks /\ nextSocket \in 1..(MaxSockets + 1)
    /\ call \in [Programs -> [kind : {"idle", "read", "write"}, id : 0..MaxPipes,
                              len : Nat, done : Nat]]
    /\ wrote \in [Programs -> Nat]
    /\ sent \in [Pipes -> Seq(Bytes)] /\ out \in [Pipes -> Seq(Bytes)]

\* The descriptors, in all tables, that are this end of the pipe.
Holders(p, w) == {h \in Programs \X Fds : table[h[1]][h[2]] = PipeEnd(p, w)}

\* Pipe: read_ends and write_ends are the numbers of open ends "across all tasks",
\* however forks, closes, exits and kills interleave; so end of file and a broken
\* pipe are reported exactly when the other side is gone, and a pipe lives exactly
\* as long as a descriptor of it (the read end left behind by a pipe() that failed
\* has none).
EndsCounted ==
    /\ TypeOK
    /\ \A p \in Pipes :
         /\ pipes[p].live => /\ pipes[p].read_ends = Cardinality(Holders(p, FALSE))
                             /\ pipes[p].write_ends = Cardinality(Holders(p, TRUE))
                             /\ pipes[p].read_ends + pipes[p].write_ends > 0
         /\ ~pipes[p].live => Holders(p, TRUE) = {} /\ pipes[p] = NoPipe

\* A read or a write that waits works on the pipe it looked up before it first
\* yielded: the pipe is still there, and so is the caller's own end of it, so the
\* "pipe gone" branches are never taken by a call that has waited.
CallHoldsEnd ==
    \A t \in Programs :
        call[t].kind # "idle" =>
            /\ status[t] = "alive"
            /\ call[t].id \in Pipes
            /\ pipes[call[t].id].live
            /\ \E fd \in Fds : table[t][fd] = PipeEnd(call[t].id, call[t].kind = "write")

\* The numbers of the bytes of program t that went into some pipe.
SentBy(t) == {b[2] : b \in {c \in UNION {{sent[p][k] : k \in DOMAIN sent[p]} : p \in Pipes} :
                                c[1] = t}}

\* The bytes of a write go into the pipe once and in order although the write may
\* take several rounds with other writers in between, what write() reports is what
\* went in, and what readers take is what went in, in order, with nothing lost
\* while the pipe lives.
StreamIntact ==
    /\ \A p \in Pipes :
         /\ pipes[p].live => sent[p] = out[p] \o pipes[p].buf
         /\ \A j, k \in DOMAIN sent[p] :
              j < k /\ sent[p][j][1] = sent[p][k][1] => sent[p][j][2] < sent[p][k][2]
    /\ \A t \in Programs :
         status[t] = "alive" => SentBy(t) = 1..(wrote[t] + call[t].done)

\* Descriptor numbers only ever go up: alloc_fd finds the number it starts with free,
\* so its search never wraps.  A task that does not run has no descriptors.
TablesInv ==
    \A t \in Programs :
        /\ \A fd \in Fds : fd >= next_fd[t] => table[t][fd] = NoFile
        /\ status[t] # "alive" => /\ \A fd \in Fds : table[t][fd] = NoFile
                                  /\ call[t] = Idle
        /\ status[t] = "none" => SentBy(t) = {} /\ wrote[t] = 0

\* A pipe id that has not been given out is unused.
PipesInv ==
    \A p \in Pipes :
        p >= nextPipe => /\ pipes[p] = NoPipe /\ sent[p] = <<>> /\ out[p] = <<>>
                         /\ Holders(p, FALSE) = {}

\* Only a write that waits has written something, and less than it was asked to.
CallsInv ==
    \A t \in Programs :
        /\ call[t].kind # "write" => call[t].done = 0
        /\ call[t].kind = "write" => call[t].done < call[t].len

\* The inductive invariant behind the three properties.
DescriptorsInv ==
    TablesInv /\ PipesInv /\ CallsInv /\ EndsCounted /\ CallHoldsEnd /\ StreamIntact

\* pipe_close_end: "Closing the last write end unblocks readers (EOF); closing the
\* last read end unblocks writers (broken pipe)".
LastCloseUnblocks ==
    \A t \in Programs : \A p \in Pipes : \A w \in BOOLEAN :
        call[t].kind = (IF w THEN "write" ELSE "read") /\ call[t].id = p /\ Holders(p, ~w) = {}
            ~> call[t] = Idle
=============================================================================
