--------------------------------- MODULE Wm ---------------------------------
(***************************************************************************)
(* The window server's registry (kernel/src/wm.rs) and its clients: user    *)
(* programs through the SYS_WIN_* calls, and the built-in demo client, a    *)
(* kernel task (client_demo_task in gui.rs).                                *)
(*                                                                          *)
(* Every operation is one section under the STATE spin lock.  A program's   *)
(* call runs with interrupts off and is one step with the bump of DIRTY     *)
(* after it; the demo client can be preempted between its section and the   *)
(* bump.  Contention for the lock itself is not part of this model.         *)
(*                                                                          *)
(* DIRTY is only ever compared with the compositor's last reading, so it is *)
(* the fact that it has moved since.  Geometry, titles and pixels are left  *)
(* out.                                                                     *)
(***************************************************************************)
EXTENDS Integers, Sequences, SequencesExt, FiniteSets

CONSTANTS
    Programs,          \* user tasks with windows
    Demo,              \* the demo client
    MAX_WINDOWS,       \* 16 in the code
    EVENT_QUEUE_CAP,   \* 64 in the code
    MaxId              \* bound: window ids ever given out

ASSUME WmAssumption ==
    /\ Demo \notin Programs
    /\ MAX_WINDOWS \in Nat /\ EVENT_QUEUE_CAP \in Nat \ {0} /\ MaxId \in Nat

Ids     == 1..MaxId
Clients == Programs \cup {Demo}

\* WmEvent: EV_CLOSE, a key with the client that had the focus when it was
\* typed (a history value, see Compositor), or one of the events no client
\* acts upon (the mouse's, EV_FOCUS and EV_BLUR).
Close     == <<"close", 0>>
Notice    == <<"notice", 0>>
Key(w)    == <<"key", w>>
Events    == {Close, Notice} \cup {Key(w) : w \in 0..MaxId}

\* A new window of task t.  shown is a history: its last committed pixels are on
\* the screen.
NewWindow(t) == [owner |-> t, events |-> <<>>, shown |-> FALSE]

Windows == [owner : Clients, events : Seq(Events), shown : BOOLEAN]

VARIABLES
    windows,          \* WmState.windows: a function on the ids in use
    pending_new,
    pending_destroy,
    next_id,          \* NEXT_ID
    dirty,            \* DIRTY has moved since the compositor read it
    ended,            \* the clients that have exited
    demo,             \* where the demo client is
    demo_id           \* its window, 0 before it has one

wmVars == <<windows, pending_new, pending_destroy, next_id, dirty, ended, demo, demo_id>>

DemoPoints == {"create", "bump_create", "check", "commit", "bump_commit", "poll",
               "destroy", "bump_destroy", "exit", "gone"}

WmTypeOK ==
    /\ DOMAIN windows \subseteq Ids
    /\ Cardinality(DOMAIN windows) <= MAX_WINDOWS
    /\ windows \in [DOMAIN windows -> Windows]
    /\ \A w \in DOMAIN windows : Len(windows[w].events) <= EVENT_QUEUE_CAP
    /\ pending_new \in Seq(Ids) /\ pending_destroy \in Seq(Ids)
    /\ next_id \in 1..(MaxId + 1)
    /\ dirty \in BOOLEAN
    /\ ended \subseteq Clients
    /\ demo \in DemoPoints /\ demo_id \in 0..MaxId

WmInit ==
    /\ windows = <<>>
    /\ pending_new = <<>> /\ pending_destroy = <<>>
    /\ next_id = 1
    /\ dirty = FALSE
    /\ ended = {}
    /\ demo = "create" /\ demo_id = 0

----------------------------------------------------------------------------
\* The registry's operations, as the value windows has after them.

exists(w) == w \in DOMAIN windows

Without(ws) == [w \in DOMAIN windows \ ws |-> windows[w]]

\* push_event: a full queue loses its oldest event; no window, no event.
PushEvent(w, ev) ==
    IF exists(w)
      THEN LET q == windows[w].events
               kept == IF Len(q) >= EVENT_QUEUE_CAP THEN Tail(q) ELSE q
           IN  [windows EXCEPT ![w].events = Append(kept, ev)]
      ELSE windows

\* poll_event on a window that has one.
PollEvent(w) == [windows EXCEPT ![w].events = Tail(@)]

\* commit: the pixels are no longer the ones on the screen.
Commit(w) == [windows EXCEPT ![w].shown = FALSE]

\* create_window for owner t, within its limit.
CreateWindow(t) ==
    /\ Cardinality(DOMAIN windows) < MAX_WINDOWS
    /\ next_id <= MaxId
    /\ windows' = [w \in DOMAIN windows \cup {next_id} |->
                      IF w = next_id THEN NewWindow(t) ELSE windows[w]]
    /\ pending_new' = Append(pending_new, next_id)
    /\ next_id' = next_id + 1

\* destroy_window, for a window that exists.
DestroyWindow(w) ==
    /\ windows' = Without({w})
    /\ pending_destroy' = Append(pending_destroy, w)

\* The ids in S in the order of the map.
InOrder(S) ==
    {q \in [1..Cardinality(S) -> S] :
        /\ \A i, j \in DOMAIN q : i < j => q[i] < q[j]
        /\ S = {q[i] : i \in DOMAIN q}}

\* do_exit of client t: destroy_windows_owned_by, in the order of the map.
Exit(t) ==
    LET owned == {w \in DOMAIN windows : windows[w].owner = t}
    IN  /\ ended' = ended \cup {t}
        /\ windows' = Without(owned)
        /\ \E q \in InOrder(owned) : pending_destroy' = pending_destroy \o q
        /\ dirty' = (dirty \/ owned # {})

----------------------------------------------------------------------------
\* System calls of a running program p; w is a window it owns.

SysWinCreate(p) ==
    /\ CreateWindow(p)
    /\ dirty' = TRUE
    /\ UNCHANGED <<pending_destroy, ended, demo, demo_id>>

SysWinCommit(p, w) ==
    /\ windows' = Commit(w)
    /\ dirty' = TRUE
    /\ UNCHANGED <<pending_new, pending_destroy, next_id, ended, demo, demo_id>>

SysWinPoll(p, w) ==
    /\ windows[w].events # <<>>
    /\ windows' = PollEvent(w)
    /\ UNCHANGED <<pending_new, pending_destroy, next_id, dirty, ended, demo, demo_id>>

SysWinDestroy(p, w) ==
    /\ DestroyWindow(w)
    /\ dirty' = TRUE
    /\ UNCHANGED <<pending_new, next_id, ended, demo, demo_id>>

SysExit(p) ==
    /\ Exit(p)
    /\ UNCHANGED <<pending_new, next_id, demo, demo_id>>

----------------------------------------------------------------------------
\* The demo client: one section or one bump per step.

DemoGo(from, to) == demo = from /\ demo' = to

\* create_window; with no room the task exits.
DemoCreate ==
    \/ /\ DemoGo("create", "bump_create")
       /\ CreateWindow(Demo)
       /\ demo_id' = next_id
       /\ UNCHANGED <<pending_destroy, dirty, ended>>
    \/ /\ DemoGo("create", "exit")
       /\ Cardinality(DOMAIN windows) >= MAX_WINDOWS
       /\ UNCHANGED <<windows, pending_new, pending_destroy, next_id, dirty, ended, demo_id>>

DemoBump ==
    /\ \/ DemoGo("bump_create", "check")
       \/ DemoGo("bump_commit", "poll")
       \/ DemoGo("bump_destroy", "exit")
    /\ dirty' = TRUE
    /\ UNCHANGED <<windows, pending_new, pending_destroy, next_id, ended, demo_id>>

DemoCheck ==
    /\ \/ exists(demo_id) /\ DemoGo("check", "commit")
       \/ ~exists(demo_id) /\ DemoGo("check", "exit")
    /\ UNCHANGED <<windows, pending_new, pending_destroy, next_id, dirty, ended, demo_id>>

\* commit into a window that has gone returns false, which the task ignores.
DemoCommit ==
    /\ \/ exists(demo_id) /\ DemoGo("commit", "bump_commit") /\ windows' = Commit(demo_id)
       \/ ~exists(demo_id) /\ DemoGo("commit", "poll") /\ windows' = windows
    /\ UNCHANGED <<pending_new, pending_destroy, next_id, dirty, ended, demo_id>>

DemoPoll ==
    LET got == exists(demo_id) /\ windows[demo_id].events # <<>>
        close == got /\ Head(windows[demo_id].events) = Close
    IN  /\ \/ ~got /\ DemoGo("poll", "check") /\ windows' = windows
           \/ got /\ ~close /\ DemoGo("poll", "poll") /\ windows' = PollEvent(demo_id)
           \/ close /\ DemoGo("poll", "destroy") /\ windows' = PollEvent(demo_id)
        /\ UNCHANGED <<pending_new, pending_destroy, next_id, dirty, ended, demo_id>>

DemoDestroy ==
    /\ \/ exists(demo_id) /\ DemoGo("destroy", "bump_destroy") /\ DestroyWindow(demo_id)
       \/ ~exists(demo_id) /\ DemoGo("destroy", "exit") /\ UNCHANGED <<windows, pending_destroy>>
    /\ UNCHANGED <<pending_new, next_id, dirty, ended, demo_id>>

DemoExit ==
    /\ DemoGo("exit", "gone")
    /\ Exit(Demo)
    /\ UNCHANGED <<pending_new, next_id, demo_id>>

DemoStep == DemoCreate \/ DemoBump \/ DemoCheck \/ DemoCommit \/ DemoPoll \/ DemoDestroy \/ DemoExit
=============================================================================
