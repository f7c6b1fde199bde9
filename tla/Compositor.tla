----------------------------- MODULE Compositor -----------------------------
(***************************************************************************)
(* The compositor (compositor_task in kernel/src/gui.rs) over the window    *)
(* server's registry: it mirrors the registry into its own list of frames,  *)
(* handles the mouse, keeps the keyboard focus, forwards input to the       *)
(* focused client and repaints.                                             *)
(*                                                                          *)
(* It is a kernel task: the timer can switch away before each access to     *)
(* shared state, so each access (a section of STATE, a read of DIRTY, an    *)
(* access to the console or to the terminals' focus) is a step, together    *)
(* with the local computation after it.                                     *)
(*                                                                          *)
(* A mouse sample says whether the mouse has moved or clicked since the     *)
(* last one and whether the left button is down; the frame, button or title *)
(* under the pointer is a free choice.                                      *)
(***************************************************************************)
EXTENDS Wm

CONSTANTS
    Infos,             \* static windows at boot (2 in the code)
    MAX_TERMS,         \* terminal slots (4 in the code)
    MaxKeys            \* bound: keys ever typed

ASSUME CompositorAssumption ==
    /\ Infos \in Nat
    /\ MAX_TERMS \in Nat \ {0} /\ MaxKeys \in Nat

NoTerm    == 0
Terms     == 1..MAX_TERMS
Frame(k, n) == [kind |-> k, id |-> n]
Frames    == {Frame("info", n) : n \in 1..Infos} \cup {Frame("terminal", n) : n \in Terms}
             \cup {Frame("client", n) : n \in Ids}

VARIABLES
    scene,            \* windows: the frames, back to front
    focus,            \* index of the focused frame in scene, from 1 (1 if there is none)
    dragging,         \* a title bar is held
    prev_left,
    prev_left_client,
    focused_client,   \* the client told it has the focus, 0 for none
    mouse,            \* the sample of this round
    scene_dirty,
    at,               \* where the compositor is in its loop
    hand,             \* the id it has taken from a queue or is closing, 0 for none
    key,              \* the key it has read from the console, as typed (see console)
    todo,             \* client frames still to be blitted in this repaint
    console,          \* the console's input queue
    term_focus,       \* terminal::FOCUS
    machine,          \* "up" or "panic"
    screen,           \* history: the frames as last painted
    keys              \* keys typed so far

frameVars == <<scene, focus, dragging, prev_left, prev_left_client, focused_client, mouse,
               scene_dirty, at, hand, key, todo, term_focus, screen>>
vars == <<wmVars, frameVars, console, machine, keys>>

Points == {"take_new", "size", "tell_new", "take_destroy", "read_dirty",
           "mouse", "close", "close_destroy", "focus", "blur", "gain",
           "gain_flush", "read_key", "send_key", "pointer", "edge", "paint", "blit"}

TypeOK ==
    /\ WmTypeOK
    /\ scene \in Seq(Frames) /\ IsInjective(scene)
    /\ focus \in 1..(Cardinality(Frames) + 1)
    /\ {dragging, prev_left, prev_left_client, scene_dirty} \subseteq BOOLEAN
    /\ focused_client \in 0..MaxId /\ hand \in 0..MaxId
    /\ mouse \in [changed : BOOLEAN, left : BOOLEAN]
    /\ at \in Points
    /\ key \in 0..MaxId /\ todo \subseteq Ids /\ console \in Seq(0..MaxId)
    /\ term_focus \in {NoTerm} \cup Terms
    /\ machine \in {"up", "panic"}
    /\ screen \in Seq(Frames)
    /\ keys \in 0..MaxKeys

BootScene == [i \in 1..Infos |-> Frame("info", i)] \o <<Frame("terminal", 1)>>

Init ==
    /\ WmInit
    /\ scene = BootScene /\ focus = Len(BootScene) /\ screen = BootScene
    /\ dragging = FALSE /\ prev_left = FALSE /\ prev_left_client = FALSE
    /\ focused_client = 0
    /\ mouse = [changed |-> FALSE, left |-> FALSE]
    /\ scene_dirty = FALSE
    /\ at = "take_new" /\ hand = 0 /\ key = 0 /\ todo = {}
    /\ console = <<>> /\ keys = 0
    /\ term_focus = 1
    /\ machine = "up"

----------------------------------------------------------------------------
\* The frame list.

IsClient(i) == i \in DOMAIN scene /\ scene[i].kind = "client"
ClientsOf(s) == {w \in Ids : \E i \in DOMAIN s : s[i] = Frame("client", w)}
\* A terminal slot is taken and freed together with its frame.
Slots == {t \in Terms : \E i \in DOMAIN scene : scene[i] = Frame("terminal", t)}
Place(f) == CHOOSE i \in DOMAIN scene : scene[i] = f

\* windows.len().saturating_sub(1), counted from 1.
TopOf(s) == IF s = <<>> THEN 1 ELSE Len(s)

FocusOnTopFrame == scene # <<>> /\ focus = Len(scene)
TopTerm   == IF FocusOnTopFrame /\ scene[focus].kind = "terminal" THEN scene[focus].id ELSE NoTerm
TopClient == IF FocusOnTopFrame /\ scene[focus].kind = "client" THEN scene[focus].id ELSE 0

PushFrame(f) ==
    /\ scene' = Append(scene, f)
    /\ focus' = Len(scene) + 1
    /\ scene_dirty' = TRUE

\* Where the focus goes when the close button removes frame i.
FocusAfterCloseUnshifted(i) == IF i = focus THEN TopOf(RemoveAt(scene, i)) ELSE focus
FocusAfterClose(i) ==
    IF i = focus THEN TopOf(RemoveAt(scene, i))
    ELSE IF focus >= i THEN focus - 1
    ELSE focus

RemoveClosed(i) ==
    /\ scene' = RemoveAt(scene, i)
    /\ focus' = FocusAfterClose(i)
    /\ scene_dirty' = TRUE

Go(from, to) == machine = "up" /\ at = from /\ at' = to

\* UNCHANGED lists for steps that leave a whole area alone.
Registry  == <<pending_new, pending_destroy, next_id, ended, demo, demo_id>>
Arrangement == <<scene, focus, dragging>>
Buttons   == <<prev_left, prev_left_client, mouse>>
Keyboard  == <<console, key, keys, term_focus, focused_client>>
Painting  == <<screen, todo>>

----------------------------------------------------------------------------
\* One round of the compositor's loop.

\* take_pending_new.
TakeNew ==
    /\ \/ /\ pending_new # <<>> /\ Go("take_new", "size")
          /\ hand' = Head(pending_new) /\ pending_new' = Tail(pending_new)
       \/ /\ pending_new = <<>> /\ Go("take_new", "take_destroy")
          /\ UNCHANGED <<hand, pending_new>>
    /\ UNCHANGED <<windows, pending_destroy, next_id, dirty, ended, demo, demo_id, Arrangement,
                   Buttons, Keyboard, Painting, scene_dirty, machine>>

FrameNewUnchecked ==
    /\ Go("size", "tell_new")
    /\ PushFrame(Frame("client", hand))
    /\ UNCHANGED <<wmVars, dragging, Buttons, Keyboard, Painting, hand, machine>>

\* window_size_title: a window that has gone again gets no frame.
FrameNew ==
    /\ \/ /\ exists(hand) /\ Go("size", "tell_new")
          /\ PushFrame(Frame("client", hand))
          /\ hand' = hand
       \/ /\ ~exists(hand) /\ Go("size", "take_new")
          /\ hand' = 0
          /\ UNCHANGED <<scene, focus, scene_dirty>>
    /\ UNCHANGED <<wmVars, dragging, Buttons, Keyboard, Painting, machine>>

\* push_event of EV_FOCUS or EV_BLUR to window w.
SendNotice(w) == windows' = PushEvent(w, Notice)

TellNew ==
    /\ Go("tell_new", "take_new")
    /\ SendNotice(hand)
    /\ hand' = 0
    /\ UNCHANGED <<Registry, dirty, Arrangement, Buttons, Keyboard, Painting, scene_dirty, machine>>

\* take_pending_destroy, and the removal of the frame.
TakeDestroy ==
    /\ \/ /\ pending_destroy # <<>> /\ Go("take_destroy", "take_destroy")
          /\ pending_destroy' = Tail(pending_destroy)
          /\ LET w == Head(pending_destroy) IN
             IF w \in ClientsOf(scene)
               THEN /\ scene' = RemoveAt(scene, Place(Frame("client", w)))
                    /\ focus' = TopOf(scene')
                    /\ focused_client' = IF focused_client = w THEN 0 ELSE focused_client
                    /\ scene_dirty' = TRUE
               ELSE UNCHANGED <<scene, focus, focused_client, scene_dirty>>
       \/ /\ pending_destroy = <<>> /\ Go("take_destroy", "read_dirty")
          /\ UNCHANGED <<pending_destroy, scene, focus, focused_client, scene_dirty>>
    /\ UNCHANGED <<windows, pending_new, next_id, dirty, ended, demo, demo_id, dragging, Buttons,
                   hand, console, key, keys, term_focus, Painting, machine>>

\* wm::dirty() against last_wm_dirty.  The mouse sample, taken at the start of
\* the round and first used after this, is chosen here.
ReadDirty ==
    /\ Go("read_dirty", "mouse")
    /\ scene_dirty' = (scene_dirty \/ dirty)
    /\ dirty' = FALSE
    /\ mouse' \in [changed : BOOLEAN, left : BOOLEAN]
    /\ ~mouse'.changed => mouse'.left = mouse.left
    /\ UNCHANGED <<windows, Registry, Arrangement, prev_left, prev_left_client, Keyboard, Painting,
                   hand, machine>>

----------------------------------------------------------------------------
\* The mouse.  prev_left follows every sample that changed.

MouseStep(to) ==
    /\ Go("mouse", to)
    /\ mouse.changed
    /\ prev_left' = mouse.left

Pressed == mouse.left /\ ~prev_left

NoMouse ==
    /\ Go("mouse", "focus")
    /\ ~mouse.changed
    /\ UNCHANGED <<wmVars, Arrangement, Buttons, Keyboard, Painting, scene_dirty, hand, machine>>

\* windows.last_mut().unwrap(), moved; its unwrap fails when no frame is left.
Drag ==
    /\ dragging /\ mouse.left
    /\ \/ /\ scene # <<>>
          /\ MouseStep("focus")
          /\ scene_dirty' = TRUE
          /\ machine' = machine
       \/ /\ scene = <<>>
          /\ MouseStep("mouse")
          /\ machine' = "panic"
          /\ scene_dirty' = scene_dirty
    /\ UNCHANGED <<wmVars, Arrangement, prev_left_client, mouse, Keyboard, Painting, hand>>

Drop ==
    /\ dragging /\ ~mouse.left
    /\ MouseStep("focus")
    /\ dragging' = FALSE
    /\ UNCHANGED <<wmVars, scene, focus, prev_left_client, mouse, Keyboard, Painting,
                   scene_dirty, hand, machine>>

\* The "+ Terminal" button, with a free slot.
NewTerminal ==
    /\ ~dragging /\ Pressed
    /\ MouseStep("focus")
    /\ \E t \in Terms \ Slots :
          /\ \A u \in Terms \ Slots : t <= u
          /\ PushFrame(Frame("terminal", t))
    /\ UNCHANGED <<wmVars, dragging, prev_left_client, mouse, console, key, keys,
                   term_focus, focused_client, Painting, hand, machine>>

\* A press or release that hits nothing, or the button with no slot free.
MouseElsewhere ==
    /\ ~dragging
    /\ MouseStep("focus")
    /\ UNCHANGED <<wmVars, Arrangement, prev_left_client, mouse, Keyboard, Painting,
                   scene_dirty, hand, machine>>

\* The close button of a frame that is not a client's.
CloseOwn ==
    /\ ~dragging /\ Pressed
    /\ MouseStep("focus")
    /\ \E i \in DOMAIN scene :
          /\ ~IsClient(i)
          /\ RemoveClosed(i)
    /\ UNCHANGED <<wmVars, dragging, prev_left_client, mouse, console, key, keys,
                   term_focus, focused_client, Painting, hand, machine>>

\* The close button of a client's frame: first EV_CLOSE ...
CloseClient ==
    /\ ~dragging /\ Pressed
    /\ MouseStep("close")
    /\ \E i \in DOMAIN scene : IsClient(i) /\ hand' = scene[i].id
    /\ UNCHANGED <<wmVars, Arrangement, prev_left_client, mouse, Keyboard, Painting,
                   scene_dirty, machine>>

SendClose ==
    /\ Go("close", "close_destroy")
    /\ windows' = PushEvent(hand, Close)
    /\ UNCHANGED <<Registry, dirty, Arrangement, Buttons, Keyboard, Painting, scene_dirty, hand,
                   machine>>

\* ... then destroy_window with its bump of DIRTY, and the frame goes.
CloseDestroy ==
    /\ \/ /\ exists(hand) /\ DestroyWindow(hand) /\ dirty' = TRUE
       \/ ~exists(hand) /\ UNCHANGED <<windows, pending_destroy, dirty>>
    /\ Go("close_destroy", "focus")
    /\ focused_client' = IF focused_client = hand THEN 0 ELSE focused_client
    /\ RemoveClosed(Place(Frame("client", hand)))
    /\ hand' = 0
    /\ UNCHANGED <<pending_new, next_id, ended, demo, demo_id, dragging, Buttons, console,
                   key, keys, term_focus, Painting, machine>>

\* A press on a frame raises it; on its title bar it starts a drag.
Raise ==
    /\ ~dragging /\ Pressed
    /\ MouseStep("focus")
    /\ \E i \in DOMAIN scene :
          /\ scene' = Append(RemoveAt(scene, i), scene[i])
          /\ focus' = Len(scene)
    /\ scene_dirty' = TRUE
    /\ dragging' \in BOOLEAN
    /\ UNCHANGED <<wmVars, prev_left_client, mouse, Keyboard, Painting, hand, machine>>

----------------------------------------------------------------------------
\* Keyboard focus and routing.

\* terminal::set_focus when the terminal on top has changed, and the flush.
SetTermFocus ==
    /\ Go("focus", "blur")
    /\ term_focus' = TopTerm
    /\ console' = IF TopTerm # term_focus THEN <<>> ELSE console
    /\ UNCHANGED <<wmVars, Arrangement, Buttons, key, keys, focused_client,
                   Painting, scene_dirty, hand, machine>>

\* Where the routing goes once the focus is settled on client w.
Routed(w) == IF w # 0 THEN "read_key" ELSE "paint"

\* The client that loses the focus is told first.
SendBlur ==
    /\ \/ /\ TopClient = focused_client /\ Go("blur", Routed(TopClient))
          /\ windows' = windows
       \/ /\ TopClient # focused_client /\ Go("blur", "gain")
          /\ IF focused_client # 0 THEN SendNotice(focused_client)
                                   ELSE windows' = windows
    /\ UNCHANGED <<Registry, dirty, Arrangement, Buttons, Keyboard, Painting, scene_dirty, hand,
                   machine>>

\* Then the one that gains it.
SendFocus ==
    /\ \/ /\ TopClient # 0 /\ Go("gain", "gain_flush")
          /\ SendNotice(TopClient)
          /\ focused_client' = focused_client
       \/ /\ TopClient = 0 /\ Go("gain", "paint")
          /\ focused_client' = 0
          /\ windows' = windows
    /\ UNCHANGED <<Registry, dirty, Arrangement, Buttons, console, key, keys, term_focus,
                   Painting, scene_dirty, hand, machine>>

FlushForClientUnflushed ==
    /\ Go("gain_flush", "read_key")
    /\ focused_client' = TopClient
    /\ UNCHANGED <<wmVars, Arrangement, Buttons, console, key, keys, term_focus, Painting,
                   scene_dirty, hand, machine>>

\* Keys typed before the focus arrived are dropped.
FlushForClient ==
    /\ Go("gain_flush", "read_key")
    /\ console' = <<>>
    /\ focused_client' = TopClient
    /\ UNCHANGED <<wmVars, Arrangement, Buttons, key, keys, term_focus, Painting,
                   scene_dirty, hand, machine>>

ReadKey ==
    /\ \/ /\ console # <<>> /\ Go("read_key", "send_key")
          /\ key' = Head(console) /\ console' = Tail(console)
       \/ /\ console = <<>> /\ Go("read_key", "pointer")
          /\ UNCHANGED <<key, console>>
    /\ UNCHANGED <<wmVars, Arrangement, Buttons, keys, term_focus, focused_client, Painting,
                   scene_dirty, hand, machine>>

SendKey ==
    /\ Go("send_key", "read_key")
    /\ windows' = PushEvent(TopClient, Key(key))
    /\ key' = 0
    /\ UNCHANGED <<Registry, dirty, Arrangement, Buttons, console, keys, term_focus,
                   focused_client, Painting, scene_dirty, hand, machine>>

\* EV_MOUSE_MOVE when the pointer is in the client area, and then an edge if
\* the button is not as this client's last sample had it.
SendPointer ==
    /\ \/ /\ mouse.changed
          /\ Go("pointer", IF mouse.left # prev_left_client THEN "edge" ELSE "paint")
          /\ windows' = PushEvent(TopClient, Notice)
       \/ Go("pointer", "paint") /\ windows' = windows
    /\ prev_left_client' = mouse.left
    /\ UNCHANGED <<Registry, dirty, Arrangement, prev_left, mouse, Keyboard, Painting,
                   scene_dirty, hand, machine>>

SendEdge ==
    /\ Go("edge", "paint")
    /\ windows' = PushEvent(TopClient, Notice)
    /\ UNCHANGED <<Registry, dirty, Arrangement, Buttons, Keyboard, Painting, scene_dirty, hand,
                   machine>>

----------------------------------------------------------------------------
\* Painting.

\* What is left of the round when the clients q are still to be blitted.
Blitting(q) ==
    /\ todo' = q
    /\ at' = IF q = {} THEN "take_new" ELSE "blit"

PaintClearsDirty ==
    /\ machine = "up" /\ at = "paint"
    /\ \/ screen' = scene /\ Blitting(ClientsOf(scene))
       \/ ~scene_dirty /\ screen' = screen /\ Blitting({})
    /\ scene_dirty' = FALSE /\ dirty' = FALSE
    /\ mouse' = [mouse EXCEPT !.changed = FALSE]
    /\ UNCHANGED <<windows, Registry, Arrangement, prev_left, prev_left_client, Keyboard, hand,
                   machine>>

\* The whole scene when it is dirty, or when terminal output needs it; a
\* terminal or the cursor alone leaves the rest of the screen as it is.  Then
\* the round is over but for the blits, and its local flags are done with.
Paint ==
    /\ machine = "up" /\ at = "paint"
    /\ \/ screen' = scene /\ Blitting(ClientsOf(scene))
       \/ ~scene_dirty /\ screen' = screen /\ Blitting({})
    /\ scene_dirty' = FALSE
    /\ mouse' = [mouse EXCEPT !.changed = FALSE]
    /\ UNCHANGED <<wmVars, Arrangement, prev_left, prev_left_client, Keyboard, hand, machine>>

\* with_pixels for one client frame after the other, back to front.
Blit ==
    /\ machine = "up" /\ at = "blit"
    /\ \E w \in todo :
          /\ \A v \in todo : Place(Frame("client", w)) <= Place(Frame("client", v))
          /\ windows' = IF exists(w) THEN [windows EXCEPT ![w].shown = TRUE] ELSE windows
          /\ Blitting(todo \ {w})
    /\ UNCHANGED <<Registry, dirty, Arrangement, Buttons, Keyboard, screen, scene_dirty, hand,
                   machine>>

CompositorStep ==
    \/ TakeNew \/ FrameNew \/ TellNew \/ TakeDestroy \/ ReadDirty
    \/ NoMouse \/ Drag \/ Drop \/ NewTerminal \/ MouseElsewhere \/ CloseOwn \/ CloseClient
    \/ SendClose \/ CloseDestroy \/ Raise
    \/ SetTermFocus \/ SendBlur \/ SendFocus \/ FlushForClient
    \/ ReadKey \/ SendKey \/ SendPointer \/ SendEdge \/ Paint \/ Blit

----------------------------------------------------------------------------
\* The others: programs, the demo client, the keyboard and the shells.

ProgramStep ==
    /\ machine = "up"
    /\ \E p \in Programs \ ended :
          \/ SysWinCreate(p) \/ SysExit(p)
          \/ \E w \in {v \in DOMAIN windows : windows[v].owner = p} :
                SysWinCommit(p, w) \/ SysWinPoll(p, w) \/ SysWinDestroy(p, w)
    /\ UNCHANGED <<frameVars, console, machine, keys>>

DemoClientStep ==
    /\ machine = "up"
    /\ DemoStep
    /\ UNCHANGED <<frameVars, console, machine, keys>>

\* The keyboard driver queues a key, remembered with the client that has the focus.
TypeKey ==
    /\ machine = "up"
    /\ keys < MaxKeys
    /\ keys' = keys + 1
    /\ console' = Append(console, focused_client)
    /\ UNCHANGED <<wmVars, frameVars, machine>>

\* A shell drains the console; it may have looked at the focus long before.
ShellReads ==
    /\ machine = "up"
    /\ console # <<>>
    /\ console' = Tail(console)
    /\ UNCHANGED <<wmVars, frameVars, machine, keys>>

\* A halted machine stays so.
Halted == machine # "up" /\ UNCHANGED vars

Next == CompositorStep \/ ProgramStep \/ DemoClientStep \/ TypeKey \/ ShellReads
        \/ Halted

Spec == Init /\ [][Next]_vars

----------------------------------------------------------------------------
\* Properties.

\* The compositor's list mirrors the registry (gui.rs, "mirror those changes
\* into the compositor's own Window list"): a window without a frame is still
\* announced in pending_new or is the one in hand, and a frame without a window
\* is one whose end is announced in pending_destroy or is being closed.  No queue,
\* list or index outgrows its limit meanwhile.
SceneMirrorsRegistry ==
    /\ TypeOK
    /\ DOMAIN windows \ ClientsOf(scene)
         \subseteq {pending_new[i] : i \in DOMAIN pending_new} \cup {hand}
    /\ ClientsOf(scene) \ DOMAIN windows
         \subseteq {pending_destroy[i] : i \in DOMAIN pending_destroy} \cup {hand}

\* "the focused window is always last (top)" (gui.rs, draw_desktop), through
\* every order of new windows, vanished windows, raises and closed frames.
FocusIsTop == scene # <<>> => focus = Len(scene)

\* No change of the desktop is missed.  As long as the screen does not have the frames
\* of the scene in their order, this round will repaint it; and as long as a framed window's pixels are not on the
\* screen, DIRTY has moved or will (its client has yet to bump it), or this
\* round repaints and has the window still ahead.
NoLostRepaint ==
    /\ screen # scene => scene_dirty
    /\ \A w \in {v \in ClientsOf(scene) : exists(v) /\ ~windows[v].shown} :
          \/ dirty
          \/ demo \in {"bump_create", "bump_commit"} /\ w = demo_id
          \/ at = "blit" /\ w \in todo
          \/ scene_dirty

\* "Drop any stale keystrokes so they do not leak to the client" (gui.rs): a
\* key a client finds in its queue was typed while that client had the focus.
KeysNotLeaked ==
    \A w \in DOMAIN windows : \A i \in DOMAIN windows[w].events :
       LET ev == windows[w].events[i] IN ev[1] = "key" => ev = Key(w)

\* What these invariants rest on.  Where the compositor is tells what it has in hand.
Elems(q) == {q[i] : i \in DOMAIN q}
Announced == Elems(pending_new) \cup (IF at = "size" THEN {hand} ELSE {})

HandInv ==
    /\ hand # 0 <=> at \in {"size", "tell_new", "close", "close_destroy"}
    /\ at \in {"tell_new", "close", "close_destroy"} => hand \in ClientsOf(scene)

\* Ids are never given out twice, so a new window is announced once, before it has
\* a frame, and an announced end is final.
IdsInv ==
    /\ \A w \in DOMAIN windows \cup ClientsOf(scene) \cup Announced \cup Elems(pending_destroy) : w < next_id
    /\ IsInjective(pending_new)
    /\ Announced \cap ClientsOf(scene) = {}
    /\ at = "size" => hand \notin Elems(pending_new)
    /\ Elems(pending_destroy) \cap DOMAIN windows = {}

MirrorInv ==
    /\ DOMAIN windows \subseteq ClientsOf(scene) \cup Announced
    /\ ClientsOf(scene) \subseteq DOMAIN windows \cup Elems(pending_destroy)

\* From the flush on, the console has only keys for the client with the focus.
RoutingInv ==
    /\ focused_client # 0 => \A i \in DOMAIN console : console[i] = focused_client
    /\ at \in {"read_key", "send_key", "pointer", "edge"} => focused_client # 0 /\ TopClient = focused_client
    /\ at = "send_key" => key = focused_client
    /\ at = "gain_flush" => TopClient # 0

CompositorInv ==
    /\ TypeOK /\ focus = TopOf(scene)
    /\ HandInv /\ IdsInv /\ MirrorInv /\ RoutingInv
    /\ NoLostRepaint /\ KeysNotLeaked
=============================================================================
