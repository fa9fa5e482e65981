---------------------------- MODULE WaylandCapture ----------------------------
(***************************************************************************)
(* The capture of pointer and keyboard on Wayland (input/platform/         *)
(* wayland.rs).  A thin surface lies along each edge of the screen.  A     *)
(* pointer that enters one has the capture thread ask the compositor for a *)
(* lock of the pointer and for the keyboard; a movement outward turns the  *)
(* lock into a capture, one inward, or 750 ms, gives it up.                *)
(*                                                                         *)
(* The thread shares two atomics and a queue with the loop of the cursor   *)
(* service (input/mod.rs), which takes its events in their order, later,   *)
(* and releases the capture without a word of which capture it means.  The *)
(* compositor and the users are outside; what CursorSession has of the     *)
(* loop, its messages and timers, is a choice here.                        *)
(***************************************************************************)
EXTENDS Naturals, Sequences, FiniteSets

CONSTANTS
  Edge,     \* the edges of the screen
  None,     \* Rust's Option::None
  Budgets   \* scenarios: how often users, peers and the compositor may do what

\* A user moves outward, uses what is captured, or touches a device that a peer
\* uses; the compositor takes a lock away; a peer's pointer enters.
EnvironmentKind == {"outward", "input", "touch", "unlock", "enter"}

ASSUME NoneAssumption == None \notin Edge
ASSUME BudgetsAssumption == Budgets \subseteq [EnvironmentKind -> Nat]

MaybeEdge == Edge \cup {None}

\* CaptureEvent; Pointer and Keyboard are "input".
CaptureEvent == [kind : {"begin"}, edge : Edge] \cup [kind : {"input", "localInput", "captureLost"}]

VARIABLES
  state,          \* the CaptureState of the capture thread
  active,         \* atomic: the capture has not been released
  allowed_edges,  \* atomic: the edges that may be captured
  events,         \* the queue of CaptureEvents
  over,           \* compositor: the edge surface the pointer is on
  outgoing,       \* the loop: it lends what is captured to a peer
  incoming,       \* the loop: the edge over which a peer's pointer came in
  spent           \* how often the environment has done what

shared == <<active, allowed_edges>>
session == <<outgoing, incoming>>
vars == <<state, shared, events, over, session, spent>>

CaptureState ==
  [layers : SUBSET Edge,          \* the surfaces that have not been closed
   exclusive : SUBSET Edge,       \* those that own the keyboard
   pointer : BOOLEAN,
   locked_pointer : BOOLEAN,      \* there is a lock object
   hovered : MaybeEdge,
   pending_edge : MaybeEdge,
   locked_edge : MaybeEdge,
   lock_activated : BOOLEAN,
   lock_requested_at : BOOLEAN,   \* IDLE_LOCK_TIMEOUT runs
   current_edge : MaybeEdge]

TypeOK ==
  /\ state \in CaptureState
  /\ active \in BOOLEAN
  /\ allowed_edges \subseteq Edge
  /\ events \in Seq(CaptureEvent)
  /\ over \in MaybeEdge
  /\ outgoing \in BOOLEAN
  /\ incoming \in MaybeEdge
  /\ spent \in [EnvironmentKind -> Nat]

\* The loop allows no edge before it knows of a peer.
Init ==
  /\ state = [layers |-> Edge, exclusive |-> {}, pointer |-> TRUE, locked_pointer |-> FALSE,
              hovered |-> None, pending_edge |-> None, locked_edge |-> None,
              lock_activated |-> FALSE, lock_requested_at |-> FALSE, current_edge |-> None]
  /\ active = FALSE
  /\ allowed_edges = {}
  /\ events = <<>>
  /\ over = None
  /\ outgoing = FALSE
  /\ incoming = None
  /\ spent = [kind \in EnvironmentKind |-> 0]

Spend(kind) ==
  /\ spent' = [spent EXCEPT ![kind] = @ + 1]
  /\ \E b \in Budgets : \A k \in EnvironmentKind : spent'[k] <= b[k]

----------------------------------------------------------------------------
(* What the handlers of the capture thread are made of *)

IsCapturing == state.current_edge # None

constraint_edge(s) ==
  IF s.current_edge # None THEN s.current_edge
  ELSE IF s.locked_edge # None THEN s.locked_edge
  ELSE s.pending_edge

\* Mutant: the keyboard stays with the edge.
reset_lock_alone(s) ==
  [s EXCEPT !.pending_edge = None, !.locked_edge = None, !.lock_activated = FALSE,
            !.lock_requested_at = FALSE, !.locked_pointer = FALSE]

\* The lock is destroyed and the edge gives the keyboard back.
reset_lock(s) ==
  [s EXCEPT !.pending_edge = None, !.locked_edge = None, !.lock_activated = FALSE,
            !.lock_requested_at = FALSE, !.locked_pointer = FALSE,
            !.exclusive = @ \ {constraint_edge(s)}]

\* One lock at a time, on an edge that is allowed and still has its surface.
MayRequest(s, e) ==
  /\ s.current_edge = None /\ s.pending_edge = None /\ s.locked_edge = None
  /\ e \in allowed_edges
  /\ s.pointer /\ e \in s.layers

\* The edge counts as locked at once, whether or not the compositor says so.
request_lock(s, e) ==
  IF MayRequest(s, e)
  THEN [s EXCEPT !.exclusive = @ \cup {e}, !.locked_pointer = TRUE, !.pending_edge = e,
                 !.locked_edge = e, !.lock_activated = FALSE, !.lock_requested_at = TRUE]
  ELSE s

begin_capture(s, e) ==
  [s EXCEPT !.exclusive = @ \cup {e}, !.current_edge = e, !.lock_requested_at = FALSE]

----------------------------------------------------------------------------
(* The capture thread: events of the compositor *)

Becomes(s) == state' = s /\ UNCHANGED session
Quietly == UNCHANGED <<shared, events, spent>>
Says(kind) == events' = Append(events, [kind |-> kind])

\* The pointer enters the surface of an edge.
PointerEnter(e) ==
  /\ state.pointer /\ over = None /\ e \in state.layers
  /\ over' = e
  /\ Becomes(request_lock([state EXCEPT !.hovered = e], e))
  /\ Quietly

PointerLeave ==
  /\ over # None
  /\ over' = None
  /\ Becomes(IF IsCapturing THEN state
             ELSE IF state.lock_activated THEN [state EXCEPT !.hovered = None]
             ELSE reset_lock([state EXCEPT !.hovered = None]))
  /\ Quietly

\* The edge a movement that is not captured is about.
MovedEdge == IF constraint_edge(state) # None THEN constraint_edge(state) ELSE state.hovered
Moves == state.pointer /\ over # None /\ ~IsCapturing /\ MovedEdge # None

Activates == active' = TRUE

\* A movement outward begins the capture of an edge that is locked, and is the
\* first input of it ...
OutwardBegins ==
  /\ Moves /\ state.locked_edge = MovedEdge /\ MovedEdge \in state.layers
  /\ Becomes(begin_capture(state, MovedEdge))
  /\ Activates
  /\ events' = events \o <<[kind |-> "begin", edge |-> MovedEdge], [kind |-> "input"]>>
  /\ Spend("outward")
  /\ UNCHANGED <<allowed_edges, over>>

\* ... unless the compositor has closed its surface; of another edge it asks for
\* the lock.
OutwardLocks ==
  /\ Moves /\ state.locked_edge # MovedEdge
  /\ Becomes(request_lock(state, MovedEdge))
  /\ Quietly /\ UNCHANGED over

OutwardOfNoSurface ==
  /\ Moves /\ state.locked_edge = MovedEdge /\ MovedEdge \notin state.layers
  /\ Becomes(reset_lock(state))
  /\ Quietly /\ UNCHANGED over

Inward ==
  /\ Moves /\ state.locked_edge = MovedEdge
  /\ Becomes(reset_lock(state))
  /\ Quietly /\ UNCHANGED over

\* A movement, a button, an axis or a key that is captured.
InputCaptured ==
  /\ IsCapturing
  /\ Says("input")
  /\ Spend("input")
  /\ UNCHANGED <<state, shared, over, session>>

Locked ==
  /\ state.locked_pointer /\ state.pending_edge # None
  /\ Becomes([state EXCEPT !.locked_edge = state.pending_edge, !.pending_edge = None,
                           !.lock_activated = TRUE])
  /\ Quietly /\ UNCHANGED over

\* What is left of a capture whose lock is taken away.
Freed(s) == [reset_lock(s) EXCEPT !.current_edge = None]

\* The compositor takes the lock away: a window over the edge, a locked screen.
Unlocked ==
  /\ state.locked_pointer
  /\ Becomes(Freed(state))
  /\ IF IsCapturing
     THEN active' = FALSE /\ Says("captureLost") /\ UNCHANGED allowed_edges
     ELSE UNCHANGED <<shared, events>>
  /\ Spend("unlock")
  /\ UNCHANGED over

\* A surface that is closed, with its output, is not made again.
Closed(e) ==
  /\ e \in state.layers
  /\ Becomes([state EXCEPT !.layers = @ \ {e}, !.exclusive = @ \ {e}])
  /\ over' = IF over = e THEN None ELSE over
  /\ Quietly

\* A mouse that is unplugged; its lock is not looked at.
PointerRemoved ==
  /\ state.pointer
  /\ Becomes([state EXCEPT !.pointer = FALSE])
  /\ over' = None
  /\ Quietly

PointerAdded ==
  /\ ~state.pointer
  /\ Becomes([state EXCEPT !.pointer = TRUE])
  /\ Quietly /\ UNCHANGED over

Compositor ==
  \/ \E e \in Edge : PointerEnter(e) \/ Closed(e)
  \/ PointerLeave \/ OutwardBegins \/ OutwardLocks \/ OutwardOfNoSurface \/ Inward
  \/ InputCaptured \/ Locked \/ Unlocked \/ PointerRemoved \/ PointerAdded

----------------------------------------------------------------------------
(* The capture thread: sync_release, in every turn of its loop *)

SyncReleased ==
  /\ IsCapturing /\ ~active
  /\ Becomes(reset_lock([state EXCEPT !.current_edge = None,
                                      !.exclusive = @ \ {state.current_edge}]))
  /\ Quietly /\ UNCHANGED over

SyncDisallowed ==
  /\ ~IsCapturing
  /\ constraint_edge(state) # None /\ constraint_edge(state) \notin allowed_edges
  /\ Becomes(reset_lock(state))
  /\ Quietly /\ UNCHANGED over

\* Mutant: a lock that was not activated does not time out.
IdlesActivated == state.lock_requested_at /\ state.lock_activated
Idles == state.lock_requested_at

\* After IDLE_LOCK_TIMEOUT.
SyncIdle ==
  /\ ~IsCapturing /\ Idles
  /\ Becomes(reset_lock(state))
  /\ Quietly /\ UNCHANGED over

sync_release == SyncReleased \/ SyncDisallowed \/ SyncIdle

----------------------------------------------------------------------------
(* The loop of the cursor service, and the monitor of /dev/input *)

NextIs(kind) == events # <<>> /\ Head(events).kind = kind
Takes == events' = Tail(events) /\ UNCHANGED <<state, over, spent>>
Goes == UNCHANGED <<state, events, over>>

release == active' = FALSE
allow_all_edges == allowed_edges' = Edge

\* The user pushes a peer's pointer home.
BeginReturns ==
  /\ NextIs("begin") /\ incoming = Head(events).edge
  /\ incoming' = None /\ UNCHANGED outgoing
  /\ release /\ allow_all_edges
  /\ Takes

BeginIgnored ==
  /\ NextIs("begin") /\ incoming # Head(events).edge
  /\ outgoing \/ incoming # None
  /\ UNCHANGED <<session, shared>>
  /\ Takes

\* Mutant: what is captured for nobody is not released.
releaseNobody == UNCHANGED active
releaseUnwanted == release

BeginNobody ==
  /\ NextIs("begin") /\ ~outgoing /\ incoming = None
  /\ releaseUnwanted
  /\ UNCHANGED <<session, allowed_edges>>
  /\ Takes

BeginLends ==
  /\ NextIs("begin") /\ ~outgoing /\ incoming = None
  /\ outgoing' = TRUE
  /\ UNCHANGED <<incoming, shared>>
  /\ Takes

InputTaken ==
  /\ NextIs("input")
  /\ UNCHANGED <<session, shared>>
  /\ Takes

\* Back across the edge.
InputReturns ==
  /\ NextIs("input") /\ outgoing
  /\ outgoing' = FALSE
  /\ release
  /\ UNCHANGED <<incoming, allowed_edges>>
  /\ Takes

LostTaken ==
  /\ NextIs("captureLost")
  /\ outgoing' = FALSE /\ incoming' = None
  /\ release /\ allow_all_edges
  /\ Takes

LocalInputTaken ==
  /\ NextIs("localInput")
  /\ IF incoming = None THEN UNCHANGED <<session, shared>>
     ELSE incoming' = None /\ release /\ allow_all_edges /\ UNCHANGED outgoing
  /\ Takes

TakeEvent ==
  \/ BeginReturns \/ BeginIgnored \/ BeginNobody \/ BeginLends
  \/ InputTaken \/ InputReturns \/ LostTaken \/ LocalInputTaken

\* The peer leaves, is unpaired or not heard of any more; probing ends.
LendingEnds ==
  /\ outgoing
  /\ outgoing' = FALSE
  /\ release
  /\ Goes /\ UNCHANGED <<incoming, allowed_edges, spent>>

BorrowingEnds ==
  /\ incoming # None
  /\ incoming' = None
  /\ allow_all_edges
  /\ Goes /\ UNCHANGED <<outgoing, active, spent>>

AllowOnly(e) == allowed_edges' = {e}

\* A peer's Enter is accepted.
Entered(e) ==
  /\ incoming = None
  /\ incoming' = e /\ outgoing' = FALSE
  /\ AllowOnly(e)
  /\ IF outgoing THEN release ELSE UNCHANGED active
  /\ Goes /\ Spend("enter")

\* The edges behind which the tick knows of a peer.
TickEdges(edges) ==
  /\ ~outgoing /\ incoming = None
  /\ allowed_edges' = edges
  /\ Goes /\ UNCHANGED <<session, active, spent>>

\* The monitor sees every key and movement of the user's own devices.
UserTouches ==
  /\ incoming # None
  /\ Says("localInput")
  /\ Spend("touch")
  /\ UNCHANGED <<state, shared, over, session>>

Next ==
  \/ Compositor
  \/ sync_release
  \/ TakeEvent
  \/ LendingEnds \/ BorrowingEnds
  \/ \E e \in Edge : Entered(e)
  \/ \E edges \in SUBSET Edge : TickEdges(edges)
  \/ UserTouches

Spec == Init /\ [][Next]_vars

\* The thread of the capture goes round its loop every 20 ms, and the loop of the
\* service takes what is in the queue. Nobody has to move or to leave.
FairSpec == Spec /\ WF_vars(sync_release) /\ WF_vars(TakeEvent)

----------------------------------------------------------------------------
(* Properties *)

\* Whatever comes in between, one edge at most owns the pointer and the keyboard:
\* there is a lock object just while an edge is asked for, locked or captured,
\* and no other surface keeps the keyboard from the user's windows.
OneEdgeOwnsInput ==
  /\ state.locked_pointer <=> constraint_edge(state) # None
  /\ state.exclusive \subseteq {constraint_edge(state)}

\* The queue is empty and a release has been seen.
Quiet == events = <<>> /\ (IsCapturing => active)

\* With no peer's pointer coming in meanwhile, what is captured is lent: the loop
\* releases what it does not want, even if the compositor took a lock in between
\* and the release was meant for an earlier capture.
\* And what is lent is captured, if the compositor takes no lock away.
CapturedIsLent ==
  Quiet /\ spent["enter"] = 0 =>
    /\ IsCapturing => outgoing
    /\ spent["unlock"] = 0 => (outgoing => IsCapturing)

\* A lock that is not lent ends, however it came about: given up, timed out, no
\* longer allowed, released, or taken for nobody.
LockEnds == []<>(state.locked_pointer => outgoing \/ spent["enter"] > 0)

----------------------------------------------------------------------------
(* What a race can break; see the README *)

\* What is lent is captured, also when the compositor takes locks away: the release for a
\* lock that was lost ends the capture whose Begin is behind it in the queue.
LentIsAlwaysCaptured == Quiet => (outgoing => IsCapturing)

\* LockEnds when peers' pointers come in.
LockAlwaysEnds == []<>(state.locked_pointer => outgoing)
=============================================================================
