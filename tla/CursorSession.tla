---------------------------- MODULE CursorSession ----------------------------
(***************************************************************************)
(* The cursor service (input/mod.rs): devices that lend their pointer and  *)
(* keyboard to one another.  A device that is pushed against an edge of    *)
(* its screen captures what its user does, probes a peer, enters it, sends *)
(* it what it captures, and leaves; the platform is macOS, whose event tap *)
(* (input/platform/macos.rs) is the source of events and whose Injector    *)
(* replays what a peer sends.                                              *)
(*                                                                         *)
(* A device is one record, and a handler of `run` one operator on records. *)
(* Messages go through InputTransport, which delivers each at most once,   *)
(* in any order or not at all: they are first-in first-out here but for    *)
(* what a scenario lets overtake or get lost.  Timers are not counted: a   *)
(* tick finds a time over or not, as it may.                               *)
(***************************************************************************)
EXTENDS Integers, Sequences, FiniteSets

CONSTANTS
  Device,    \* device ids, which are compared
  Edge,      \* the edges of a screen
  Opposite,  \* the edge of the other screen that an edge leads to
  None,      \* Rust's Option::None
  Repeats,   \* how often a takeover says Leave again (700 ms, every 70 ms)
  Budgets    \* scenarios: how often users and the network may do what, each

ASSUME DeviceAssumption == Device \subseteq Nat
ASSUME EdgeAssumption ==
  Opposite \in [Edge -> Edge] /\ \A e \in Edge : Opposite[Opposite[e]] = e
ASSUME RepeatsAssumption == Repeats \in Nat

\* A user pushes a pointer across an edge, moves it out or back, presses a key
\* or lets it go, or touches what is not captured; a datagram is lost or
\* overtaken; the network is down; a process starts again; a peer is unpaired.
EnvironmentKind ==
  {"push", "move", "key", "touch", "lose", "overtake", "cut", "restart", "unpair"}

ASSUME BudgetsAssumption == Budgets \subseteq [EnvironmentKind -> Nat]

\* InputMessage, without positions, sizes and amounts; "out" is any pointer
\* input but a movement back across the edge. Ping and Pong are `Hear`.
Motion == {"out", "back"}
Key == {"down", "up"}
Message ==
  [kind : {"probe", "enter"}, edge : Edge] \cup [kind : {"probeAck", "ack", "leave"}]
    \cup [kind : {"pointer"}, motion : Motion] \cup [kind : {"keyboard"}, key : Key]

\* CaptureEvent.
Captured ==
  [kind : {"begin"}, edge : Edge] \cup [kind : {"localInput"}]
    \cup [kind : {"pointer"}, motion : Motion] \cup [kind : {"keyboard"}, key : Key]

Probing == [kind : {"probing"}, peer : Device, edge : Edge, acknowledged : BOOLEAN]
Sending == [kind : {"sending"}, peer : Device, edge : Edge, ready : BOOLEAN]
Portal == [peer : Device, edge : Edge]   \* an Incoming, or a Preview that is not old

ASSUME NoneAssumption == None \notin Probing \cup Sending \cup Portal

\* When a peer was last heard of: within PEER_TIMEOUT (1.2 s), within the two
\* seconds of select_peer, or longer ago.
Seen == {"recent", "late", "gone"}

VARIABLES
  dev,    \* each device
  cut,    \* the network delivers nothing
  pushed, \* history: the devices whose pointers have crossed an edge
  spent   \* how often users and the network have done what

vars == <<dev, cut, pushed, spent>>

\* The variables of `run`, the state the event tap shares with it, whether the
\* Injector holds a key or a button, the queue of captured events, and what is
\* on its way to each device.
State ==
  [outgoing : Probing \cup Sending \cup {None},
   incoming : Portal \cup {None},
   preview : Portal \cup {None},
   takeover : [peer : Device, left : 0..Repeats] \cup {None},
   portal_edges : [Device -> SUBSET Edge],
   last_seen : [Device -> Seen],
   trusted : SUBSET Device,
   active : BOOLEAN,
   allowed_edges : SUBSET Edge,
   held : BOOLEAN,
   events : Seq(Captured),
   outbound : [Device -> Seq(Message)]]

TypeOK ==
  /\ dev \in [Device -> State]
  /\ cut \in BOOLEAN
  /\ pushed \subseteq Device
  /\ spent \in [EnvironmentKind -> Nat]

\* A process that has just started: no edge may be crossed yet.
Started(trusted, outbound) ==
  [outgoing |-> None, incoming |-> None, preview |-> None, takeover |-> None,
   portal_edges |-> [p \in Device |-> {}],
   last_seen |-> [p \in Device |-> "gone"],
   trusted |-> trusted, active |-> FALSE, allowed_edges |-> {}, held |-> FALSE,
   events |-> <<>>, outbound |-> outbound]

Init ==
  /\ dev = [n \in Device |-> Started(Device \ {n}, [p \in Device |-> <<>>])]
  /\ cut = FALSE
  /\ pushed = {}
  /\ spent = [kind \in EnvironmentKind |-> 0]

Spend(kinds) ==
  /\ spent' = [k \in EnvironmentKind |-> IF k \in kinds THEN spent[k] + 1 ELSE spent[k]]
  /\ \E b \in Budgets : \A k \in EnvironmentKind : spent'[k] <= b[k]

----------------------------------------------------------------------------
(* What the handlers are made of: each takes a device and returns it changed *)

send(s, p, message) == [s EXCEPT !.outbound[p] = Append(@, message)]
Say(kind) == [kind |-> kind]
SayAt(kind, edge) == [kind |-> kind, edge |-> edge]
send_force_leave(s, p) == send(s, p, Say("leave"))

\* Capture: release gives the pointer and the keyboard back to their user.
release(s) == [s EXCEPT !.active = FALSE]
allow_all_edges(s) == [s EXCEPT !.allowed_edges = Edge]

\* Injector::end lets go of every button and key; without a session nobody
\* would.
end(s) == [s EXCEPT !.held = FALSE]

IsPeer(session, p) == session # None /\ session.peer = p
IsSendingTo(s, p) == IsPeer(s.outgoing, p) /\ s.outgoing.kind = "sending"
IsProbing(s) == s.outgoing # None /\ s.outgoing.kind = "probing"
IsReady(s) == s.outgoing # None /\ s.outgoing.kind = "sending" /\ s.outgoing.ready

portal_edge_confirmed(s, p, e) == e \in s.portal_edges[p]

\* One edge per peer, one peer per edge.
portal_edge_available(s, p, e) ==
  \/ portal_edge_confirmed(s, p, e)
  \/ s.portal_edges[p] = {} /\ \A q \in Device : e \notin s.portal_edges[q]

\* The peers select_peer chooses from, by the position on the edge.
PeersAt(s, e) ==
  {p \in s.trusted : s.last_seen[p] # "gone" /\ portal_edge_available(s, p, e)}

available_edge_mask(s) == {e \in Edge : PeersAt(s, e) # {}}

remember(s, p, e) == [s EXCEPT !.portal_edges[p] = @ \cup {e}]
forget_portal_edge(s, p, e) == [s EXCEPT !.portal_edges[p] = @ \ {e}]
ForgetPeer(s, p) == [s EXCEPT !.portal_edges[p] = {}]

\* Ends of the two kinds of sessions.
StopLending(s) == release([s EXCEPT !.outgoing = None])
\* Mutant: keys stay down.
StopBorrowingHeld(s) == allow_all_edges([s EXCEPT !.incoming = None])
StopBorrowing(s) == allow_all_edges(end([s EXCEPT !.incoming = None]))

\* Mutant: Leave is said once.
TakeOverOnce(s, p) ==
  send_force_leave([s EXCEPT !.takeover = [peer |-> p, left |-> 0]], p)

\* A device whose user or whose tick ends a session says Leave now and again
\* for TAKEOVER_REPEAT_TIME, and turns the peer away as long.
TakeOver(s, p) ==
  send_force_leave([s EXCEPT !.takeover = [peer |-> p, left |-> Repeats]], p)

----------------------------------------------------------------------------
(* The event tap and the user in front of it *)

Become(n, s) == dev' = [dev EXCEPT ![n] = s] /\ UNCHANGED <<cut, pushed>>
Catch(s, event) == [s EXCEPT !.events = Append(@, event)]

\* A pointer crosses an edge: the tap captures from then on, if it may.
UserCrosses(n, e) ==
  /\ ~dev[n].active /\ e \in dev[n].allowed_edges
  /\ dev' = [dev EXCEPT ![n] = Catch([@ EXCEPT !.active = TRUE], SayAt("begin", e))]
  /\ pushed' = pushed \cup {n}
  /\ UNCHANGED cut
  /\ Spend({"push"})

\* Anything else that is not captured is seen all the same.
UserTouches(n) ==
  /\ ~dev[n].active
  /\ Become(n, Catch(dev[n], Say("localInput")))
  /\ Spend({"touch"})

UserMoves(n, motion) ==
  /\ dev[n].active
  /\ Become(n, Catch(dev[n], [kind |-> "pointer", motion |-> motion]))
  /\ Spend({"move"})

UserPresses(n, key) ==
  /\ dev[n].active
  /\ Become(n, Catch(dev[n], [kind |-> "keyboard", key |-> key]))
  /\ Spend({"key"})

User(n) ==
  \/ \E e \in Edge : UserCrosses(n, e)
  \/ UserTouches(n)
  \/ \E motion \in Motion : UserMoves(n, motion)
  \/ \E key \in Key : UserPresses(n, key)

----------------------------------------------------------------------------
(* run: an event of the capture *)

NextIs(n, kind) == dev[n].events # <<>> /\ Head(dev[n].events).kind = kind
Taken(n) == [dev[n] EXCEPT !.events = Tail(@)]
NextEdge(n) == Head(dev[n].events).edge
Handle(n, s) == Become(n, s) /\ UNCHANGED spent

\* A user pushes back against the edge the peer's pointer came in over.
ReturnsBorrowed(n) == dev[n].incoming # None /\ dev[n].incoming.edge = NextEdge(n)

BeginReturns(n) ==
  /\ NextIs(n, "begin") /\ ReturnsBorrowed(n)
  /\ Handle(n, release(send(StopBorrowing(Taken(n)), dev[n].incoming.peer, Say("leave"))))

IsBusy(s) == s.outgoing # None \/ s.incoming # None

\* Leaves the capture as it is.
BeginIgnored(n) ==
  /\ NextIs(n, "begin") /\ ~ReturnsBorrowed(n) /\ IsBusy(dev[n])
  /\ Handle(n, Taken(n))

BeginNobody(n) ==
  /\ NextIs(n, "begin") /\ ~IsBusy(dev[n]) /\ PeersAt(dev[n], NextEdge(n)) = {}
  /\ Handle(n, release(Taken(n)))

Enters(s, p, e) ==
  send([s EXCEPT !.outgoing = [kind |-> "sending", peer |-> p, edge |-> e, ready |-> FALSE]],
       p, SayAt("enter", Opposite[e]))

Probes(s, p, e) ==
  send([s EXCEPT !.outgoing = [kind |-> "probing", peer |-> p, edge |-> e,
                               acknowledged |-> FALSE]],
       p, SayAt("probe", Opposite[e]))

\* Over an edge that has been agreed on the peer is entered at once.
BeginLends(n, p) ==
  /\ NextIs(n, "begin") /\ ~IsBusy(dev[n]) /\ p \in PeersAt(dev[n], NextEdge(n))
  /\ Handle(n, IF portal_edge_confirmed(dev[n], p, NextEdge(n))
               THEN Enters(Taken(n), p, NextEdge(n))
               ELSE Probes(Taken(n), p, NextEdge(n)))

StopLendingAndLeave(s) == StopLending(send_force_leave(s, s.outgoing.peer))

PointerPresses(n) ==
  /\ NextIs(n, "pointer") /\ Head(dev[n].events).motion = "out" /\ IsProbing(dev[n])
  /\ Handle(n, send(Taken(n), dev[n].outgoing.peer, SayAt("probe", Opposite[dev[n].outgoing.edge])))

\* Back across the edge: enough of it ends the probing, or the lending.
PointerReturns(n) ==
  /\ NextIs(n, "pointer") /\ Head(dev[n].events).motion = "back"
  /\ IsProbing(dev[n]) \/ IsReady(dev[n])
  /\ Handle(n, StopLendingAndLeave(Taken(n)))

\* Everything else of a pointer, and every key, goes to a peer that is ready.
InputSent(n) ==
  /\ NextIs(n, "pointer") \/ NextIs(n, "keyboard")
  /\ IsReady(dev[n])
  /\ Handle(n, send(Taken(n), dev[n].outgoing.peer, Head(dev[n].events)))

\* Input that is captured for nobody or for a peer that has not answered, and what
\* of a pointer is no pressure on the edge.
InputIgnored(n) ==
  /\ NextIs(n, "pointer") \/ NextIs(n, "keyboard")
  /\ ~IsReady(dev[n])
  /\ Handle(n, Taken(n))

LocalInputTakesOver(n) ==
  /\ NextIs(n, "localInput") /\ dev[n].incoming # None
  /\ Handle(n, TakeOver(release(StopBorrowing(Taken(n))), dev[n].incoming.peer))

LocalInputIgnored(n) ==
  /\ NextIs(n, "localInput") /\ dev[n].incoming = None
  /\ Handle(n, Taken(n))

HandleCaptured(n) ==
  \/ BeginReturns(n) \/ BeginIgnored(n) \/ BeginNobody(n)
  \/ \E p \in Device : BeginLends(n, p)
  \/ PointerPresses(n) \/ PointerReturns(n) \/ InputSent(n) \/ InputIgnored(n)
  \/ LocalInputTakesOver(n) \/ LocalInputIgnored(n)

----------------------------------------------------------------------------
(* run: a message from m *)

Connected(m, n) == ~cut /\ n \in dev[m].trusted /\ m \in dev[n].trusted

Without(s, i) == SubSeq(s, 1, i - 1) \o SubSeq(s, i + 1, Len(s))

\* Message i from m to n is the next that n handles.
Delivers(m, n, i) ==
  /\ Connected(m, n) /\ i \in DOMAIN dev[m].outbound[n]
  /\ Spend(IF i = 1 THEN {} ELSE {"overtake"})
IsOf(m, n, i, kind) == dev[m].outbound[n][i].kind = kind
EdgeOf(m, n, i) == dev[m].outbound[n][i].edge

\* n has heard of m ...
Heard(n, m) == [dev[n] EXCEPT !.last_seen[m] = "recent"]
\* ... and is s once it has handled message i.
Answer(m, n, i, s) ==
  /\ dev' = [dev EXCEPT ![m].outbound[n] = Without(@, i), ![n] = s]
  /\ UNCHANGED <<cut, pushed>>

\* Probe: turned away while another pointer is here or the edge is not for m.
ProbeRefused(m, n, i) ==
  /\ Delivers(m, n, i) /\ IsOf(m, n, i, "probe")
  /\ dev[n].incoming # None \/ ~portal_edge_available(dev[n], m, EdgeOf(m, n, i))
  /\ Answer(m, n, i, send_force_leave(Heard(n, m), m))

ProbeAnswered(m, n, i) ==
  /\ Delivers(m, n, i) /\ IsOf(m, n, i, "probe")
  /\ dev[n].incoming = None /\ portal_edge_available(dev[n], m, EdgeOf(m, n, i))
  /\ LET shown == IF portal_edge_confirmed(dev[n], m, EdgeOf(m, n, i)) THEN dev[n].preview
                  ELSE [peer |-> m, edge |-> EdgeOf(m, n, i)]
     IN Answer(m, n, i, send([Heard(n, m) EXCEPT !.preview = shown], m, Say("probeAck")))

ProbeAcknowledged(m, n, i) ==
  /\ Delivers(m, n, i) /\ IsOf(m, n, i, "probeAck")
  /\ Answer(m, n, i, IF IsPeer(dev[n].outgoing, m) /\ IsProbing(dev[n])
                     THEN [Heard(n, m) EXCEPT !.outgoing.acknowledged = TRUE]
                     ELSE Heard(n, m))

\* Enter: only after a preview on that edge, or over an edge agreed on before,
\* and of two devices that enter each other the one with the greater id wins.
MayEnter(s, n, m, e) ==
  /\ ~IsPeer(s.takeover, m)
  /\ s.incoming = None
  /\ portal_edge_available(s, m, e)
  /\ s.preview = [peer |-> m, edge |-> e] \/ portal_edge_confirmed(s, m, e)
  /\ ~(s.outgoing # None /\ n > m)

EnterRefused(m, n, i) ==
  /\ Delivers(m, n, i) /\ IsOf(m, n, i, "enter")
  /\ ~MayEnter(dev[n], n, m, EdgeOf(m, n, i))
  /\ Answer(m, n, i, send_force_leave(Heard(n, m), m))

\* Mutant: it does not end.
YieldNot(s) == s
\* What the device was lending itself ends without a word.
Yield(s) == IF s.outgoing = None THEN s ELSE StopLending(s)

\* Mutant: every edge can still be captured.
EnteredOpen(s, m, e) ==
  remember([Yield([s EXCEPT !.preview = None]) EXCEPT !.incoming = [peer |-> m, edge |-> e]], m, e)

Entered(s, m, e) ==
  LET yielded == Yield([s EXCEPT !.preview = None])
  IN remember([yielded EXCEPT !.allowed_edges = {e},
                              !.incoming = [peer |-> m, edge |-> e]], m, e)

EnterAccepted(m, n, i) ==
  /\ Delivers(m, n, i) /\ IsOf(m, n, i, "enter")
  /\ MayEnter(dev[n], n, m, EdgeOf(m, n, i))
  /\ Answer(m, n, i, send(Entered(Heard(n, m), m, EdgeOf(m, n, i)), m, Say("ack")))

EnterAcknowledged(m, n, i) ==
  /\ Delivers(m, n, i) /\ IsOf(m, n, i, "ack")
  /\ Answer(m, n, i, IF IsSendingTo(dev[n], m)
                     THEN remember([Heard(n, m) EXCEPT !.outgoing.ready = TRUE],
                                   m, dev[n].outgoing.edge)
                     ELSE Heard(n, m))

\* Mutant: Leave ends an entry that waits for its answer only.
LeaveLendingUnanswered(s, m) ==
  IF IsSendingTo(s, m) /\ ~s.outgoing.ready
  THEN StopLending(forget_portal_edge(s, m, s.outgoing.edge))
  ELSE s

\* Leave ends what there is with m, both ways; an entry that m refuses makes the
\* edge one that has not been agreed on.
LeaveLending(s, m) ==
  IF ~IsPeer(s.outgoing, m) THEN s
  ELSE IF IsSendingTo(s, m) /\ ~s.outgoing.ready
       THEN StopLending(forget_portal_edge(s, m, s.outgoing.edge))
       ELSE StopLending(s)

LeaveBorrowing(s, m) == IF IsPeer(s.incoming, m) THEN StopBorrowing(s) ELSE s

LeaveHandled(m, n, i) ==
  /\ Delivers(m, n, i) /\ IsOf(m, n, i, "leave")
  /\ Answer(m, n, i, LeaveBorrowing(LeaveLending(Heard(n, m), m), m))

\* Pointer and Keyboard of a device whose session has just been ended here.
InputRefused(m, n, i) ==
  /\ Delivers(m, n, i)
  /\ IsOf(m, n, i, "pointer") \/ IsOf(m, n, i, "keyboard")
  /\ IsPeer(dev[n].takeover, m)
  /\ Answer(m, n, i, send_force_leave(Heard(n, m), m))

InputDropped(m, n, i) ==
  /\ Delivers(m, n, i)
  /\ IsOf(m, n, i, "pointer") \/ IsOf(m, n, i, "keyboard")
  /\ ~IsPeer(dev[n].takeover, m) /\ ~IsPeer(dev[n].incoming, m)
  /\ Answer(m, n, i, Heard(n, m))

IsInjected(m, n, i) ==
  Delivers(m, n, i) /\ ~IsPeer(dev[n].takeover, m) /\ IsPeer(dev[n].incoming, m)

PointerInjected(m, n, i) ==
  /\ IsInjected(m, n, i) /\ IsOf(m, n, i, "pointer")
  /\ Answer(m, n, i, Heard(n, m))

\* A pointer that goes back over the edge it came in by goes home.
PointerLeaves(m, n, i) ==
  /\ IsInjected(m, n, i) /\ IsOf(m, n, i, "pointer")
  /\ dev[m].outbound[n][i].motion = "back"
  /\ Answer(m, n, i, send(StopBorrowing(Heard(n, m)), m, Say("leave")))

apply_keyboard(s, key) == [s EXCEPT !.held = (key = "down")]

KeyInjected(m, n, i) ==
  /\ IsInjected(m, n, i) /\ IsOf(m, n, i, "keyboard")
  /\ Answer(m, n, i, apply_keyboard(Heard(n, m), dev[m].outbound[n][i].key))

HandleMessage(m, n, i) ==
  \/ ProbeRefused(m, n, i) \/ ProbeAnswered(m, n, i) \/ ProbeAcknowledged(m, n, i)
  \/ EnterRefused(m, n, i) \/ EnterAccepted(m, n, i) \/ EnterAcknowledged(m, n, i)
  \/ LeaveHandled(m, n, i)
  \/ InputRefused(m, n, i) \/ InputDropped(m, n, i)
  \/ PointerInjected(m, n, i) \/ PointerLeaves(m, n, i) \/ KeyInjected(m, n, i)

----------------------------------------------------------------------------
(* run: the tick, every 50 ms *)

TickEdges(s) == IF IsBusy(s) THEN s ELSE [s EXCEPT !.allowed_edges = available_edge_mask(s)]

\* Mutant: what was lent to an unpaired peer ends without a release.
TickTrustCaptures(s) ==
  LET alone == IF s.outgoing # None /\ s.outgoing.peer \notin s.trusted
               THEN [s EXCEPT !.outgoing = None] ELSE s
      free == IF alone.incoming # None /\ alone.incoming.peer \notin s.trusted
              THEN StopBorrowing(alone) ELSE alone
  IN [free EXCEPT !.portal_edges = [p \in Device |-> IF p \in s.trusted THEN @[p] ELSE {}]]

\* Peers that have been unpaired.
TickTrust(s) ==
  LET alone == IF s.outgoing # None /\ s.outgoing.peer \notin s.trusted
               THEN StopLending(s) ELSE s
      free == IF alone.incoming # None /\ alone.incoming.peer \notin s.trusted
              THEN StopBorrowing(alone) ELSE alone
  IN [free EXCEPT !.portal_edges = [p \in Device |-> IF p \in s.trusted THEN @[p] ELSE {}]]

\* again: TAKEOVER_REPEAT_GAP is over.
TickTakeover(s, again) ==
  IF s.takeover = None \/ ~again THEN s
  ELSE IF s.takeover.left = 0 THEN [s EXCEPT !.takeover = None]
  ELSE send_force_leave([s EXCEPT !.takeover.left = @ - 1], s.takeover.peer)

\* gap: the pointer has not pressed for PRESS_GAP; held: it has for CONFIRM_TIME.
TickProbing(s, gap, held) ==
  IF ~IsProbing(s) THEN s
  ELSE IF gap THEN StopLending(send_force_leave(s, s.outgoing.peer))
  ELSE IF held /\ s.outgoing.acknowledged THEN Enters(s, s.outgoing.peer, s.outgoing.edge)
  ELSE s

\* old: nothing has been heard of the probing for PRESS_GAP.
TickPreview(s, old) == IF old THEN [s EXCEPT !.preview = None] ELSE s

peer_timed_out(s, p) == s.last_seen[p] # "recent"

\* Mutant: only what is lent times out.
TickTimeoutsOfLending(s) ==
  IF s.outgoing # None /\ peer_timed_out(s, s.outgoing.peer)
  THEN TakeOver(ForgetPeer(StopLending(s), s.outgoing.peer), s.outgoing.peer)
  ELSE s

TickTimeouts(s) ==
  LET lost == IF s.outgoing # None /\ peer_timed_out(s, s.outgoing.peer)
              THEN TakeOver(ForgetPeer(StopLending(s), s.outgoing.peer), s.outgoing.peer)
              ELSE s
  IN IF lost.incoming # None /\ peer_timed_out(s, lost.incoming.peer)
     THEN TakeOver(ForgetPeer(StopBorrowing(lost), lost.incoming.peer), lost.incoming.peer)
     ELSE lost

\* A timer matters only to what it is the timer of.
If(timed) == IF timed THEN BOOLEAN ELSE {FALSE}

Tick(n) ==
  \E gap, held \in If(IsProbing(dev[n])), old \in If(dev[n].preview # None),
     again \in If(dev[n].takeover # None) :
    /\ ~(gap /\ held)
    /\ LET now == TickTakeover(TickTrust(TickEdges(dev[n])), again)
       IN Handle(n, TickTimeouts(TickPreview(TickProbing(now, gap, held), old)))

----------------------------------------------------------------------------
(* The network, crashes and the command line *)

\* A Ping or a Pong of m.
Hear(n, m) ==
  /\ m # n /\ Connected(m, n) /\ dev[n].last_seen[m] # "recent"
  /\ Handle(n, Heard(n, m))

\* Nothing is heard of m for longer: the network is down, or Pings get lost.
Miss(n, m) ==
  /\ m # n /\ dev[n].last_seen[m] # "gone"
  /\ Become(n, [dev[n] EXCEPT !.last_seen[m] = IF @ = "recent" THEN "late" ELSE "gone"])
  /\ Spend(IF Connected(m, n) THEN {"lose"} ELSE {})

Lose(m, n, i) ==
  /\ i \in DOMAIN dev[m].outbound[n]
  /\ Become(m, [dev[m] EXCEPT !.outbound[n] = Without(@, i)])
  /\ Spend(IF Connected(m, n) THEN {"lose"} ELSE {})

Cut == ~cut /\ cut' = TRUE /\ Spend({"cut"}) /\ UNCHANGED <<dev, pushed>>

\* After long enough for every tick to have noticed; shorter cuts are losses.
Heal ==
  /\ cut
  /\ \A n \in Device :
       /\ ~IsBusy(dev[n])
       /\ \A m \in Device \ {n} : dev[n].last_seen[m] = "gone" /\ dev[n].outbound[m] = <<>>
  /\ cut' = FALSE
  /\ UNCHANGED <<dev, pushed, spent>>

\* What is sent to a process that has started again is not for it.
Restart(n) ==
  /\ dev' = [m \in Device |->
               IF m = n THEN Started(dev[n].trusted, dev[n].outbound)
               ELSE [dev[m] EXCEPT !.outbound[n] = <<>>]]
  /\ Spend({"restart"})
  /\ UNCHANGED <<cut, pushed>>

Unpair(n, m) ==
  /\ m \in dev[n].trusted
  /\ Become(n, [dev[n] EXCEPT !.trusted = @ \ {m}])
  /\ Spend({"unpair"})

Environment ==
  \/ \E m, n \in Device : Miss(n, m) \/ Unpair(n, m) \/ \E i \in DOMAIN dev[m].outbound[n] : Lose(m, n, i)
  \/ Cut \/ Heal
  \/ \E n \in Device : Restart(n)

Next ==
  \/ \E n \in Device : User(n) \/ HandleCaptured(n) \/ Tick(n)
  \/ \E m, n \in Device : Hear(n, m)
  \/ \E m, n \in Device : \E i \in DOMAIN dev[m].outbound[n] : HandleMessage(m, n, i)
  \/ Environment

Spec == Init /\ [][Next]_vars

----------------------------------------------------------------------------
(* Fairness *)

\* What goes on by itself: the thread of `run` handles what is in its queues and
\* ticks, datagrams arrive unless they get lost, Pings go on while the network is
\* up, and time passes while it is down.
Progress ==
  \/ \E n \in Device : HandleCaptured(n) \/ Tick(n)
  \/ \E m, n \in Device :
       \/ 1 \in DOMAIN dev[m].outbound[n] /\ HandleMessage(m, n, 1)
       \/ Hear(n, m)
       \/ ~Connected(m, n) /\ (Miss(n, m) \/ Lose(m, n, 1))

FairSpec == Spec /\ WF_vars(Progress)

----------------------------------------------------------------------------
(* Properties *)

\* A device never lends its pointer and borrows one at the same time: begin,
\* probe and confirm on one side, Enter on the other, in any order.
OneDirection == \A n \in Device : dev[n].outgoing = None \/ dev[n].incoming = None

\* No key or button a peer pressed stays down once its session has ended: each
\* of the ways a session ends calls Injector::end.
HeldOnlyWhileBorrowed == \A n \in Device : dev[n].held => dev[n].incoming # None

\* While a peer's pointer is here only the edge it came in over is open to a
\* capture: a push of any other begins none.  (On macOS that push is still input
\* of the user's own, LocalInput, which may take the device back.)
OnlyWayBack ==
  \A n \in Device : dev[n].incoming # None => dev[n].allowed_edges = {dev[n].incoming.edge}

\* Whoever ends what a device lends gives its user the pointer back: the user,
\* a tick, a message of the peer, or a peer that enters instead.
EndReleases ==
  [][\A n \in Device :
       dev[n].outgoing # None /\ dev'[n].outgoing = None => ~dev'[n].active]_vars

\* Nothing is on its way or waits for a tick.
Quiet ==
  /\ ~cut
  /\ \A n \in Device :
       /\ dev[n].events = <<>> /\ dev[n].takeover = None /\ ~IsProbing(dev[n])
       /\ \A m \in Device : dev[n].outbound[m] = <<>>
       /\ \A m \in dev[n].trusted : dev[n].last_seen[m] = "recent"

\* One user has pushed, and the network and the processes have done no harm.
Undisturbed ==
  /\ Cardinality(pushed) <= 1
  /\ \A k \in {"lose", "overtake", "cut", "restart", "unpair"} : spent[k] = 0

CapturedToSend == \A n \in Device : dev[n].active => IsReady(dev[n])

\* Once all is quiet, a device whose pointer and keyboard are captured sends them
\* to a peer that has let it in, so that nobody is left with a dead keyboard; and
\* what a device sends, captured, goes into a session at that peer, on the
\* opposite edge.
CapturedIsBorrowed ==
  Undisturbed /\ Quiet =>
    /\ CapturedToSend
    /\ \A n \in Device : IsReady(dev[n]) =>
         /\ dev[n].active
         /\ dev[dev[n].outgoing.peer].incoming = [peer |-> n, edge |-> Opposite[dev[n].outgoing.edge]]

\* A user who touches a device gets it back from the peer that borrowed it: the
\* peer stops sending what nobody takes, though a Leave may get lost, as Leave is
\* said again.
LendsInVain(n) == IsReady(dev[n]) /\ ~IsPeer(dev[dev[n].outgoing.peer].incoming, n)
TakeoverEndsLending ==
  (\E n \in Device : dev[n].takeover # None) ~> ~(\E n \in Device : LendsInVain(n))

\* Probing ends, whether the peer answers or not, and nobody waits for a peer
\* that is not heard of any more, on either side.
NothingHangs ==
  []<>(\A n \in Device : ~IsProbing(dev[n]) /\ (cut => ~IsBusy(dev[n])))

----------------------------------------------------------------------------
(* What users and network together can break; see the README *)

\* CapturedToSend, whoever pushes and whatever gets lost.
NobodyIsCaptive == Quiet => CapturedToSend

\* A device does not stay borrowed by a peer that lends it nothing.
BorrowedIsLent ==
  Quiet => \A n \in Device : dev[n].incoming # None => IsSendingTo(dev[dev[n].incoming.peer], n)

\* Two devices that enter each other end with one of them entered.
CrossingIsSettled ==
  Quiet => \A n \in Device : IsReady(dev[n]) => IsPeer(dev[dev[n].outgoing.peer].incoming, n)
=============================================================================
