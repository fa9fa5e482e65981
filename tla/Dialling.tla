------------------------------- MODULE Dialling -------------------------------
(***************************************************************************)
(* How daemons that trust each other come to be connected (daemon.rs:      *)
(* network_manager, outbound_supervisor, spawn_peer, spawn_connected;      *)
(* network.rs: connect, accept, read_peer_preface).  Of two devices the    *)
(* one with the smaller id dials, from a supervisor that goes on for as    *)
(* long as the peer is trusted; the other accepts.  Both keep a set of the *)
(* peers they have a peer_loop for; Connection has what the loops do.      *)
(*                                                                         *)
(* A connection is a slot with two ends.  An end that is closed is noticed *)
(* by the other; one that is gone, with its machine, is not until the      *)
(* other end sends.                                                        *)
(***************************************************************************)
EXTENDS Naturals, FiniteSets

CONSTANTS
  Device,   \* device ids, which are compared
  Slot,     \* connections at a time
  None,     \* nothing
  Budgets   \* scenarios: how often the environment may do what, each

ASSUME DeviceAssumption == Device \subseteq Nat

\* A connection is lost; dialling fails; the process of a dialler or of an
\* acceptor starts again; a machine loses power; a stranger connects and says
\* nothing; a peer is unpaired.
EnvironmentKind ==
  {"lost", "fail", "restartDialler", "restartAcceptor", "power", "stranger", "unpair"}

ASSUME BudgetsAssumption == Budgets \subseteq [EnvironmentKind -> Nat]

VARIABLES
  peers,       \* config.json: the devices each trusts
  port,        \* the port each listens on: another after each start
  active,      \* memory: the peers with a peer_loop
  dialing,     \* memory: the peers with a supervisor
  supervisor,  \* the supervisor of each peer
  blocked,     \* network_manager reads the preface of a stranger
  slots,       \* the connections
  spent        \* how often the environment has done what

config == <<peers, port>>
vars == <<config, active, dialing, supervisor, blocked, slots, spent>>

\* A supervisor dials, waits for the handshake, for its loop to end, or sleeps.
Supervising ==
  [stage : {"dial", "handshake", "loop", "sleep"}, addr : Nat, slot : Slot \cup {None}]
Supervisor == Supervising \cup {None}

\* The end of the dialler, and of the acceptor: in the listener's backlog, in a
\* task of its own, in the handshake. A loop says and hears Hello, listens to the
\* bus, and is told that its peer was unpaired.
Loop == {"hello", "loop", "unpaired"}
Near == {"handshake", "closed", "gone"} \cup Loop
Far == {"backlog", "task", "handshake", "closed", "gone"} \cup Loop
Connection == [from : Device, to : Device, near : Near, far : Far]

ASSUME NoneAssumption == None \notin Connection \cup Supervising

TypeOK ==
  /\ peers \in [Device -> SUBSET Device]
  /\ port \in [Device -> Nat]
  /\ active \in [Device -> SUBSET Device]
  /\ dialing \in [Device -> SUBSET Device]
  /\ supervisor \in [Device -> [Device -> Supervisor]]
  /\ blocked \in [Device -> BOOLEAN]
  /\ slots \in [Slot -> Connection \cup {None}]
  /\ spent \in [EnvironmentKind -> Nat]

Init ==
  /\ peers = [n \in Device |-> Device \ {n}]
  /\ port = [n \in Device |-> 0]
  /\ active = [n \in Device |-> {}]
  /\ dialing = [n \in Device |-> {}]
  /\ supervisor = [n \in Device |-> [m \in Device |-> None]]
  /\ blocked = [n \in Device |-> FALSE]
  /\ slots = [s \in Slot |-> None]
  /\ spent = [kind \in EnvironmentKind |-> 0]

Spend(kind) ==
  /\ spent' = [spent EXCEPT ![kind] = @ + 1]
  /\ \E b \in Budgets : \A k \in EnvironmentKind : spent'[k] <= b[k]

Ended == {"closed", "gone"}
Used(s) == slots[s] # None
IsFrom(s, d, a) == Used(s) /\ slots[s].from = d /\ slots[s].to = a

\* A slot is free again once both ends are closed.
Freed(connections) ==
  [s \in Slot |-> IF connections[s] # None /\ connections[s].near \in Ended /\ connections[s].far \in Ended
                  THEN None ELSE connections[s]]
SetNear(s, near) == slots' = Freed([slots EXCEPT ![s].near = near])
SetFar(s, far) == slots' = Freed([slots EXCEPT ![s].far = far])

----------------------------------------------------------------------------
(* The dialler *)

Supervises(d, a, stage) == supervisor[d][a] # None /\ supervisor[d][a].stage = stage
Becomes(d, a, value) == supervisor' = [supervisor EXCEPT ![d][a] = value]
SlotOf(d, a) == supervisor[d][a].slot

\* network_manager: mDNS has resolved a peer that is trusted and not dialled yet.
Discovered(d, a) ==
  /\ d < a /\ ~blocked[d]
  /\ a \in peers[d] /\ a \notin dialing[d]
  /\ dialing' = [dialing EXCEPT ![d] = @ \cup {a}]
  /\ Becomes(d, a, [stage |-> "dial", addr |-> port[a], slot |-> None])
  /\ UNCHANGED <<config, active, blocked, slots, spent>>

\* The supervisor of a peer that is not trusted any more.
Stops(d, a) ==
  /\ Becomes(d, a, None)
  /\ dialing' = [dialing EXCEPT ![d] = @ \ {a}]

\* ... which it looks at before it dials, and before it sleeps.
SleepsOrStops(d, a) ==
  IF a \in peers[d]
  THEN Becomes(d, a, [supervisor[d][a] EXCEPT !.stage = "sleep", !.slot = None]) /\ UNCHANGED dialing
  ELSE Stops(d, a)

DialStops(d, a) ==
  /\ Supervises(d, a, "dial") /\ a \notin peers[d]
  /\ Stops(d, a)
  /\ UNCHANGED <<config, active, blocked, slots, spent>>

\* The address at which the peer was found first.
Addr(d, a) == supervisor[d][a].addr

Dials(d, a, s) ==
  /\ Supervises(d, a, "dial") /\ a \in peers[d] /\ Addr(d, a) = port[a]
  /\ ~Used(s)
  /\ slots' = [slots EXCEPT ![s] = [from |-> d, to |-> a, near |-> "handshake", far |-> "backlog"]]
  /\ Becomes(d, a, [supervisor[d][a] EXCEPT !.stage = "handshake", !.slot = s])
  /\ UNCHANGED <<config, active, dialing, blocked, spent>>

\* Nobody listens at the address any more.
NobodyListens(d, a) ==
  /\ Supervises(d, a, "dial") /\ a \in peers[d] /\ Addr(d, a) # port[a]
  /\ SleepsOrStops(d, a)
  /\ UNCHANGED <<config, active, blocked, slots, spent>>

\* The network fails.
DialFails(d, a) ==
  /\ Supervises(d, a, "dial") /\ a \in peers[d]
  /\ SleepsOrStops(d, a)
  /\ Spend("fail")
  /\ UNCHANGED <<config, active, blocked, slots>>

\* The acceptor has answered the handshake: the loop begins.
DiallerConnected(d, a) ==
  /\ Supervises(d, a, "handshake") /\ slots[SlotOf(d, a)].far \in Loop
  /\ SetNear(SlotOf(d, a), "hello")
  /\ active' = [active EXCEPT ![d] = @ \cup {a}]
  /\ Becomes(d, a, [supervisor[d][a] EXCEPT !.stage = "loop"])
  /\ UNCHANGED <<config, dialing, blocked, spent>>

\* ... or has turned the connection away.
DiallerRefused(d, a) ==
  /\ Supervises(d, a, "handshake") /\ slots[SlotOf(d, a)].far = "closed"
  /\ SetNear(SlotOf(d, a), "closed")
  /\ SleepsOrStops(d, a)
  /\ UNCHANGED <<config, active, blocked, spent>>

DiallerSubscribes(d, a) ==
  /\ Supervises(d, a, "loop") /\ slots[SlotOf(d, a)].near = "hello"
  /\ slots[SlotOf(d, a)].far \in Loop
  /\ SetNear(SlotOf(d, a), "loop")
  /\ UNCHANGED <<config, active, dialing, supervisor, blocked, spent>>

DiallerLoopEnds(d, a) ==
  /\ Supervises(d, a, "loop")
  /\ slots[SlotOf(d, a)].far = "closed" \/ slots[SlotOf(d, a)].near = "unpaired"
  /\ SetNear(SlotOf(d, a), "closed")
  /\ active' = [active EXCEPT ![d] = @ \ {a}]
  /\ SleepsOrStops(d, a)
  /\ UNCHANGED <<config, blocked, spent>>

\* The back-off is over.
Wakes(d, a) ==
  /\ Supervises(d, a, "sleep")
  /\ Becomes(d, a, [supervisor[d][a] EXCEPT !.stage = "dial"])
  /\ UNCHANGED <<config, active, dialing, blocked, slots, spent>>

Dialler(d, a) ==
  \/ DialStops(d, a) \/ \E s \in Slot : Dials(d, a, s)
  \/ NobodyListens(d, a) \/ DialFails(d, a) \/ DiallerConnected(d, a) \/ DiallerRefused(d, a)
  \/ DiallerSubscribes(d, a) \/ DiallerLoopEnds(d, a) \/ Wakes(d, a)

----------------------------------------------------------------------------
(* The acceptor *)

From(s) == slots[s].from
To(s) == slots[s].to
Keep == UNCHANGED <<config, dialing, supervisor, blocked, spent>>

\* network_manager reads who calls, and leaves the rest to a task.
Accepted(s) ==
  /\ Used(s) /\ slots[s].far = "backlog" /\ ~blocked[To(s)]
  /\ SetFar(s, "task")
  /\ Keep /\ UNCHANGED active

\* spawn_peer: one connection a peer, and only of a peer that is trusted.
Welcomes(s) == From(s) \notin active[To(s)] /\ From(s) \in peers[To(s)]
TaskStarts(s) ==
  /\ Used(s) /\ slots[s].far = "task"
  /\ SetFar(s, IF Welcomes(s) THEN "handshake" ELSE "closed")
  /\ Keep /\ UNCHANGED active

\* Mutant: a peer that is connected by now is let in again.
IsSecondNever(s) == FALSE
\* spawn_connected: the peer has been connected since.
IsSecond(s) == From(s) \in active[To(s)]

\* The handshake ends: its first message was sent as the dialler dialled.
AcceptorConnected(s) ==
  /\ Used(s) /\ slots[s].far = "handshake"
  /\ IF IsSecond(s)
     THEN SetFar(s, "closed") /\ UNCHANGED active
     ELSE SetFar(s, "hello") /\ active' = [active EXCEPT ![To(s)] = @ \cup {From(s)}]
  /\ Keep

\* It fails with the connection, or after ten seconds.
AcceptorFails(s) ==
  /\ Used(s) /\ slots[s].far = "handshake" /\ slots[s].near \in Ended
  /\ SetFar(s, "closed")
  /\ Keep /\ UNCHANGED active

AcceptorSubscribes(s) ==
  /\ Used(s) /\ slots[s].far = "hello" /\ slots[s].near \in Loop
  /\ SetFar(s, "loop")
  /\ Keep /\ UNCHANGED active

\* Mutant: the peer stays in the set.
LeavesNot(s) == UNCHANGED active
Leaves(s) == active' = [active EXCEPT ![To(s)] = @ \ {From(s)}]

AcceptorLoopEnds(s) ==
  /\ Used(s) /\ slots[s].far \in Loop
  /\ slots[s].near = "closed" \/ slots[s].far = "unpaired"
  /\ SetFar(s, "closed")
  /\ Leaves(s)
  /\ Keep

Acceptor(s) ==
  \/ Accepted(s) \/ TaskStarts(s) \/ AcceptorConnected(s) \/ AcceptorFails(s)
  \/ AcceptorSubscribes(s) \/ AcceptorLoopEnds(s)

----------------------------------------------------------------------------
(* The network, crashes and the command line *)

\* A connection breaks, for both ends, which notice; a loop that sends into a
\* connection whose other end is gone notices too.
Lost(s) ==
  /\ Used(s) /\ slots[s].near \in Loop /\ slots[s].far \in Loop
  /\ slots' = Freed([slots EXCEPT ![s].near = "closed", ![s].far = "closed"])
  /\ active' = [n \in Device |-> IF n = From(s) THEN active[n] \ {To(s)}
                                 ELSE IF n = To(s) THEN active[n] \ {From(s)} ELSE active[n]]
  /\ SleepsOrStops(From(s), To(s))
  /\ Spend("lost")
  /\ UNCHANGED <<config, blocked>>

\* n starts again, at another port; its connections end as `how` says.
StartsAgain(n, how) ==
  /\ port' = [port EXCEPT ![n] = @ + 1]
  /\ active' = [active EXCEPT ![n] = {}]
  /\ dialing' = [dialing EXCEPT ![n] = {}]
  /\ supervisor' = [supervisor EXCEPT ![n] = [m \in Device |-> None]]
  /\ blocked' = [blocked EXCEPT ![n] = FALSE]
  /\ slots' = Freed([s \in Slot |->
                IF ~Used(s) THEN None
                ELSE IF From(s) = n /\ slots[s].near \notin Ended THEN [slots[s] EXCEPT !.near = how]
                ELSE IF To(s) = n /\ slots[s].far \notin Ended THEN [slots[s] EXCEPT !.far = how]
                ELSE slots[s]])
  /\ UNCHANGED peers

Restart(n) ==
  /\ StartsAgain(n, "closed")
  /\ Spend(IF \A m \in Device : n <= m THEN "restartDialler" ELSE "restartAcceptor")

PowerLoss(n) == StartsAgain(n, "gone") /\ Spend("power")

\* A connection whose preface does not come: network_manager waits for it.
Stranger(n) ==
  /\ ~blocked[n]
  /\ blocked' = [blocked EXCEPT ![n] = TRUE]
  /\ Spend("stranger")
  /\ UNCHANGED <<config, active, dialing, supervisor, slots>>

StrangerLeaves(n) ==
  /\ blocked[n]
  /\ blocked' = [blocked EXCEPT ![n] = FALSE]
  /\ UNCHANGED <<config, active, dialing, supervisor, slots, spent>>

\* The daemon's Unpair puts a Ping on the bus, for the loops that listen.
Unpair(n, m) ==
  /\ m \in peers[n]
  /\ peers' = [peers EXCEPT ![n] = @ \ {m}]
  /\ slots' = [s \in Slot |->
                IF IsFrom(s, n, m) /\ slots[s].near = "loop" THEN [slots[s] EXCEPT !.near = "unpaired"]
                ELSE IF IsFrom(s, m, n) /\ slots[s].far = "loop" THEN [slots[s] EXCEPT !.far = "unpaired"]
                ELSE slots[s]]
  /\ Spend("unpair")
  /\ UNCHANGED <<port, active, dialing, supervisor, blocked>>

Environment ==
  \/ \E s \in Slot : Lost(s)
  \/ \E n \in Device : Restart(n) \/ PowerLoss(n) \/ Stranger(n) \/ StrangerLeaves(n)
  \/ \E n, m \in Device : Unpair(n, m)

Next ==
  \/ \E d, a \in Device : Discovered(d, a) \/ Dialler(d, a)
  \/ \E s \in Slot : Acceptor(s)
  \/ Environment

Spec == Init /\ [][Next]_vars

\* mDNS answers, tasks run, and the back-off, at most 60 s, ends. That dialling
\* fails, a stranger leaves or a loop sends is left to chance.
FairSpec ==
  /\ Spec
  /\ \A d, a \in Device :
       /\ WF_vars(Discovered(d, a)) /\ WF_vars(Wakes(d, a))
       /\ WF_vars(DialStops(d, a) \/ \E s \in Slot : Dials(d, a, s))
       /\ WF_vars(NobodyListens(d, a))
       /\ WF_vars(DiallerConnected(d, a)) /\ WF_vars(DiallerRefused(d, a))
       /\ WF_vars(DiallerSubscribes(d, a)) /\ WF_vars(DiallerLoopEnds(d, a))
  /\ \A s \in Slot : WF_vars(Acceptor(s))

----------------------------------------------------------------------------
(* Properties *)

\* The peer_loops a device runs for a peer.
LoopsOf(n, m) ==
  {s \in Slot : \/ IsFrom(s, n, m) /\ slots[s].near \in Loop
                \/ IsFrom(s, m, n) /\ slots[s].far \in Loop}

\* `active` is what peer_loops there are, and of each peer there is one: else a
\* peer would be listed as connected that is not, or be sent everything twice,
\* or be turned away for ever. It is kept by tasks that run side by side, in two
\* places on each side.
OneLoopPerPeer ==
  \A n, m \in Device :
    /\ Cardinality(LoopsOf(n, m)) = (IF m \in active[n] THEN 1 ELSE 0)

Trust(d, a) == a \in peers[d] /\ d \in peers[a]
Connected(d, a) == a \in active[d] /\ d \in active[a]

Harm == {"restartAcceptor", "power", "stranger"}

\* Two daemons that trust each other are connected again and again, however often
\* connections are lost, dialling fails or the dialler starts again.
Reconnects ==
  []<>(\/ \E kind \in Harm : spent[kind] > 0
       \/ \A d, a \in Device : d < a /\ Trust(d, a) => Connected(d, a))

----------------------------------------------------------------------------
(* What the code does not keep; see the README *)

AlwaysReconnects == []<>(\A d, a \in Device : d < a /\ Trust(d, a) => Connected(d, a))

\* A device does not stay connected to a peer it has unpaired.
UnpairedLeaves == []<>(\A n \in Device : active[n] \subseteq peers[n])
=============================================================================
