--------------------------- MODULE InputTransport ---------------------------
(***************************************************************************)
(* The datagrams that carry pointer and keyboard input between two devices *)
(* (input/transport.rs): the task `run` of each, which finds the other by  *)
(* mDNS, exchanges Hellos, keeps a session with counters and a replay      *)
(* window, and queues what cannot be sent yet.                             *)
(*                                                                         *)
(* A process draws its ephemeral key and nonce once, when it starts: one   *)
(* number, its incarnation, stands for both, and a pair of incarnations    *)
(* for the session keys.  Datagrams are delayed as long as they like,      *)
(* overtake each other, and are duplicated and lost as often as a scenario *)
(* allows.                                                                 *)
(***************************************************************************)
EXTENDS Naturals, Sequences, FiniteSets

CONSTANTS
  None,        \* Rust's Option::None
  WindowSize,  \* sequence numbers the replay window covers (64 in the code)
  MaxPending,  \* MAX_PENDING_MESSAGES (32 in the code)
  Budgets      \* scenarios: how often the environment may do what, each

Device == {1, 2}
Peer(d) == 3 - d

ASSUME WindowSizeAssumption == WindowSize \in Nat \ {0}
ASSUME MaxPendingAssumption == MaxPending \in Nat \ {0}

\* A message for the peer; a process that starts again, a device whose address
\* changes, a peer that is unpaired; a send that fails; a datagram that arrives
\* twice or not at all.
EnvironmentKind ==
  {"send", "restart", "roam", "unpair", "fail", "duplicate", "lose"}

ASSUME BudgetsAssumption == Budgets \subseteq [EnvironmentKind -> Nat]

\* Wire::Hello: the sender's incarnation, whether it answers one, and the
\* address it comes from.
Hello == [kind : {"hello"}, from : Device, incarnation : Nat, response : BOOLEAN,
          at : Nat]

\* Wire::Data: encrypted under the keys of the sender's incarnation and the one
\* it takes the receiver to be.
Data == [kind : {"data"}, from : Device, incarnation : Nat, for : Nat,
         sequence : Nat, message : Nat, at : Nat]

\* Session: whose incarnation the keys are made with, and the counters; the bits
\* of receive_window are the sequence numbers they stand for.
Session == [peer : Nat, addr : Nat, send_sequence : Nat, receive_highest : Nat,
            receive_window : SUBSET Nat]

ASSUME NoneAssumption == None \notin Session

VARIABLES
  incarnation,   \* of each process
  host,          \* the address of each device
  trusted,       \* is_cursor_peer, of the other
  announced,     \* mDNS answers about the peer that `run` has not read
  addresses,     \* where the peer is taken to be
  sessions,      \* the session with the peer
  pending,       \* messages that wait for a session
  seen_handshakes, \* incarnations of the peer whose Hello has been taken
  net,           \* datagrams on their way
  handed,        \* history: messages handed over in the present session
  got,           \* history: messages handed over ever
  spent          \* how often the environment has done what

vars == <<incarnation, host, trusted, announced, addresses, sessions, pending,
          seen_handshakes, net, handed, got, spent>>

\* What no datagram changes, and what the sending side leaves alone.
world == <<incarnation, host, trusted, announced>>
received == <<seen_handshakes, got>>

TypeOK ==
  /\ incarnation \in [Device -> Nat]
  /\ host \in [Device -> Nat]
  /\ trusted \in [Device -> BOOLEAN]
  /\ announced \in [Device -> Seq(Nat)]
  /\ addresses \in [Device -> Nat \cup {None}]
  /\ \A d \in Device : sessions[d] = None \/ sessions[d] \in Session
  /\ pending \in [Device -> Seq(Nat)]
  /\ \A d \in Device : Len(pending[d]) <= MaxPending
  /\ seen_handshakes \in [Device -> SUBSET Nat]
  /\ \A x \in net : x \in Hello \/ x \in Data
  /\ handed \in [Device -> SUBSET Nat]
  /\ got \in [Device -> SUBSET Nat]
  /\ spent \in [EnvironmentKind -> Nat]

Init ==
  /\ incarnation = [d \in Device |-> 1]
  /\ host = [d \in Device |-> 0]
  /\ trusted = [d \in Device |-> TRUE]
  /\ announced = [d \in Device |-> <<0>>]
  /\ addresses = [d \in Device |-> None]
  /\ sessions = [d \in Device |-> None]
  /\ pending = [d \in Device |-> <<>>]
  /\ seen_handshakes = [d \in Device |-> {}]
  /\ net = {}
  /\ handed = [d \in Device |-> {}]
  /\ got = [d \in Device |-> {}]
  /\ spent = [kind \in EnvironmentKind |-> 0]

\* The environment does each of these once, if a scenario allows it.
Spend(kinds) ==
  /\ spent' = [k \in EnvironmentKind |-> IF k \in kinds THEN spent[k] + 1 ELSE spent[k]]
  /\ \E b \in Budgets : \A k \in EnvironmentKind : spent'[k] <= b[k]

----------------------------------------------------------------------------
(* Helpers *)

\* What d sends to an address reaches the peer only if the peer is there.
To(d, addr, datagrams) == IF addr = host[Peer(d)] THEN datagrams ELSE {}

\* send_hello.
HelloOf(d, response) ==
  [kind |-> "hello", from |-> d, incarnation |-> incarnation[d],
   response |-> response, at |-> host[d]]

\* send_data: the i-th message sent over the session from now on.
DataOf(d, session, i, message) ==
  [kind |-> "data", from |-> d, incarnation |-> incarnation[d], for |-> session.peer,
   sequence |-> session.send_sequence + i, message |-> message, at |-> host[d]]

NewSession(peer, addr) ==
  [peer |-> peer, addr |-> addr, send_sequence |-> 0, receive_highest |-> 0,
   receive_window |-> {}]

\* decrypt succeeds.
Decrypts(d, x) ==
  x.incarnation = sessions[d].peer /\ x.for = incarnation[d]

\* Mutant: only what is newer than everything before.
AcceptsInOrder(session, sequence) == sequence > session.receive_highest

\* accept_sequence: what it answers, and the session it leaves.
Accepts(session, sequence) ==
  /\ sequence # 0
  /\ \/ sequence > session.receive_highest
     \/ /\ session.receive_highest - sequence < WindowSize
        /\ sequence \notin session.receive_window

\* Mutant: a newer number forgets the others.
AcceptedAlone(session, sequence) ==
  IF sequence > session.receive_highest
    THEN [session EXCEPT !.receive_highest = sequence, !.receive_window = {sequence}]
    ELSE [session EXCEPT !.receive_window = @ \cup {sequence}]

Accepted(session, sequence) ==
  IF sequence > session.receive_highest
    THEN [session EXCEPT
            !.receive_highest = sequence,
            !.receive_window = {s \in @ : sequence - s < WindowSize} \cup {sequence}]
    ELSE [session EXCEPT !.receive_window = @ \cup {sequence}]

\* queue_pending: the oldest makes room.
Queued(queue, message) ==
  Append(IF Len(queue) = MaxPending THEN Tail(queue) ELSE queue, message)

\* The entries of the peer in sessions and addresses are removed.
Forget(d) ==
  /\ sessions' = [sessions EXCEPT ![d] = None]
  /\ addresses' = [addresses EXCEPT ![d] = None]
  /\ handed' = [handed EXCEPT ![d] = {}]

----------------------------------------------------------------------------
(* Discovery, sending, the tick *)

Resolved(d) ==
  /\ announced[d] # <<>>
  /\ announced' = [announced EXCEPT ![d] = Tail(@)]
  /\ UNCHANGED <<incarnation, host, trusted, sessions, pending, received, handed>>

Resolve(d) ==
  /\ Resolved(d)
  /\ IF trusted[d]
       THEN /\ addresses' = [addresses EXCEPT ![d] = Head(announced[d])]
            /\ net' = net \cup To(d, Head(announced[d]), {HelloOf(d, FALSE)})
       ELSE UNCHANGED <<addresses, net>>
  /\ UNCHANGED spent

ResolveFails(d) ==
  /\ Resolved(d) /\ trusted[d]
  /\ Spend({"fail"})
  /\ addresses' = [addresses EXCEPT ![d] = None]
  /\ UNCHANGED net

\* input/mod.rs has a message for the peer; messages are numbered.
Number == spent["send"] + 1

SendUntrusted(d) ==
  /\ ~trusted[d]
  /\ Spend({"send"})
  /\ Forget(d)
  /\ pending' = [pending EXCEPT ![d] = <<>>]
  /\ UNCHANGED <<world, received, net>>

SendData(d) ==
  /\ trusted[d] /\ sessions[d] # None
  /\ Spend({"send"})
  /\ sessions' = [sessions EXCEPT ![d].send_sequence = @ + 1]
  /\ net' = net \cup To(d, sessions[d].addr, {DataOf(d, sessions[d], 1, Number)})
  /\ UNCHANGED <<world, received, addresses, pending, handed>>

\* send_data fails, before or after the first of its copies has left.
SendFails(d) ==
  /\ trusted[d] /\ sessions[d] # None
  /\ Spend({"send", "fail"})
  /\ Forget(d)
  /\ \/ UNCHANGED net
     \/ net' = net \cup To(d, sessions[d].addr, {DataOf(d, sessions[d], 1, Number)})
  /\ UNCHANGED <<world, received, pending>>

\* Mutant: a message queues behind a session, too.
QueuesAlways(d) ==
  /\ trusted[d]
  /\ pending' = [pending EXCEPT ![d] = Queued(@, Number)]
  /\ UNCHANGED <<world, received, sessions, handed>>

Queues(d) ==
  /\ trusted[d] /\ sessions[d] = None
  /\ pending' = [pending EXCEPT ![d] = Queued(@, Number)]
  /\ UNCHANGED <<world, received, sessions, handed>>

SendQueued(d) ==
  /\ Queues(d)
  /\ Spend({"send"})
  /\ net' = net \cup To(d, addresses[d], {HelloOf(d, FALSE)})
  /\ UNCHANGED addresses

SendQueuedFails(d) ==
  /\ Queues(d) /\ addresses[d] # None
  /\ Spend({"send", "fail"})
  /\ addresses' = [addresses EXCEPT ![d] = None]
  /\ UNCHANGED net

\* Once a second: a peer that is not trusted any more is forgotten, one without a
\* session is sent a Hello.
HelloTick(d) ==
  /\ IF trusted[d]
       THEN /\ sessions[d] = None
            /\ net' = net \cup To(d, addresses[d], {HelloOf(d, FALSE)})
            /\ UNCHANGED <<addresses, sessions, pending, handed>>
       ELSE /\ Forget(d)
            /\ pending' = [pending EXCEPT ![d] = <<>>]
            /\ UNCHANGED net
  /\ UNCHANGED <<world, received, spent>>

HelloTickFails(d) ==
  /\ trusted[d] /\ sessions[d] = None /\ addresses[d] # None
  /\ Spend({"fail"})
  /\ addresses' = [addresses EXCEPT ![d] = None]
  /\ UNCHANGED <<world, received, sessions, pending, handed, net>>

----------------------------------------------------------------------------
(* Hellos *)

Arrived(d, x) == x \in net /\ x.from = Peer(d)

\* d takes a datagram and sends others; another copy may still be on its way: the
\* network duplicates, and send_data sends three of what must not be lost.
TakesAndSends(d, x, datagrams) ==
  /\ Arrived(d, x)
  /\ \/ net' = (net \ {x}) \cup datagrams /\ UNCHANGED spent
     \/ net' = net \cup datagrams /\ Spend({"duplicate"})
  /\ UNCHANGED world

\* The same, and a send fails after these.
TakesAndFails(d, x, datagrams) ==
  /\ Arrived(d, x)
  /\ net' = (net \ {x}) \cup datagrams
  /\ Spend({"fail"})
  /\ UNCHANGED world

\* Mutant: a Hello that has been seen is never taken again.
StaleSeen(d, h) == h.incarnation \in seen_handshakes[d]

\* A Hello taken before, when the session has other keys or another address.
Stale(d, h) ==
  /\ h.incarnation \in seen_handshakes[d]
  /\ sessions[d] # None
  /\ sessions[d].peer # h.incarnation \/ sessions[d].addr # h.at

HelloIgnored(d, h) ==
  /\ h.kind = "hello"
  /\ ~trusted[d] \/ Stale(d, h)
  /\ TakesAndSends(d, h, {})
  /\ UNCHANGED <<received, addresses, sessions, pending, handed>>

Known(d, h) == sessions[d] # None /\ sessions[d].peer = h.incarnation

SessionFor(d, h) ==
  IF Known(d, h) THEN [sessions[d] EXCEPT !.addr = h.at]
  ELSE NewSession(h.incarnation, h.at)

Answer(d, h) == IF h.response THEN {} ELSE To(d, h.at, {HelloOf(d, TRUE)})

\* flush_pending, of the first n messages.
Flushed(d, h, n) ==
  To(d, h.at, {DataOf(d, SessionFor(d, h), i, pending[d][i]) : i \in 1 .. n})

Handshake(d, h) ==
  /\ h.kind = "hello"
  /\ trusted[d] /\ ~Stale(d, h)
  /\ seen_handshakes' = [seen_handshakes EXCEPT ![d] = @ \cup {h.incarnation}]
  /\ UNCHANGED got

\* The session is kept if the keys are the same; the peer is answered and sent what
\* waited for it.
HelloTaken(d, h) ==
  /\ Handshake(d, h)
  /\ TakesAndSends(d, h, Answer(d, h) \cup Flushed(d, h, Len(pending[d])))
  /\ sessions' = [sessions EXCEPT
       ![d] = [SessionFor(d, h) EXCEPT !.send_sequence = @ + Len(pending[d])]]
  /\ addresses' = [addresses EXCEPT ![d] = h.at]
  /\ pending' = [pending EXCEPT ![d] = <<>>]
  /\ handed' = IF Known(d, h) THEN handed ELSE [handed EXCEPT ![d] = {}]

\* The answer fails: the session is there, what waits for it is not sent.
HelloAnswerFails(d, h) ==
  /\ Handshake(d, h) /\ ~h.response
  /\ TakesAndFails(d, h, {})
  /\ sessions' = [sessions EXCEPT ![d] = SessionFor(d, h)]
  /\ handed' = IF Known(d, h) THEN handed ELSE [handed EXCEPT ![d] = {}]
  /\ UNCHANGED <<addresses, pending>>

\* One of the messages that waited fails: it and those behind it are lost.
FlushFails(d, h) ==
  /\ Handshake(d, h) /\ pending[d] # <<>>
  /\ \E n \in 0 .. Len(pending[d]) :
       TakesAndFails(d, h, Answer(d, h) \cup Flushed(d, h, n))
  /\ Forget(d)
  /\ pending' = [pending EXCEPT ![d] = <<>>]

----------------------------------------------------------------------------
(* Data *)

DataIgnored(d, x) ==
  /\ x.kind = "data" /\ ~trusted[d]
  /\ TakesAndSends(d, x, {})
  /\ UNCHANGED <<received, addresses, sessions, pending, handed>>

DataWithoutSession(d, x) ==
  /\ x.kind = "data" /\ trusted[d] /\ sessions[d] = None
  /\ TakesAndSends(d, x, To(d, x.at, {HelloOf(d, FALSE)}))
  /\ UNCHANGED <<received, addresses, sessions, pending, handed>>

\* From another address, or under other keys: the session ends, a new handshake
\* begins.
DataOfAnotherSession(d, x) ==
  /\ x.kind = "data" /\ trusted[d] /\ sessions[d] # None
  /\ x.at # sessions[d].addr \/ ~Decrypts(d, x)
  /\ TakesAndSends(d, x, To(d, x.at, {HelloOf(d, FALSE)}))
  /\ sessions' = [sessions EXCEPT ![d] = None]
  /\ handed' = [handed EXCEPT ![d] = {}]
  /\ UNCHANGED <<received, addresses, pending>>

Authentic(d, x) ==
  /\ x.kind = "data" /\ trusted[d] /\ sessions[d] # None
  /\ x.at = sessions[d].addr /\ Decrypts(d, x)
  /\ TakesAndSends(d, x, {})
  /\ UNCHANGED <<seen_handshakes, addresses, pending>>

\* "duplicate or stale cursor datagram".
DataRefused(d, x) ==
  /\ Authentic(d, x)
  /\ ~Accepts(sessions[d], x.sequence)
  /\ UNCHANGED <<sessions, handed, got>>

DataHanded(d, x) ==
  /\ Authentic(d, x)
  /\ Accepts(sessions[d], x.sequence)
  /\ sessions' = [sessions EXCEPT ![d] = Accepted(@, x.sequence)]
  /\ handed' = [handed EXCEPT ![d] = @ \cup {x.message}]
  /\ got' = [got EXCEPT ![d] = @ \cup {x.message}]

----------------------------------------------------------------------------
(* Restarts, addresses, the user, the network *)

\* The process starts again; mDNS tells it of the peer, and may tell the peer of it.
Restart(d) ==
  /\ Spend({"restart"})
  /\ incarnation' = [incarnation EXCEPT ![d] = @ + 1]
  /\ \E again \in {<<>>, <<host[d]>>} :
       announced' = [announced EXCEPT ![d] = <<host[Peer(d)]>>, ![Peer(d)] = @ \o again]
  /\ addresses' = [addresses EXCEPT ![d] = None]
  /\ sessions' = [sessions EXCEPT ![d] = None]
  /\ pending' = [pending EXCEPT ![d] = <<>>]
  /\ seen_handshakes' = [seen_handshakes EXCEPT ![d] = {}]
  /\ handed' = [handed EXCEPT ![d] = {}]
  /\ UNCHANGED <<host, trusted, net, got>>

\* The device gets another address, and mDNS announces it; what was sent to the old
\* one is lost.
Roam(d) ==
  /\ Spend({"roam"})
  /\ host' = [host EXCEPT ![d] = @ + 1]
  /\ announced' = [announced EXCEPT ![Peer(d)] = Append(@, host'[d])]
  /\ net' = {x \in net : x.from = d}
  /\ UNCHANGED <<incarnation, trusted, addresses, sessions, pending, received, handed>>

\* The peer is unpaired, or the cursor disabled.
Unpair(d) ==
  /\ trusted[d]
  /\ Spend({"unpair"})
  /\ trusted' = [trusted EXCEPT ![d] = FALSE]
  /\ UNCHANGED <<incarnation, host, announced, addresses, sessions, pending, received,
                 net, handed>>

\* A datagram is lost, or (for a Hello that asks for a new session) could not be sent.
Lose(x) ==
  /\ Spend({"lose"})
  /\ net' = net \ {x}
  /\ UNCHANGED <<world, addresses, sessions, pending, received, handed>>

----------------------------------------------------------------------------
HelloArrives(d) ==
  \E h \in net : HelloIgnored(d, h) \/ HelloTaken(d, h)

DataArrives(d) ==
  \E x \in net : \/ DataIgnored(d, x) \/ DataWithoutSession(d, x)
                 \/ DataOfAnotherSession(d, x) \/ DataRefused(d, x) \/ DataHanded(d, x)

SendsMessage(d) == SendUntrusted(d) \/ SendData(d) \/ SendQueued(d)

Fails(d) ==
  \/ ResolveFails(d) \/ SendFails(d) \/ SendQueuedFails(d) \/ HelloTickFails(d)
  \/ \E h \in net : HelloAnswerFails(d, h) \/ FlushFails(d, h)

Environment == \E d \in Device : Restart(d) \/ Roam(d) \/ Unpair(d)

Next ==
  \/ \E d \in Device : \/ Resolve(d) \/ HelloTick(d) \/ SendsMessage(d) \/ Fails(d)
                       \/ HelloArrives(d) \/ DataArrives(d)
  \/ Environment
  \/ \E x \in net : Lose(x)

Spec == Init /\ [][Next]_vars

\* select! polls its branches in random order: none that stays ready is passed over
\* for ever.
Fairness ==
  \A d \in Device : /\ WF_vars(Resolve(d))
                    /\ WF_vars(HelloTick(d))
                    /\ WF_vars(HelloArrives(d))
                    /\ WF_vars(DataArrives(d))

FairSpec == Spec /\ Fairness

----------------------------------------------------------------------------
(* Properties *)

\* While a session lasts no message is handed over twice: not when it arrives again,
\* not when newer ones have moved the window on in between (accept_sequence).
OnceWhileSessionLasts ==
  [][\A d \in Device, x \in net : DataHanded(d, x) => x.message \notin handed[d]]_vars

\* accept_sequence refuses only what it says, duplicates and what is stale: until
\* something ends a session, a message that arrives out of order is handed over if
\* it was not before and is less than the window behind.
OnlyOldRefused ==
  [][\A d \in Device, x \in net :
       /\ DataRefused(d, x)
       /\ \A kind \in {"restart", "roam", "unpair", "fail"} : spent[kind] = 0
       => \/ x.message \in handed[d]
          \/ x.sequence + WindowSize <= sessions[d].receive_highest]_vars

\* Nothing waits for a session that is there: a message queued for a peer is sent
\* before any later one, whichever side's Hello makes the session.  (A Hello whose
\* answer fails makes one and returns before flush_pending.)
PendingOnlyWithoutSession ==
  \A d \in Device : sessions[d] # None /\ pending[d] # <<>> => spent["fail"] > 0

\* What keeps the peer's Hellos from being taken: a session of keys or an address the
\* peer does not have, made after its Hello had been seen, or before it moved.
Deaf(d) ==
  /\ sessions[d] # None
  /\ incarnation[Peer(d)] \in seen_handshakes[d]
  /\ sessions[d].peer # incarnation[Peer(d)] \/ sessions[d].addr # host[Peer(d)]

Waiting(d) ==
  /\ sessions[d] = None
  /\ addresses[d] = host[Peer(d)]
  /\ trusted[d] /\ trusted[Peer(d)]

\* A device that knows where its peer is gets a session, over lost Hellos, restarts
\* and failures of either side, unless the peer is deaf to it.
HelloAnswered ==
  \A d \in Device : Waiting(d) ~> (~Waiting(d) \/ Deaf(Peer(d)))

\* As README.md:394 has it, "Paired online peers are detected automatically": the
\* same, whatever the peer has seen before.
AlwaysAnswered == \A d \in Device : Waiting(d) ~> ~Waiting(d)

\* "duplicate or stale cursor datagram" (transport.rs:378): what is refused has been
\* handed over before, or something newer has.
RefusedIsOld ==
  [][\A d \in Device, x \in net :
       DataRefused(d, x) => \E m \in got[d] : m >= x.message]_vars
=============================================================================
