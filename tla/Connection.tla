----------------------------- MODULE Connection -----------------------------
(***************************************************************************)
(* One connection between two daemons: the peer_loop at each end (daemon.rs) *)
(* and the SecureConnection it reads and writes (network.rs), from Hello to  *)
(* the end of either loop.                                                   *)
(*                                                                           *)
(* A message is a number of encrypted records and a record is two pieces,    *)
(* its length and its body.  A piece is read or written in one step; between *)
(* any two pieces `receive` or `send` may have to wait, and a `receive` that *)
(* waits is dropped by select! when the bus has something.  The pieces it    *)
(* had read are lost then, and whatever follows is taken for the beginning   *)
(* of a message.                                                             *)
(***************************************************************************)
EXTENDS Naturals, Sequences

End == {"left", "right"}
Other(n) == IF n = "left" THEN "right" ELSE "left"

CONSTANTS
  Size,        \* numbers of records a message may have
  Window,      \* pieces TCP buffers in one direction
  BusLimit,    \* messages the bus keeps for a slow receiver (128 in the code)
  Held,        \* what `latest` may hold: sizes, 0 for None
  Publishes,   \* bound: messages put on each bus
  Faults       \* bound: connections lost, and peers unpaired

ASSUME SizeAssumption == Size \subseteq Nat \ {0}
ASSUME HeldAssumption == Held \subseteq Size \cup {0}
ASSUME WindowAssumption == Window \in Nat \ {0}
ASSUME BusLimitAssumption == BusLimit \in Nat \ {0}
ASSUME BoundsAssumption == Publishes \in [End -> Nat] /\ Faults \in Nat

\* An end's messages are numbered: Hello, `latest`, those of the bus, Ping.
Number == UNION {0..(Publishes[n] + 2) : n \in End}
Msg == [no : Number, size : Size \cup {1}]

\* A message on the bus; `ours` unless this peer is its source or another its
\* target.
Published == [no : Number, size : Size \cup {1}, ours : BOOLEAN]

Hello == [no |-> 0, size |-> 1]

\* One record's length prefix or its body, of which the header says the message
\* (`group`), which record it is (`index`, from 1 here) and of how many.
Piece == [group : Number, index : Nat, total : Nat, part : {"length", "body"}]

\* Why a loop ended: trust withdrawn, the bus receiver lagged, the stream made no
\* sense, the other end or the network is gone.
Ended == {"unpaired", "lagged", "torn", "lost"}

VARIABLES
  stage,      \* "hello", "latest", "live", or why the loop ended
  trusted,    \* the peer is in the config
  latest,     \* size of the event in `latest` when Hello came, 0 for None
  bus,        \* messages the loop has not taken from the bus
  lagged,     \* the bus has dropped some
  writing,    \* pieces of the message in `send` that are not written
  got,        \* pieces the present `receive` has read
  tcp,        \* pieces n wrote that the other end has not read
  due,        \* history: messages for the peer put on the bus since subscribing
  sent,       \* history: messages sent, after Hello
  delivered,  \* history: messages n handed to its main loop
  faults,     \* connections lost and peers unpaired
  puts        \* messages put on each bus

vars == <<stage, trusted, latest, bus, lagged, writing, got, tcp, due, sent,
          delivered, faults, puts>>

TypeOK ==
  /\ stage \in [End -> {"hello", "latest", "live"} \cup Ended]
  /\ trusted \in [End -> BOOLEAN]
  /\ latest \in [End -> Held]
  /\ bus \in [End -> Seq(Published)]
  /\ \A n \in End : Len(bus[n]) <= BusLimit
  /\ lagged \in [End -> BOOLEAN]
  /\ writing \in [End -> Seq(Piece)]
  /\ got \in [End -> Seq(Piece)]
  /\ tcp \in [End -> Seq(Piece)]
  /\ \A n \in End : Len(tcp[n]) <= Window
  /\ due \in [End -> Seq(Msg)]
  /\ sent \in [End -> Seq(Msg)]
  /\ delivered \in [End -> Seq(Msg)]
  /\ faults \in Nat
  /\ puts \in [End -> Nat]

\* SecureConnection::send: the pieces of a message, record by record.
Pieces(m) ==
  [i \in 1..(2 * m.size) |->
     [group |-> m.no, index |-> (i + 1) \div 2, total |-> m.size,
      part |-> IF i % 2 = 1 THEN "length" ELSE "body"]]

\* peer_loop begins with Hello.
Init ==
  /\ stage = [n \in End |-> "hello"]
  /\ trusted = [n \in End |-> TRUE]
  /\ latest \in [End -> Held]
  /\ bus = [n \in End |-> <<>>]
  /\ lagged = [n \in End |-> FALSE]
  /\ writing = [n \in End |-> Pieces(Hello)]
  /\ got = [n \in End |-> <<>>]
  /\ tcp = [n \in End |-> <<>>]
  /\ due = [n \in End |-> <<>>]
  /\ sent = [n \in End |-> <<>>]
  /\ delivered = [n \in End |-> <<>>]
  /\ faults = 0
  /\ puts = [n \in End |-> 0]

Running(n) == stage[n] \notin Ended

----------------------------------------------------------------------------
(* Helpers *)

\* The loop returns and its connection is closed: a prefix of what it wrote
\* arrives, and what it has not read is gone.
Close(n, why) ==
  /\ stage' = [stage EXCEPT ![n] = why]
  /\ writing' = [writing EXCEPT ![n] = <<>>]
  /\ got' = [got EXCEPT ![n] = <<>>]
  /\ bus' = [bus EXCEPT ![n] = <<>>]
  /\ \E i \in 0..Len(tcp[n]) :
       tcp' = [tcp EXCEPT ![n] = SubSeq(@, 1, i), ![Other(n)] = <<>>]
  /\ UNCHANGED <<trusted, latest, lagged, due, sent, delivered, puts>>

\* The loop begins to send m.
send(n, m) ==
  /\ writing' = [writing EXCEPT ![n] = Pieces(m)]
  /\ sent' = [sent EXCEPT ![n] = Append(@, m)]

\* bus.send, for a receiver that has subscribed: the oldest message makes room.
Put(n, m) ==
  IF Len(bus[n]) < BusLimit
    THEN /\ bus' = [bus EXCEPT ![n] = Append(@, m)]
         /\ UNCHANGED lagged
    ELSE /\ bus' = [bus EXCEPT ![n] = Append(Tail(@), m)]
         /\ lagged' = [lagged EXCEPT ![n] = TRUE]

\* Mutant: Lagged is skipped over.
NeverLagged(n) == FALSE

HasLagged(n) == lagged[n]

----------------------------------------------------------------------------
(* Sending *)

\* Mutant: the end of a message stays in a buffer nobody flushes.
WritesAllButLast(n) ==
  /\ writing[n] # <<>>
  /\ Len(tcp[n]) < Window
  /\ writing' = [writing EXCEPT ![n] = Tail(@)]
  /\ tcp' = [tcp EXCEPT ![n] =
       IF Len(writing[n]) = 1 THEN @ ELSE Append(@, Head(writing[n]))]
  /\ UNCHANGED <<stage, trusted, latest, bus, lagged, got, due, sent,
                 delivered, faults, puts>>

\* One piece, when TCP has room for it.
Write(n) ==
  /\ writing[n] # <<>>
  /\ Len(tcp[n]) < Window
  /\ writing' = [writing EXCEPT ![n] = Tail(@)]
  /\ tcp' = [tcp EXCEPT ![n] = Append(@, Head(writing[n]))]
  /\ UNCHANGED <<stage, trusted, latest, bus, lagged, got, due, sent,
                 delivered, faults, puts>>

WriteFails(n) ==
  /\ writing[n] # <<>>
  /\ ~Running(Other(n))
  /\ Close(n, "lost")
  /\ UNCHANGED faults

\* `latest` is sent: the loop subscribes to the bus.
Subscribe(n) ==
  /\ stage[n] = "latest" /\ writing[n] = <<>>
  /\ stage' = [stage EXCEPT ![n] = "live"]
  /\ UNCHANGED <<trusted, latest, bus, lagged, writing, got, tcp, due, sent,
                 delivered, faults, puts>>

----------------------------------------------------------------------------
(* Receiving *)

\* The loop is in `receive`: for Hello, or in its select!.
Reading(n) == stage[n] \in {"hello", "live"} /\ writing[n] = <<>>

\* Mutant: the index of a record is not looked at.
FitsAnywhere(n, p) ==
  /\ p.part = (IF Len(got[n]) % 2 = 0 THEN "length" ELSE "body")
  /\ got[n] # <<>> => p.group = got[n][1].group

\* What `receive` can take next: a length where it reads one, or the body of
\* the next record of the message it reads.
Fits(n, p) ==
  /\ p.part = (IF Len(got[n]) % 2 = 0 THEN "length" ELSE "body")
  /\ p.index = Len(got[n]) \div 2 + 1
  /\ got[n] # <<>> => p.group = got[n][1].group

Read(n) ==
  /\ Reading(n)
  /\ tcp[Other(n)] # <<>>
  /\ Fits(n, Head(tcp[Other(n)]))
  /\ tcp' = [tcp EXCEPT ![Other(n)] = Tail(@)]
  /\ UNCHANGED <<trusted, latest, bus, lagged, due, faults, puts>>

Last(p) == p.part = "body" /\ p.index = p.total

ReadPart(n) ==
  /\ Read(n)
  /\ ~Last(Head(tcp[Other(n)]))
  /\ got' = [got EXCEPT ![n] = Append(@, Head(tcp[Other(n)]))]
  /\ UNCHANGED <<stage, writing, sent, delivered>>

\* Hello is whole: what `latest` holds is sent.
ReadHello(n) ==
  /\ Read(n)
  /\ stage[n] = "hello" /\ Last(Head(tcp[Other(n)]))
  /\ got' = [got EXCEPT ![n] = <<>>]
  /\ stage' = [stage EXCEPT ![n] = "latest"]
  /\ IF latest[n] = 0 THEN UNCHANGED <<writing, sent>>
     ELSE send(n, [no |-> 1, size |-> latest[n]])
  /\ UNCHANGED delivered

\* The last record is read: what has been put together goes to the main loop.
ReadWhole(n) ==
  /\ Read(n)
  /\ stage[n] = "live" /\ Last(Head(tcp[Other(n)]))
  /\ got' = [got EXCEPT ![n] = <<>>]
  /\ LET m == [no |-> Head(tcp[Other(n)]).group, size |-> (Len(got[n]) + 1) \div 2]
     IN delivered' = [delivered EXCEPT ![n] = Append(@, m)]
  /\ UNCHANGED <<stage, writing, sent>>

\* Too long a record, one that does not decrypt or one out of sequence.
ReadTorn(n) ==
  /\ Reading(n)
  /\ tcp[Other(n)] # <<>>
  /\ ~Fits(n, Head(tcp[Other(n)]))
  /\ Close(n, "torn")
  /\ UNCHANGED faults

ReadEof(n) ==
  /\ Reading(n)
  /\ tcp[Other(n)] = <<>> /\ ~Running(Other(n))
  /\ Close(n, "lost")
  /\ UNCHANGED faults

----------------------------------------------------------------------------
(* The bus *)

\* The main loop or an IPC handler of n's daemon.
Publish(n) ==
  /\ stage[n] = "live" /\ puts[n] < Publishes[n]
  /\ puts' = [puts EXCEPT ![n] = @ + 1]
  /\ \E size \in Size, ours \in BOOLEAN :
       /\ Put(n, [no |-> puts[n] + 2, size |-> size, ours |-> ours])
       /\ due' = [due EXCEPT ![n] =
                    IF ours THEN Append(@, [no |-> puts[n] + 2, size |-> size]) ELSE @]
  /\ UNCHANGED <<stage, trusted, latest, writing, got, tcp, sent, delivered, faults>>

\* select! takes the bus: the `receive` that waits is dropped with all it read.
TakesFromBus(n) ==
  /\ stage[n] = "live" /\ writing[n] = <<>>
  /\ ~HasLagged(n)
  /\ bus[n] # <<>>

BusSkipped(n) ==
  /\ TakesFromBus(n)
  /\ ~Head(bus[n]).ours
  /\ bus' = [bus EXCEPT ![n] = Tail(@)]
  /\ got' = [got EXCEPT ![n] = <<>>]
  /\ UNCHANGED <<stage, trusted, latest, lagged, writing, tcp, due, sent,
                 delivered, faults, puts>>

BusSent(n) ==
  /\ TakesFromBus(n)
  /\ Head(bus[n]).ours /\ trusted[n]
  /\ bus' = [bus EXCEPT ![n] = Tail(@)]
  /\ got' = [got EXCEPT ![n] = <<>>]
  /\ send(n, [no |-> Head(bus[n]).no, size |-> Head(bus[n]).size])
  /\ UNCHANGED <<stage, trusted, latest, lagged, tcp, due, delivered, faults, puts>>

BusUnpaired(n) ==
  /\ TakesFromBus(n)
  /\ Head(bus[n]).ours /\ ~trusted[n]
  /\ Close(n, "unpaired")
  /\ UNCHANGED faults

BusLagged(n) ==
  /\ stage[n] = "live" /\ writing[n] = <<>>
  /\ HasLagged(n)
  /\ Close(n, "lagged")
  /\ UNCHANGED faults

----------------------------------------------------------------------------
(* The environment *)

\* The IPC handler withdraws trust and wakes the loop with a Ping.
Unpair(n) ==
  /\ Running(n) /\ trusted[n] /\ faults < Faults
  /\ faults' = faults + 1
  /\ trusted' = [trusted EXCEPT ![n] = FALSE]
  /\ LET ping == [no |-> Publishes[n] + 2, size |-> 1]
     IN IF stage[n] = "live"
          THEN /\ Put(n, [no |-> ping.no, size |-> ping.size, ours |-> TRUE])
               /\ due' = [due EXCEPT ![n] = Append(@, ping)]
          ELSE UNCHANGED <<bus, lagged, due>>
  /\ UNCHANGED <<stage, latest, writing, got, tcp, sent, delivered, puts>>

Lose(n) ==
  /\ Running(n) /\ faults < Faults
  /\ faults' = faults + 1
  /\ Close(n, "lost")

----------------------------------------------------------------------------
(* The specification *)

Send(n) == Write(n) \/ WriteFails(n) \/ Subscribe(n)

Receive(n) ==
  ReadPart(n) \/ ReadHello(n) \/ ReadWhole(n) \/ ReadTorn(n) \/ ReadEof(n)

Bus(n) == BusSkipped(n) \/ BusSent(n) \/ BusUnpaired(n) \/ BusLagged(n)

Next ==
  \E n \in End :
    Send(n) \/ Receive(n) \/ Bus(n) \/ Publish(n) \/ Unpair(n) \/ Lose(n)

Spec == Init /\ [][Next]_vars

\* tokio polls what is ready, and select! begins with a random branch, so that
\* neither the bus nor the stream is passed over for ever.
Fairness ==
  \A n \in End : WF_vars(Send(n)) /\ WF_vars(Receive(n)) /\ WF_vars(Bus(n))

FairSpec == Spec /\ Fairness

----------------------------------------------------------------------------
(* Properties *)

\* Each direction is the channel ClipboardSync and Transfer take it for: a
\* `receive` that was dropped half done may end the connection, but no message
\* arrives cut short, twice, out of order or past one that did not arrive.
LeftToRight ==
  INSTANCE LossyFifo WITH
    sent <- sent["left"], delivered <- delivered["right"],
    sending <- Running("left"), receiving <- Running("right")

RightToLeft ==
  INSTANCE LossyFifo WITH
    sent <- sent["right"], delivered <- delivered["left"],
    sending <- Running("right"), receiving <- Running("left")

Implements == LeftToRight!Spec /\ RightToLeft!Spec

\* What a peer is sent is `latest`, if there was an event, and then everything
\* published for it since its loop subscribed, in that order: a loop too slow for the
\* bus ends and never goes on past what the bus has dropped.
Ahead(n) == IF latest[n] = 0 THEN 0 ELSE 1
SentIsDue(n) ==
  \A i \in 1..Len(sent[n]) :
    IF i <= Ahead(n) THEN sent[n][i] = [no |-> 1, size |-> latest[n]]
    ELSE i - Ahead(n) <= Len(due[n]) /\ sent[n][i] = due[n][i - Ahead(n)]
NothingSkipped == \A n \in End : SentIsDue(n)

\* Both loops write, neither reads, and TCP has no room.
MutualWait == \A n \in End : writing[n] # <<>> /\ Len(tcp[n]) = Window

\* Over a connection that stays up Hello and all that is sent arrives, unless
\* both loops wait for each other.
SentArrives ==
  \A n \in End :
    stage[n] = "hello" \/ Len(sent[n]) > Len(delivered[Other(n)]) ~>
      \/ stage[n] # "hello" /\ Len(sent[n]) = Len(delivered[Other(n)])
      \/ ~Running(n) \/ ~Running(Other(n))
      \/ MutualWait

\* Large messages do not hold up a connection for ever (README.md:
\* "ClipboardEvent broadcast to all active peer connections", "Aggregate
\* clipboard payload limit is 16 MiB").
NeverWaitsForever == \A n \in End : writing[n] # <<>> ~> writing[n] = <<>>

\* No stream gets out of step with its reader: a message of many records is
\* read whole (network.rs, test authenticated_connection_fragments_large_message).
StaysInStep == \A n \in End : stage[n] # "torn"
=============================================================================
