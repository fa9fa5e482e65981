------------------------ MODULE ClipboardSyncProofs ------------------------
(***************************************************************************)
(* Proofs about ClipboardSync, for every set of devices, every topology,   *)
(* every SeenLimit and all Budgets: its types, what makes version vectors  *)
(* trustworthy across crashes, what unpaired devices are sent, whose       *)
(* copies are published, what paused daemons hold and what clipboards show;*)
(* and, of two devices, that they agree                                    *)
(***************************************************************************)
EXTENDS ClipboardSync, SequenceTheorems, FiniteSetTheorems, TLAPS

----------------------------------------------------------------------------
(* Version vectors, for every set of devices: what the operations guarantee, *)
(* and what makes Beats an order to resolve conflicts with                   *)

\* increment counts one more event of d and leaves the others alone.
LEMMA IncrementFacts ==
  ASSUME NEW v \in VV, NEW d \in Device
  PROVE  /\ increment(v, d) \in VV
         /\ increment(v, d)[d] = v[d] + 1
         /\ \A x \in Device : x # d => increment(v, d)[x] = v[x]
         /\ Leq(v, increment(v, d))
BY DEF increment, VV, Leq

\* merge is the least upper bound: it takes in both vectors and nothing more.
LEMMA MergeFacts ==
  ASSUME NEW v \in VV, NEW w \in VV
  PROVE  /\ merge(v, w) \in VV
         /\ Leq(v, merge(v, w)) /\ Leq(w, merge(v, w))
         /\ \A u \in VV : Leq(v, u) /\ Leq(w, u) => Leq(merge(v, w), u)
BY DEF merge, VV, Leq

\* The order in which peers' clocks are merged does not matter.
LEMMA MergeCommutes ==
  ASSUME NEW v \in VV, NEW w \in VV
  PROVE  merge(v, w) = merge(w, v)
BY DEF merge, VV

LEMMA MergeAssociates ==
  ASSUME NEW u \in VV, NEW v \in VV, NEW w \in VV
  PROVE  merge(u, merge(v, w)) = merge(merge(u, v), w)
<1>1. \A d \in Device : merge(u, merge(v, w))[d] = merge(merge(u, v), w)[d]
  BY DEF merge, VV
<1> QED
  BY <1>1 DEF merge

LEMMA LeqTransitive ==
  ASSUME NEW u \in VV, NEW v \in VV, NEW w \in VV, Leq(u, v), Leq(v, w)
  PROVE  Leq(u, w)
<1>1. SUFFICES ASSUME NEW d \in Device
               PROVE  u[d] <= w[d]
  BY DEF Leq
<1>2. u[d] \in Nat /\ v[d] \in Nat /\ w[d] \in Nat
  BY DEF VV
<1>3. u[d] <= v[d] /\ v[d] <= w[d]
  BY DEF Leq
<1> QED
  BY <1>2, <1>3

\* relation answers with one of its four values, and "After" exactly when the
\* first vector knows all the second does and more.
LEMMA RelationFacts ==
  ASSUME NEW v \in VV, NEW w \in VV
  PROVE  /\ relation(v, w) \in {"Before", "After", "Equal", "Concurrent"}
         /\ relation(v, w) = "After" <=> Leq(w, v) /\ ~Leq(v, w)
         /\ relation(v, w) = "Before" <=> Leq(v, w) /\ ~Leq(w, v)
         /\ relation(v, w) = "Equal" <=> Leq(v, w) /\ Leq(w, v)
         /\ relation(v, w) = "Concurrent" <=> ~Leq(v, w) /\ ~Leq(w, v)
<1>1. HasLess(v, w) <=> ~Leq(w, v)
  BY DEF HasLess, Leq, VV
<1>2. HasGreater(v, w) <=> ~Leq(v, w)
  BY DEF HasGreater, Leq, VV
<1> QED
  BY <1>1, <1>2 DEF relation

\* A clock that has taken in w and is then incremented comes after w.
LEMMA IncrementComesAfter ==
  ASSUME NEW v \in VV, NEW w \in VV, NEW d \in Device, Leq(w, v)
  PROVE  relation(increment(v, d), w) = "After"
<1>1. increment(v, d) \in VV /\ Leq(w, increment(v, d))
  BY IncrementFacts, LeqTransitive
<1>2. ~Leq(increment(v, d), w)
  BY IncrementFacts DEF Leq, VV
<1> QED
  BY <1>1, <1>2, RelationFacts

\* No two events replace each other, so a pair of devices that each hold one
\* of them and send it cannot swap them for ever.
THEOREM BeatsAsymmetric ==
  ASSUME NEW e, NEW f, e.clock \in VV, f.clock \in VV,
         e.origin \in Device, f.origin \in Device, Beats(e, f)
  PROVE  ~Beats(f, e)
<1>1. CASE relation(e.clock, f.clock) = "After"
  <2>1. relation(f.clock, e.clock) = "Before"
    BY <1>1, RelationFacts
  <2> QED
    BY <2>1 DEF Beats
<1>2. CASE relation(e.clock, f.clock) = "Concurrent"
  <2>1. relation(f.clock, e.clock) = "Concurrent"
    BY <1>2, RelationFacts
  <2>2. e.origin > f.origin
    BY <1>2 DEF Beats
  <2>3. ~(f.origin > e.origin)
    <3>1. e.origin \in Nat /\ f.origin \in Nat
      BY DeviceAssumption
    <3> QED
      BY <2>2, <3>1
  <2> QED
    BY <2>1, <2>3 DEF Beats
<1> QED
  BY <1>1, <1>2, RelationFacts DEF Beats

\* Of two events of different devices whose clocks differ one replaces the
\* other: two devices that have exchanged them agree on which.
THEOREM BeatsTotal ==
  ASSUME NEW e, NEW f, e.clock \in VV, f.clock \in VV,
         e.origin \in Device, f.origin \in Device,
         e.origin # f.origin, relation(e.clock, f.clock) # "Equal"
  PROVE  Beats(e, f) \/ Beats(f, e)
<1>1. CASE relation(e.clock, f.clock) = "Concurrent"
  <2>1. relation(f.clock, e.clock) = "Concurrent"
    BY <1>1, RelationFacts
  <2>2. e.origin > f.origin \/ f.origin > e.origin
    BY DeviceAssumption
  <2> QED
    BY <1>1, <2>1, <2>2 DEF Beats
<1>2. CASE relation(e.clock, f.clock) = "Before"
  <2>1. relation(f.clock, e.clock) = "After"
    BY <1>2, RelationFacts
  <2> QED
    BY <2>1 DEF Beats
<1> QED
  BY <1>1, <1>2, RelationFacts DEF Beats

----------------------------------------------------------------------------
(* Queues, one per device, and channels, one per pair of devices *)

LEMMA QueueAppend ==
  ASSUME NEW S, NEW q \in [Device -> Seq(S)], NEW n \in Device, NEW x \in S
  PROVE  [q EXCEPT ![n] = Append(@, x)] \in [Device -> Seq(S)]
<1>1. Append(q[n], x) \in Seq(S)
  BY AppendProperties
<1> QED
  BY <1>1

LEMMA QueueTail ==
  ASSUME NEW S, NEW q \in [Device -> Seq(S)], NEW n \in Device, q[n] # <<>>
  PROVE  /\ [q EXCEPT ![n] = Tail(@)] \in [Device -> Seq(S)]
         /\ Head(q[n]) \in S
<1>1. Tail(q[n]) \in Seq(S) /\ Head(q[n]) \in S
  BY HeadTailProperties
<1> QED
  BY <1>1

LEMMA ChannelTail ==
  ASSUME NEW S, NEW c \in [Device -> [Device -> Seq(S)]],
         NEW n \in Device, NEW m \in Device, c[m][n] # <<>>
  PROVE  /\ [c EXCEPT ![m][n] = Tail(@)] \in [Device -> [Device -> Seq(S)]]
         /\ Head(c[m][n]) \in S
<1>1. Tail(c[m][n]) \in Seq(S) /\ Head(c[m][n]) \in S
  BY HeadTailProperties
<1> QED
  BY <1>1

LEMMA ChannelAppend ==
  ASSUME NEW S, NEW c \in [Device -> [Device -> Seq(S)]],
         NEW n \in Device, NEW m \in Device, NEW x \in S
  PROVE  [c EXCEPT ![n][m] = Append(@, x)] \in [Device -> [Device -> Seq(S)]]
<1>1. Append(c[n][m], x) \in Seq(S)
  BY AppendProperties
<1> QED
  BY <1>1

\* A prefix of a queue is a queue.
LEMMA PrefixType ==
  ASSUME NEW S, NEW s \in Seq(S), NEW i \in 0..Len(s)
  PROVE  SubSeq(s, 1, i) \in Seq(S)
<1>1. Len(s) \in Nat
  BY LenProperties
<1>2. \A j \in 1..i : s[j] \in S
  <2>1. SUFFICES ASSUME NEW j \in 1..i
                 PROVE  s[j] \in S
    OBVIOUS
  <2>2. j \in 1..Len(s)
    BY <1>1
  <2> QED
    BY <2>2, ElementOfSeq
<1> QED
  BY <1>1, <1>2, SubSeqProperties

\* What Broadcast leaves on the way holds the old events and the new one.
LEMMA SentOnType ==
  ASSUME NEW S, chan \in [Device -> [Device -> Seq(S)]],
         NEW n \in Device, NEW e \in S, NEW source
  PROVE  SentOn(n, e, source) \in [Device -> Seq(S)]
<1>1. \A m \in Device : chan[n][m] \in Seq(S) /\ Append(chan[n][m], e) \in Seq(S)
  BY AppendProperties
<1> QED
  BY <1>1 DEF SentOn

LEMMA LinksAfterType ==
  ASSUME link \in [Device -> [Device -> LinkState]], NEW n \in Device, NEW source
  PROVE  LinksAfter(n, source) \in [Device -> LinkState]
BY DEF LinksAfter, LinkState

\* `remember` keeps at most SeenLimit ids.
LEMMA RememberType ==
  ASSUME seen \in [Device -> Seq(Nat)],
         \A n \in Device : Len(seen[n]) <= SeenLimit,
         NEW n \in Device, NEW id \in Nat, remember(n, id)
  PROVE  /\ seen' \in [Device -> Seq(Nat)]
         /\ \A m \in Device : Len(seen'[m]) <= SeenLimit
<1> DEFINE s == seen[n]
           t == IF Len(s) < SeenLimit THEN Append(s, id) ELSE Append(Tail(s), id)
<1>1. s \in Seq(Nat) /\ Len(s) \in Nat /\ Len(s) <= SeenLimit /\ SeenLimit \in Nat \ {0}
  BY SeenLimitAssumption, LenProperties
<1>2. t \in Seq(Nat) /\ Len(t) <= SeenLimit
  <2>1. CASE Len(s) < SeenLimit
    <3>1. Append(s, id) \in Seq(Nat) /\ Len(Append(s, id)) = Len(s) + 1
      BY <1>1, AppendProperties
    <3> QED
      BY <1>1, <2>1, <3>1
  <2>2. CASE ~(Len(s) < SeenLimit)
    <3>1. Len(s) = SeenLimit /\ s # <<>>
      BY <1>1, <2>2
    <3>2. Tail(s) \in Seq(Nat) /\ Len(Tail(s)) = Len(s) - 1
      BY <1>1, <3>1, HeadTailProperties
    <3>3. /\ Append(Tail(s), id) \in Seq(Nat)
          /\ Len(Append(Tail(s), id)) = Len(Tail(s)) + 1
      BY <3>2, AppendProperties
    <3> QED
      BY <1>1, <2>2, <3>1, <3>2, <3>3
  <2> QED
    BY <2>1, <2>2
<1>3. seen' = [seen EXCEPT ![n] = t]
  BY DEF remember
<1> HIDE DEF t
<1> QED
  BY <1>2, <1>3
----------------------------------------------------------------------------
(* Types *)

LEMMA SpendType ==
  ASSUME TypeOK, NEW kind \in EnvironmentKind, Spend(kind)
  PROVE  spent' \in [EnvironmentKind -> Nat]
  BY DEF Spend, TypeOK

LEMMA NextContentType ==
  ASSUME TypeOK, NEW n \in Device, NEW files \in BOOLEAN
  PROVE  NextContent(n, files) \in Payload
<1>2. /\ spent["copy"] \in Nat
      /\ spent["copyFiles"] \in Nat
      /\ spent["race"] \in Nat
  BY DEF TypeOK, EnvironmentKind
<1>3. cfg[n].paused \in BOOLEAN
  BY DEF TypeOK, Config
<1> QED
  BY <1>2, <1>3 DEF NextContent, Payload

LEMMA NewEventType ==
  ASSUME TypeOK, NEW n \in Device, NEW clock \in VV, NEW payload \in Payload
  PROVE  NewEvent(n, clock, payload) \in Event
<1>1. Cardinality(created) + 1 \in Nat
  BY FS_CardinalityType DEF TypeOK
<1>2. clock[n] \in Nat
  BY DEF VV
<1> QED
  BY <1>1, <1>2 DEF NewEvent, Event

\* A new event is added to what was made, remembered, and held.
LEMMA CreatedType ==
  ASSUME TypeOK, NEW e \in Event, created' = created \cup {e}
  PROVE  created' \in SUBSET Event /\ IsFiniteSet(created')
BY FS_AddElement DEF TypeOK

LEMMA ConfigType ==
  ASSUME NEW c \in Config, NEW clock \in VV
  PROVE  [c EXCEPT !.clock = clock] \in Config
BY DEF Config

LEMMA SaveType ==
  ASSUME TypeOK, NEW n \in Device, NEW config \in Config, Save(n, config)
  PROVE  cfg' \in [Device -> Config] /\ disk' \in [Device -> Config]
BY DEF TypeOK, Save

LEMMA PublishType ==
  ASSUME TypeOK, NEW n \in Device, NEW payload \in Payload, Publish(n, payload)
  PROVE  /\ cfg' \in [Device -> Config]
         /\ disk' \in [Device -> Config]
         /\ current' \in [Device -> created' \cup {None}]
         /\ latest' \in [Device -> created' \cup {None}]
         /\ seen' \in [Device -> Seq(Nat)]
         /\ \A m \in Device : Len(seen'[m]) <= SeenLimit
         /\ link' \in [Device -> [Device -> LinkState]]
         /\ chan' \in [Device -> [Device -> Seq(created')]]
         /\ created' \in SUBSET Event /\ IsFiniteSet(created')
         /\ missed' \in SUBSET (Device \X Device)
<1> DEFINE clock == increment(cfg[n].clock, n)
           e == NewEvent(n, clock, payload)
<1>1. clock \in VV
  BY IncrementFacts DEF TypeOK, Config
<1>2. e \in Event /\ e.id \in Nat
  BY <1>1, NewEventType DEF Event
<1>3. [cfg[n] EXCEPT !.clock = clock] \in Config
  BY <1>1, ConfigType DEF TypeOK
<1>4. /\ Save(n, [cfg[n] EXCEPT !.clock = clock])
      /\ created' = created \cup {e}
      /\ remember(n, e.id)
      /\ current' = [current EXCEPT ![n] = e]
      /\ latest' = [latest EXCEPT ![n] = e]
      /\ chan' = [chan EXCEPT ![n] = SentOn(n, e, n)]
      /\ link' = [link EXCEPT ![n] = LinksAfter(n, n)]
      /\ missed' = missed \cup MissedBy(n, n)
  BY DEF Publish, SaveClock
<1>5. cfg' \in [Device -> Config] /\ disk' \in [Device -> Config]
  BY <1>3, <1>4, SaveType
<1>6. /\ chan \in [Device -> [Device -> Seq(created')]]
      /\ SentOn(n, e, n) \in [Device -> Seq(created')]
  <2>1. created \subseteq created' /\ e \in created'
    BY <1>4
  <2>2. chan \in [Device -> [Device -> Seq(created')]]
    BY <2>1, SeqMonotonic DEF TypeOK
  <2> QED
    BY <2>1, <2>2, SentOnType
<1>7. LinksAfter(n, n) \in [Device -> LinkState]
  BY LinksAfterType DEF TypeOK
<1>8. MissedBy(n, n) \in SUBSET (Device \X Device)
  BY DEF MissedBy
<1>9. /\ seen' \in [Device -> Seq(Nat)]
      /\ \A m \in Device : Len(seen'[m]) <= SeenLimit
  BY <1>2, <1>4, RememberType DEF TypeOK
<1>10. created' \in SUBSET Event /\ IsFiniteSet(created')
  BY <1>2, <1>4, CreatedType
<1> HIDE DEF clock, e
<1>11. chan' \in [Device -> [Device -> Seq(created')]]
  BY <1>4, <1>6
<1>12. /\ current' \in [Device -> created' \cup {None}]
       /\ latest' \in [Device -> created' \cup {None}]
  BY <1>2, <1>4 DEF TypeOK
<1>13. link' \in [Device -> [Device -> LinkState]]
  BY <1>4, <1>7 DEF TypeOK
<1>14. missed' \in SUBSET (Device \X Device)
  BY <1>4, <1>8 DEF TypeOK
<1> QED
  BY <1>5, <1>9, <1>10, <1>11, <1>12, <1>13, <1>14

LEMMA LocalTypeStep ==
  ASSUME TypeOK, NEW n \in Device,
         \/ \E files \in BOOLEAN : UserCopy(n, files)
         \/ Pasteboard(n) \/ BackendSetRaced(n)
         \/ LocalChangeDropped(n) \/ LocalChangeFiles(n)
         \/ LocalChangePublished(n)
  PROVE  TypeOK'
<1>1. CASE \E files \in BOOLEAN : UserCopy(n, files)
  <2>1. PICK files \in BOOLEAN : UserCopy(n, files)
    BY <1>1
  <2>2. NextContent(n, files) \in Payload
    BY NextContentType
  <2>3. spent' \in [EnvironmentKind -> Nat]
    BY <2>1, SpendType DEF UserCopy, EnvironmentKind
  <2> QED
    BY <2>1, <2>2, <2>3, NoneAssumption DEF TypeOK, UserCopy
<1>2. CASE BackendPoll(n)
  <2>1. clip[n] \in Payload
    BY <1>2 DEF TypeOK, BackendPoll
  <2> QED
    BY <1>2, <2>1, QueueAppend DEF TypeOK, BackendPoll
<1>3. CASE BackendCommand(n)
  <2>1. /\ commands' \in [Device -> Seq(Command)]
        /\ Head(commands[n]) \in Command
    BY <1>3, QueueTail DEF TypeOK, BackendCommand
  <2>2. clip' \in [Device -> Payload \cup {None}]
    BY <1>3, <2>1 DEF TypeOK, BackendCommand, Command
  <2>3. dirty' \in [Device -> BOOLEAN]
    BY <1>3 DEF TypeOK, BackendCommand
  <2>4. ASSUME NEW d \in Device, dirty'[d]
        PROVE  clip'[d] # None
    BY <1>3, <2>1, <2>4, NoneAssumption DEF TypeOK, BackendCommand, Command, TakesCount
  <2> QED
    BY <1>3, <2>1, <2>2, <2>3, <2>4 DEF TypeOK, BackendCommand
<1>4. CASE BackendSetRaced(n)
  <2>1. commands' \in [Device -> Seq(Command)]
    BY <1>4, QueueTail DEF TypeOK, BackendSetRaced
  <2>2. NextContent(n, FALSE) \in Payload
    BY NextContentType
  <2>3. spent' \in [EnvironmentKind -> Nat]
    BY <1>4, SpendType DEF BackendSetRaced, EnvironmentKind
  <2> QED
    BY <1>4, <2>1, <2>2, <2>3 DEF TypeOK, BackendSetRaced
<1>5. CASE LocalChangeDropped(n)
  <2>1. changes' \in [Device -> Seq(Payload)]
    BY <1>5, QueueTail DEF TypeOK, LocalChange, LocalChangeDropped
  <2> QED
    BY <1>5, <2>1 DEF TypeOK, LocalChange, LocalChangeDropped
<1>6. CASE LocalChangeFiles(n)
  <2>1. changes' \in [Device -> Seq(Payload)] /\ Head(changes[n]) \in Payload
    BY <1>6, QueueTail DEF TypeOK, LocalChange, LocalChangeFiles
  <2>2. sync' \in [Device -> SUBSET SyncRequest]
    BY <1>6, <2>1 DEF TypeOK, LocalChangeFiles, SyncRequest
  <2> QED
    BY <1>6, <2>1, <2>2 DEF TypeOK, LocalChange, LocalChangeFiles
<1>7. CASE LocalChangePublished(n)
  <2>1. changes' \in [Device -> Seq(Payload)] /\ Head(changes[n]) \in Payload
    BY <1>7, QueueTail DEF TypeOK, LocalChange, LocalChangePublished
  <2> QED
    BY <1>7, <2>1, PublishType DEF TypeOK, LocalChange, LocalChangePublished
<1> QED
  BY <1>1, <1>2, <1>3, <1>4, <1>5, <1>6, <1>7 DEF Pasteboard

LEMMA IncomingTypeStep ==
  ASSUME TypeOK, NEW n \in Device, NEW m \in Device,
         IncomingDropped(n, m) \/ IncomingAccepted(n, m)
  PROVE  TypeOK'
<1> DEFINE e == Head(chan[m][n])
<1>1. /\ [chan EXCEPT ![m][n] = Tail(@)] \in [Device -> [Device -> Seq(created)]]
      /\ e \in created /\ e \in Event
  BY ChannelTail DEF TypeOK, IncomingDropped, IncomingAccepted, Incoming
<1>2. CASE IncomingDropped(n, m)
  BY <1>1, <1>2 DEF TypeOK, IncomingDropped
<1>3. CASE IncomingAccepted(n, m)
  <2>1. merge(cfg[n].clock, e.clock) \in VV
    BY <1>1, MergeFacts DEF TypeOK, Config, Event
  <2>2. /\ cfg' \in [Device -> Config]
        /\ disk' \in [Device -> Config]
    <3>1. [cfg[n] EXCEPT !.clock = merge(cfg[n].clock, e.clock)] \in Config
      BY <2>1, ConfigType DEF TypeOK
    <3> QED
      BY <1>3, <3>1, SaveType DEF IncomingAccepted, SaveClock
  <2>3. /\ seen' \in [Device -> Seq(Nat)]
        /\ \A d \in Device : Len(seen'[d]) <= SeenLimit
    <3>1. e.id \in Nat
      BY <1>1 DEF Event
    <3> QED
      BY <1>3, <3>1, RememberType DEF TypeOK, IncomingAccepted
  <2>4. chan' \in [Device -> [Device -> Seq(created)]]
    <3>1. SentOn(n, e, m) \in [Device -> Seq(created)]
      BY <1>1, SentOnType DEF TypeOK
    <3> QED
      BY <1>1, <1>3, <3>1 DEF IncomingAccepted
  <2>5. link' \in [Device -> [Device -> LinkState]]
    <3>1. LinksAfter(n, m) \in [Device -> LinkState]
      BY LinksAfterType DEF TypeOK
    <3> QED
      BY <1>3, <3>1 DEF TypeOK, IncomingAccepted
  <2>6. missed' \in SUBSET (Device \X Device)
    BY <1>3 DEF TypeOK, IncomingAccepted, MissedBy
  <2>7. commands' \in [Device -> Seq(Command)]
    <3>1. [op |-> "Set", payload |-> e.payload] \in Command
      BY <1>1 DEF Command, Event
    <3>2. [commands EXCEPT ![n] = SetQueued(n, e.payload)]
            \in [Device -> Seq(Command)]
      BY <3>1, QueueAppend DEF TypeOK, SetQueued
    <3>3. \/ commands' = [commands EXCEPT ![n] = SetQueued(n, e.payload)]
          \/ commands' = commands
      BY <1>3 DEF IncomingAccepted
    <3> QED
      BY <3>2, <3>3 DEF TypeOK
  <2>8. /\ current' \in [Device -> created \cup {None}]
        /\ latest' \in [Device -> created \cup {None}]
    <3>1. \/ /\ current' = [current EXCEPT ![n] = e]
             /\ latest' = [latest EXCEPT ![n] = e]
          \/ current' = current /\ latest' = latest
      BY <1>3 DEF IncomingAccepted
    <3>2. e \in created
      BY <1>1
    <3> HIDE DEF e
    <3>3. CASE /\ current' = [current EXCEPT ![n] = e]
               /\ latest' = [latest EXCEPT ![n] = e]
      BY <3>2, <3>3 DEF TypeOK
    <3> QED
      BY <3>1, <3>3 DEF TypeOK
  <2> QED
    BY <1>3, <2>2, <2>3, <2>4, <2>5, <2>6, <2>7, <2>8
       DEF TypeOK, IncomingAccepted
<1> QED
  BY <1>2, <1>3

LEMMA ControlTypeStep ==
  ASSUME TypeOK, NEW n \in Device,
         ControlPause(n) \/ ControlResume(n) \/ ControlSyncFiles(n)
  PROVE  TypeOK'
<1>1. control' \in [Device -> Seq(Control)] /\ Head(control[n]) \in Control
  <2>1. control[n] # <<>> /\ control' = [control EXCEPT ![n] = Tail(@)]
    BY DEF ControlPause, ControlResume, ControlSyncFiles
  <2>2. control \in [Device -> Seq(Control)]
    BY DEF TypeOK
  <2> QED
    BY <2>1, <2>2, QueueTail
<1>2. CASE ControlPause(n)
  BY <1>1, <1>2 DEF TypeOK, ControlPause
<1>3. CASE ControlResume(n)
  <2>1. [op |-> "Rebaseline"] \in Command
    BY DEF Command
  <2>2. commands' \in [Device -> Seq(Command)]
    BY <1>3, <2>1, QueueAppend DEF TypeOK, ControlResume
  <2> QED
    BY <1>1, <1>3, <2>2 DEF TypeOK, ControlResume
<1>4. CASE ControlSyncFiles(n)
  <2>1. [op |-> "MarkFilesHandled"] \in Command
    BY DEF Command
  <2>2. commands' \in [Device -> Seq(Command)]
    BY <1>4, <2>1, QueueAppend DEF TypeOK, ControlSyncFiles
  <2>3. Head(control[n]).payload \in Payload
    BY <1>1, <1>4 DEF Control, ControlSyncFiles
  <2> QED
    BY <1>1, <1>4, <2>2, <2>3, PublishType DEF TypeOK, ControlSyncFiles
<1> QED
  BY <1>2, <1>3, <1>4

LEMMA IpcTypeStep ==
  ASSUME TypeOK, NEW n \in Device,
         \/ IpcPause(n) \/ IpcPauseFails(n)
         \/ IpcResume(n) \/ IpcResumeFails(n)
         \/ IpcSyncFilesRequest(n) \/ IpcSyncFilesQueue(n)
         \/ \E m \in Device : IpcUnpair(n, m) \/ IpcUnpairFails(n, m)
  PROVE  TypeOK'
<1> DEFINE Told(flag) == [cfg[n] EXCEPT !.paused = flag]
           Without(m) == [cfg[n] EXCEPT !.peers = @ \ {m}]
<1>6. /\ \A flag \in BOOLEAN : Told(flag) \in Config
      /\ \A m \in Device : Without(m) \in Config
  <2>1. cfg[n] \in Config
    BY DEF TypeOK
  <2> QED
    BY <2>1 DEF Config
<1> HIDE DEF Told, Without
<1>7. ASSUME NEW config \in Config, IpcFails(n, config),
             NEW kind \in EnvironmentKind, Spend(kind)
      PROVE  TypeOK'
  <2>1. spent' \in [EnvironmentKind -> Nat]
    BY <1>7, SpendType
  <2>2. cfg' \in [Device -> Config]
    BY <1>7 DEF TypeOK, IpcFails
  <2> QED
    BY <1>7, <2>1, <2>2 DEF TypeOK, IpcFails
<1>8. CASE IpcPauseFails(n)
  <2>1. IpcFails(n, Told(TRUE)) /\ Spend("pauseFails")
    BY <1>8 DEF IpcPauseFails, Told
  <2> QED
    BY <1>6, <1>7, <2>1 DEF EnvironmentKind
<1>9. CASE IpcResumeFails(n)
  <2>1. IpcFails(n, Told(FALSE)) /\ Spend("resumeFails")
    BY <1>9 DEF IpcResumeFails, Told
  <2> QED
    BY <1>6, <1>7, <2>1 DEF EnvironmentKind
<1>10. ASSUME NEW m \in Device, IpcUnpairFails(n, m)
       PROVE  TypeOK'
  <2>1. IpcFails(n, Without(m)) /\ Spend("unpairFails")
    BY <1>10 DEF IpcUnpairFails, Without
  <2> QED
    BY <1>6, <1>7, <2>1 DEF EnvironmentKind
<1>1. CASE IpcPause(n)
  <2>1. [cfg[n] EXCEPT !.paused = TRUE] \in Config /\ [op |-> "Pause"] \in Control
    BY <1>6 DEF Told, Control
  <2>2. control' \in [Device -> Seq(Control)]
    BY <1>1, <2>1, QueueAppend DEF TypeOK, IpcPause
  <2>3. cfg' \in [Device -> Config] /\ disk' \in [Device -> Config]
    BY <1>1, <2>1, SaveType DEF IpcPause
  <2>4. spent' \in [EnvironmentKind -> Nat]
    BY <1>1, SpendType DEF IpcPause, EnvironmentKind
  <2> QED
    BY <1>1, <2>2, <2>3, <2>4 DEF TypeOK, IpcPause
<1>2. CASE IpcResume(n)
  <2>1. [cfg[n] EXCEPT !.paused = FALSE] \in Config /\ [op |-> "Resume"] \in Control
    BY <1>6 DEF Told, Control
  <2>2. control' \in [Device -> Seq(Control)]
    BY <1>2, <2>1, QueueAppend DEF TypeOK, IpcResume
  <2>3. cfg' \in [Device -> Config] /\ disk' \in [Device -> Config]
    BY <1>2, <2>1, SaveType DEF IpcResume
  <2>4. spent' \in [EnvironmentKind -> Nat]
    BY <1>2, SpendType DEF IpcResume, EnvironmentKind
  <2> QED
    BY <1>2, <2>2, <2>3, <2>4 DEF TypeOK, IpcResume
<1>3. CASE IpcSyncFilesRequest(n)
  <2>1. sync' \in [Device -> SUBSET SyncRequest]
    <3>1. PICK s \in sync[n] :
            sync' = [sync EXCEPT ![n] =
                       (@ \ {s}) \cup {[s EXCEPT !.stage = "reading"]}]
      BY <1>3 DEF IpcSyncFilesRequest
    <3>2. s \in SyncRequest
      BY <3>1 DEF TypeOK
    <3>3. [s EXCEPT !.stage = "reading"] \in SyncRequest
      BY <3>2 DEF SyncRequest
    <3> QED
      BY <3>1, <3>3 DEF TypeOK
  <2> QED
    BY <1>3, <2>1 DEF TypeOK, IpcSyncFilesRequest
<1>4. CASE IpcSyncFilesQueue(n)
  <2>1. PICK s \in sync[n] :
          /\ sync' = [sync EXCEPT ![n] = @ \ {s}]
          /\ control' = [control EXCEPT ![n] =
                           Append(@, [op |-> "SyncFiles", payload |-> s.payload])]
    BY <1>4 DEF IpcSyncFilesQueue
  <2>2. [op |-> "SyncFiles", payload |-> s.payload] \in Control
    BY <2>1 DEF TypeOK, SyncRequest, Control
  <2>3. control' \in [Device -> Seq(Control)]
    BY <2>1, <2>2, QueueAppend DEF TypeOK
  <2>4. sync' \in [Device -> SUBSET SyncRequest]
    BY <2>1 DEF TypeOK
  <2> QED
    BY <1>4, <2>3, <2>4 DEF TypeOK, IpcSyncFilesQueue
<1>5. ASSUME NEW m \in Device, IpcUnpair(n, m)
      PROVE  TypeOK'
  <2>1. [cfg[n] EXCEPT !.peers = @ \ {m}] \in Config
    BY <1>6 DEF Without
  <2>2. cfg' \in [Device -> Config] /\ disk' \in [Device -> Config]
    BY <1>5, <2>1, SaveType DEF IpcUnpair
  <2>3. link' \in [Device -> [Device -> LinkState]]
    BY <1>5 DEF TypeOK, IpcUnpair, LinkState
  <2>4. spent' \in [EnvironmentKind -> Nat]
    BY <1>5, SpendType DEF IpcUnpair, EnvironmentKind
  <2> QED
    BY <1>5, <2>2, <2>3, <2>4 DEF TypeOK, IpcUnpair
<1> QED
  BY <1>1, <1>2, <1>3, <1>4, <1>5, <1>8, <1>9, <1>10

\* A connection that ends leaves prefixes of what was on its way.
LEMMA HangupType ==
  ASSUME NEW S, chan \in [Device -> [Device -> Seq(S)]],
         NEW n \in Device, NEW m \in Device, Hangup(n, m)
  PROVE  chan' \in [Device -> [Device -> Seq(S)]]
<1>1. PICK i \in 0..Len(chan[n][m]), j \in 0..Len(chan[m][n]) :
        chan' = [chan EXCEPT ![n][m] = SubSeq(@, 1, i), ![m][n] = SubSeq(@, 1, j)]
  BY DEF Hangup
<1>2. SubSeq(chan[n][m], 1, i) \in Seq(S) /\ SubSeq(chan[m][n], 1, j) \in Seq(S)
  BY PrefixType
<1>3. CASE n # m
  BY <1>1, <1>2, <1>3
<1>4. CASE n = m
  <2>1. Len(SubSeq(chan[n][m], 1, i)) = i
    BY <1>1, PrefixType, SubSeqProperties, LenProperties
  <2> QED
    BY <1>1, <1>2, <1>4, <2>1
<1> QED
  BY <1>3, <1>4

LEMMA ConnectionTypeStep ==
  ASSUME TypeOK, NEW n \in Device, NEW m \in Device,
         PeerLoops(n, m) \/ Drop(n, m)
  PROVE  TypeOK'
<1>1. CASE Connect(n, m)
  BY <1>1 DEF TypeOK, Connect, LinkState
<1>2. CASE SendLatest(n, m)
  <2>1. link' \in [Device -> [Device -> LinkState]]
    BY <1>2 DEF TypeOK, SendLatest, LinkState
  <2>2. chan' \in [Device -> [Device -> Seq(created)]]
    <3>1. CASE latest[n] = None
      BY <1>2, <3>1 DEF TypeOK, SendLatest
    <3>2. CASE latest[n] # None
      <4>1. latest[n] \in created
        BY <3>2 DEF TypeOK
      <4> QED
        BY <1>2, <3>2, <4>1, ChannelAppend DEF TypeOK, SendLatest
    <3> QED
      BY <3>1, <3>2
  <2> QED
    BY <1>2, <2>1, <2>2 DEF TypeOK, SendLatest
<1>3. CASE Subscribe(n, m)
  BY <1>3 DEF TypeOK, Subscribe, LinkState
<1>4. ASSUME Hangup(n, m), \/ UNCHANGED spent
                           \/ Spend("drop")
      PROVE  TypeOK'
  <2>1. chan' \in [Device -> [Device -> Seq(created)]]
    BY <1>4, HangupType DEF TypeOK
  <2>2. link' \in [Device -> [Device -> LinkState]]
    BY <1>4 DEF TypeOK, Hangup, LinkState
  <2>3. spent' \in [EnvironmentKind -> Nat]
    BY <1>4, SpendType DEF EnvironmentKind, TypeOK
  <2> QED
    BY <1>4, <2>1, <2>2, <2>3 DEF TypeOK, Hangup
<1> QED
  BY <1>1, <1>2, <1>3, <1>4 DEF PeerLoops, Drop, PeerLoopBail

LEMMA CrashTypeStep ==
  ASSUME TypeOK, NEW n \in Device, Crash(n)
  PROVE  TypeOK'
<1>1. chan' \in [Device -> [Device -> Seq(created)]]
  <2>1. PICK keep \in [Device -> UNION {0..Len(chan[n][m]) : m \in Device}] :
          /\ \A m \in Device : keep[m] <= Len(chan[n][m])
          /\ chan' = [d \in Device |-> [m \in Device |->
                        IF d = n THEN SubSeq(chan[n][m], 1, keep[m])
                        ELSE IF m = n THEN <<>> ELSE chan[d][m]]]
    BY DEF Crash
  <2>2. \A m \in Device : SubSeq(chan[n][m], 1, keep[m]) \in Seq(created)
    <3>1. SUFFICES ASSUME NEW m \in Device
                   PROVE  SubSeq(chan[n][m], 1, keep[m]) \in Seq(created)
      OBVIOUS
    <3>2. chan[n][m] \in Seq(created) /\ Len(chan[n][m]) \in Nat
      BY LenProperties DEF TypeOK
    <3>3. keep[m] \in Nat
      <4>1. PICK d \in Device : keep[m] \in 0..Len(chan[n][d])
        BY <2>1
      <4> QED
        BY <4>1
    <3>4. keep[m] \in 0..Len(chan[n][m])
      BY <2>1, <3>2, <3>3
    <3> QED
      BY <3>2, <3>4, PrefixType
  <2>3. <<>> \in Seq(created)
    OBVIOUS
  <2>4. \A d, m \in Device : chan'[d][m] \in Seq(created)
    BY <2>1, <2>2, <2>3 DEF TypeOK
  <2> QED
    BY <2>1, <2>4
<1>2. link' \in [Device -> [Device -> LinkState]]
  BY DEF TypeOK, Crash, LinkState
<1>3. sync' \in [Device -> SUBSET SyncRequest]
  BY DEF TypeOK, Crash
<1>4. /\ changes' \in [Device -> Seq(Payload)]
      /\ commands' \in [Device -> Seq(Command)]
      /\ control' \in [Device -> Seq(Control)]
  <2>1. /\ changes' = [changes EXCEPT ![n] = <<>>]
        /\ commands' = [commands EXCEPT ![n] = <<>>]
        /\ control' = [control EXCEPT ![n] = <<>>]
    BY DEF Crash
  <2>2. /\ changes \in [Device -> Seq(Payload)] /\ <<>> \in Seq(Payload)
        /\ commands \in [Device -> Seq(Command)] /\ <<>> \in Seq(Command)
        /\ control \in [Device -> Seq(Control)] /\ <<>> \in Seq(Control)
    BY DEF TypeOK
  <2> QED
    BY <2>1, <2>2
<1>5. /\ seen' \in [Device -> Seq(Nat)]
      /\ \A d \in Device : Len(seen'[d]) <= SeenLimit
  <2>1. <<>> \in Seq(Nat) /\ Len(<<>>) <= SeenLimit
    BY SeenLimitAssumption
  <2> QED
    BY <2>1 DEF TypeOK, Crash
<1>6. spent' \in [EnvironmentKind -> Nat]
  BY SpendType DEF Crash, EnvironmentKind
<1>7. /\ current' \in [Device -> created \cup {None}]
      /\ latest' \in [Device -> created \cup {None}]
      /\ up' \in [Device -> BOOLEAN]
      /\ starting' \in [Device -> Payload \cup {None}]
  BY DEF TypeOK, Crash
<1> QED
  BY <1>1, <1>2, <1>3, <1>4, <1>5, <1>6, <1>7 DEF TypeOK, Crash

LEMMA StartTypeStep ==
  ASSUME TypeOK, NEW n \in Device, Start(n)
  PROVE  TypeOK'
<1>1. CASE StartLoads(n)
  <2>1. InitialPayload(n) \in Payload \cup {None}
    BY DEF TypeOK, InitialPayload
  <2>2. starting' \in [Device -> Payload \cup {None}]
    BY <1>1, <2>1 DEF TypeOK, StartLoads
  <2> QED
    BY <1>1, <2>2 DEF TypeOK, StartLoads
<1>2. CASE StartPaused(n)
  BY <1>2 DEF TypeOK, StartPaused
<1>3. CASE StartPublishing(n)
  <2> DEFINE clock == increment(cfg[n].clock, n)
             e == NewEvent(n, clock, starting[n])
  <2>1. starting[n] \in Payload
    BY <1>3 DEF TypeOK, StartPublishing
  <2>2. clock \in VV
    BY IncrementFacts DEF TypeOK, Config
  <2>3. e \in Event /\ e.id \in Nat
    BY <2>1, <2>2, NewEventType DEF Event
  <2>4. [cfg[n] EXCEPT !.clock = clock] \in Config
    BY <2>2, ConfigType DEF TypeOK
  <2>5. /\ Save(n, [cfg[n] EXCEPT !.clock = clock])
        /\ created' = created \cup {e}
        /\ remember(n, e.id)
        /\ current' = [current EXCEPT ![n] = e]
        /\ latest' = [latest EXCEPT ![n] = e]
        /\ missed' = missed \cup MissedAtStart(n)
        /\ starting' = [starting EXCEPT ![n] = None]
        /\ UNCHANGED <<up, clip, dirty, changes, commands, control, sync, link,
                       chan, spent>>
    BY <1>3 DEF StartPublishing, SaveClock
  <2>6. cfg' \in [Device -> Config] /\ disk' \in [Device -> Config]
    BY <2>4, <2>5, SaveType
  <2>7. /\ seen' \in [Device -> Seq(Nat)]
        /\ \A m \in Device : Len(seen'[m]) <= SeenLimit
    BY <2>3, <2>5, RememberType DEF TypeOK
  <2>8. created' \in SUBSET Event /\ IsFiniteSet(created')
    BY <2>3, <2>5, CreatedType
  <2> HIDE DEF clock, e
  <2>9. chan' \in [Device -> [Device -> Seq(created')]]
    <3>1. chan' = chan /\ created \subseteq created'
      BY <2>5
    <3> QED
      BY <3>1, SeqMonotonic DEF TypeOK
  <2>10. /\ current' \in [Device -> created' \cup {None}]
         /\ latest' \in [Device -> created' \cup {None}]
    BY <2>5 DEF TypeOK
  <2>11. /\ missed' \in SUBSET (Device \X Device)
         /\ starting' \in [Device -> Payload \cup {None}]
    BY <2>5 DEF TypeOK, MissedAtStart
  <2> QED
    BY <2>5, <2>6, <2>7, <2>8, <2>9, <2>10, <2>11 DEF TypeOK
<1> QED
  BY <1>1, <1>2, <1>3 DEF Start

LEMMA TypeInit == Init => TypeOK
<1> SUFFICES ASSUME Init
             PROVE  TypeOK
  OBVIOUS
<1>1. cfg \in [Device -> Config] /\ disk \in [Device -> Config]
  <2>1. Zero \in VV
    BY DEF Zero, VV
  <2>2. \A n \in Device :
          [clock |-> Zero, paused |-> FALSE, peers |-> Device \ {n}, name |-> 0]
            \in Config
    BY <2>1 DEF Config
  <2> QED
    BY <2>2 DEF Init
<1>2. created \in SUBSET Event /\ IsFiniteSet(created)
  BY FS_EmptySet DEF Init
<1>3. /\ seen \in [Device -> Seq(Nat)]
      /\ \A n \in Device : Len(seen[n]) <= SeenLimit
  BY SeenLimitAssumption DEF Init
<1>4. changes \in [Device -> Seq(Payload)]
  BY DEF Init
<1>5. commands \in [Device -> Seq(Command)]
  BY DEF Init
<1>6. control \in [Device -> Seq(Control)]
  BY DEF Init
<1>7. chan \in [Device -> [Device -> Seq(created)]]
  BY DEF Init
<1>8. link \in [Device -> [Device -> LinkState]]
  BY DEF Init, LinkState
<1>9. spent \in [EnvironmentKind -> Nat]
  BY DEF Init
<1>10. /\ up \in [Device -> BOOLEAN]
       /\ starting \in [Device -> Payload \cup {None}]
       /\ current \in [Device -> created \cup {None}]
       /\ latest \in [Device -> created \cup {None}]
       /\ clip \in [Device -> Payload \cup {None}]
       /\ dirty \in [Device -> BOOLEAN]
       /\ \A n \in Device : dirty[n] => clip[n] # None
       /\ sync \in [Device -> SUBSET SyncRequest]
       /\ missed \in SUBSET (Device \X Device)
  BY DEF Init
<1> QED
  BY <1>1, <1>2, <1>3, <1>4, <1>5, <1>6, <1>7, <1>8, <1>9, <1>10 DEF TypeOK

LEMMA TypeStep == TypeOK /\ [Next]_vars => TypeOK'
<1> SUFFICES ASSUME TypeOK, [Next]_vars
             PROVE  TypeOK'
  OBVIOUS
<1>1. CASE UNCHANGED vars
  BY <1>1 DEF TypeOK, vars
<1>2. CASE Next
  <2>1. PICK n \in Device :
          \/ MainLoop(n)
          \/ Pasteboard(n)
          \/ \E m \in Device : PeerLoops(n, m)
          \/ IpcSyncFilesQueue(n)
          \/ Start(n)
          \/ Environment(n)
    BY <1>2 DEF Next
  <2>2. CASE MainLoop(n)
    BY <2>2, LocalTypeStep, IncomingTypeStep, ControlTypeStep DEF MainLoop
  <2>3. CASE Environment(n)
    BY <2>3, LocalTypeStep, IpcTypeStep, ConnectionTypeStep, CrashTypeStep
       DEF Environment
  <2> QED
    BY <2>1, <2>2, <2>3, LocalTypeStep, ConnectionTypeStep, IpcTypeStep,
       StartTypeStep
<1> QED
  BY <1>1, <1>2

\* Every value stays in its type; the events held and on their way are events
\* some daemon made, and `remember` never keeps more than SeenLimit ids.
THEOREM TypeCorrect == Spec => []TypeOK
BY TypeInit, TypeStep, PTL DEF Spec

----------------------------------------------------------------------------
(* Clocks *)

\* The three things a step can do to the clocks and the events: nothing, ...
KeepsClocks ==
  /\ created' = created
  /\ \A n \in Device : disk'[n].clock = disk[n].clock
  /\ \A n \in Device : cfg'[n].clock = cfg[n].clock
  /\ \A n \in Device : current'[n] = current[n] \/ current'[n] = None

\* ... make an event, ...
MakesEvent(n, payload) ==
  LET clock == increment(cfg[n].clock, n)
      e == NewEvent(n, clock, payload)
  IN /\ cfg' = [cfg EXCEPT ![n] = [cfg[n] EXCEPT !.clock = clock]]
     /\ disk' = [disk EXCEPT ![n] = [cfg[n] EXCEPT !.clock = clock]]
     /\ created' = created \cup {e}
     /\ current' = [current EXCEPT ![n] = e]

\* ... or take in the clock of one that was made.
TakesIn(n, e) ==
  LET clock == merge(cfg[n].clock, e.clock)
  IN /\ cfg' = [cfg EXCEPT ![n] = [cfg[n] EXCEPT !.clock = clock]]
     /\ disk' = [disk EXCEPT ![n] = [cfg[n] EXCEPT !.clock = clock]]
     /\ created' = created
     /\ \/ current' = [current EXCEPT ![n] = e]
        \/ current' = current

LEMMA SavedConfig ==
  ASSUME TypeOK, ClockSaved, NEW n \in Device, NEW config, Save(n, config),
         config.clock = cfg[n].clock
  PROVE  \A d \in Device : /\ disk'[d].clock = disk[d].clock
                           /\ cfg'[d].clock = cfg[d].clock
BY DEF Save, ClockSaved, TypeOK

LEMMA StepKinds ==
  ASSUME TypeOK, ClockSaved, [Next]_vars
  PROVE  \/ KeepsClocks
         \/ \E n \in Device, payload \in Payload : MakesEvent(n, payload)
         \/ \E n \in Device, e \in created : TakesIn(n, e)
<1>1. CASE UNCHANGED <<created, cfg, disk, current>>
  BY <1>1 DEF KeepsClocks, ClockSaved
<1>2. ASSUME NEW n \in Device, MainLoop(n)
      PROVE  \/ KeepsClocks
             \/ \E payload \in Payload : MakesEvent(n, payload)
             \/ \E e \in created : TakesIn(n, e)
  <2>1. CASE LocalChangeDropped(n) \/ LocalChangeFiles(n) \/ ControlPause(n)
    BY <1>1, <2>1 DEF LocalChangeDropped, LocalChangeFiles, ControlPause,
       KeepsClocks, ClockSaved
  <2>2. CASE LocalChangePublished(n)
    <3>1. Head(changes[n]) \in Payload
      BY <2>2, QueueTail DEF TypeOK, LocalChange, LocalChangePublished
    <3>2. MakesEvent(n, Head(changes[n]))
      BY <2>2 DEF LocalChangePublished, Publish, SaveClock, Save, MakesEvent
    <3> QED
      BY <3>1, <3>2
  <2>3. CASE ControlResume(n)
    BY <2>3 DEF ControlResume, KeepsClocks, ClockSaved, TypeOK
  <2>4. CASE ControlSyncFiles(n)
    <3>1. Head(control[n]) \in Control
      BY <2>4, QueueTail DEF TypeOK, ControlSyncFiles
    <3>2. Head(control[n]).payload \in Payload
      BY <2>4, <3>1 DEF Control, ControlSyncFiles
    <3>3. MakesEvent(n, Head(control[n]).payload)
      BY <2>4 DEF ControlSyncFiles, Publish, SaveClock, Save, MakesEvent
    <3> QED
      BY <3>2, <3>3
  <2>5. ASSUME NEW m \in Device, IncomingDropped(n, m)
        PROVE  KeepsClocks
    BY <2>5 DEF IncomingDropped, KeepsClocks, ClockSaved
  <2>6. ASSUME NEW m \in Device, IncomingAccepted(n, m)
        PROVE  \E e \in created : TakesIn(n, e)
    <3>1. Head(chan[m][n]) \in created
      BY <2>6, ChannelTail DEF TypeOK, IncomingAccepted, Incoming
    <3>2. TakesIn(n, Head(chan[m][n]))
      BY <2>6 DEF IncomingAccepted, SaveClock, Save, TakesIn
    <3> QED
      BY <3>1, <3>2
  <2> QED
    BY <1>2, <2>1, <2>2, <2>3, <2>4, <2>5, <2>6 DEF MainLoop
<1>3. ASSUME NEW n \in Device, Start(n)
      PROVE  \/ KeepsClocks
             \/ \E payload \in Payload : MakesEvent(n, payload)
  <2>1. CASE StartLoads(n)
    BY <2>1 DEF StartLoads, KeepsClocks, ClockSaved, TypeOK
  <2>2. CASE StartPaused(n)
    BY <2>2 DEF StartPaused, KeepsClocks
  <2>3. CASE StartPublishing(n)
    <3>1. starting[n] \in Payload
      BY <2>3 DEF TypeOK, StartPublishing
    <3>2. MakesEvent(n, starting[n])
      BY <2>3 DEF StartPublishing, SaveClock, Save, MakesEvent
    <3> QED
      BY <3>1, <3>2
  <2> QED
    BY <1>3, <2>1, <2>2, <2>3 DEF Start
<1>4. ASSUME NEW n \in Device, Environment(n)
      PROVE  KeepsClocks
  <2>1. CASE Crash(n)
    BY <2>1 DEF Crash, KeepsClocks, ClockSaved, TypeOK
  <2>2. CASE IpcPause(n)
    <3>1. Save(n, [cfg[n] EXCEPT !.paused = TRUE])
      BY <2>2 DEF IpcPause
    <3>2. [cfg[n] EXCEPT !.paused = TRUE].clock = cfg[n].clock
      BY DEF TypeOK, Config
    <3> QED
      BY <2>2, <3>1, <3>2, SavedConfig DEF IpcPause, KeepsClocks
  <2>3. CASE IpcResume(n)
    <3>1. Save(n, [cfg[n] EXCEPT !.paused = FALSE])
      BY <2>3 DEF IpcResume
    <3>2. [cfg[n] EXCEPT !.paused = FALSE].clock = cfg[n].clock
      BY DEF TypeOK, Config
    <3> QED
      BY <2>3, <3>1, <3>2, SavedConfig DEF IpcResume, KeepsClocks
  <2>4. ASSUME NEW m \in Device, IpcUnpair(n, m)
        PROVE  KeepsClocks
    <3>1. Save(n, [cfg[n] EXCEPT !.peers = @ \ {m}])
      BY <2>4 DEF IpcUnpair
    <3>2. [cfg[n] EXCEPT !.peers = @ \ {m}].clock = cfg[n].clock
      BY DEF TypeOK, Config
    <3> QED
      BY <2>4, <3>1, <3>2, SavedConfig DEF IpcUnpair, KeepsClocks
  <2>5. CASE \/ \E files \in BOOLEAN : UserCopy(n, files)
             \/ BackendSetRaced(n)
             \/ IpcSyncFilesRequest(n)
             \/ \E m \in Device : Drop(n, m)
    BY <2>5 DEF UserCopy, BackendSetRaced, IpcSyncFilesRequest, Drop, Hangup,
       KeepsClocks, ClockSaved
  <2>6. ASSUME NEW config, IpcFails(n, config), config.clock = cfg[n].clock
        PROVE  KeepsClocks
    BY <2>6 DEF IpcFails, KeepsClocks, TypeOK
  <2>7. ASSUME NEW m \in Device,
               IpcPauseFails(n) \/ IpcResumeFails(n) \/ IpcUnpairFails(n, m)
        PROVE  KeepsClocks
    <3>1. PICK config \in {[cfg[n] EXCEPT !.paused = TRUE],
                           [cfg[n] EXCEPT !.paused = FALSE],
                           [cfg[n] EXCEPT !.peers = @ \ {m}]} :
            IpcFails(n, config)
      BY <2>7 DEF IpcPauseFails, IpcResumeFails, IpcUnpairFails
    <3>2. config.clock = cfg[n].clock
      BY DEF TypeOK, Config
    <3> QED
      BY <2>6, <3>1, <3>2
  <2> QED
    BY <1>4, <2>1, <2>2, <2>3, <2>4, <2>5, <2>7 DEF Environment
<1>5. ASSUME NEW n \in Device,
             \/ Pasteboard(n) \/ IpcSyncFilesQueue(n)
             \/ \E m \in Device : PeerLoops(n, m)
      PROVE  KeepsClocks
  BY <1>5 DEF Pasteboard, BackendPoll, BackendCommand, IpcSyncFilesQueue,
     PeerLoops, Connect, SendLatest, Subscribe, PeerLoopBail, Hangup,
     KeepsClocks, ClockSaved
<1> QED
  BY <1>1, <1>2, <1>3, <1>4, <1>5 DEF Next, vars

LEMMA ClockInit == Init => ClockInv
<1> SUFFICES ASSUME Init
             PROVE  ClockInv
  OBVIOUS
<1>1. \A n, m \in Device : cfg[n].clock[m] = 0 /\ disk[n].clock[m] = 0
  BY DEF Init, Zero
<1>2. created = {}
  BY DEF Init
<1>3. NothingAheadOfDisk
  BY <1>1, <1>2 DEF NothingAheadOfDisk
<1> QED
  BY <1>3, TypeInit
     DEF Init, ClockInv, ClockSaved, EventsValid, SequenceUnique, CurrentCovered

LEMMA KeepsClocksStep ==
  ASSUME ClockInv, TypeOK', KeepsClocks
  PROVE  ClockInv'
<1>1. \A n \in Device : disk'[n].clock = disk[n].clock /\ cfg'[n].clock = cfg[n].clock
  BY DEF KeepsClocks
<1>2. NothingAheadOfDisk'
  BY <1>1 DEF KeepsClocks, ClockInv, NothingAheadOfDisk
<1>3. CurrentCovered'
  BY <1>1 DEF KeepsClocks, ClockInv, CurrentCovered
<1>4. ClockSaved'
  BY <1>1 DEF ClockInv, ClockSaved
<1> QED
  BY <1>2, <1>3, <1>4 DEF KeepsClocks, ClockInv, EventsValid, Valid,
     SequenceUnique

LEMMA MakesEventStep ==
  ASSUME ClockInv, TypeOK', NEW n \in Device, NEW payload \in Payload,
         MakesEvent(n, payload)
  PROVE  ClockInv'
<1> DEFINE old == cfg[n].clock
           clock == increment(old, n)
           e == NewEvent(n, clock, payload)
<1>1. old \in VV /\ clock \in VV
  BY IncrementFacts DEF ClockInv, TypeOK, Config
<1>2. clock[n] = old[n] + 1 /\ \A m \in Device : m # n => clock[m] = old[m]
  BY <1>1, IncrementFacts
<1>3. /\ e.origin = n /\ e.sequence = clock[n] /\ e.clock = clock
      /\ created' = created \cup {e}
      /\ current' = [current EXCEPT ![n] = e]
  BY DEF MakesEvent, NewEvent
<1>4. /\ \A d \in Device : /\ cfg[d].clock = disk[d].clock
                            /\ cfg'[d].clock = disk'[d].clock
      /\ disk'[n].clock = clock
      /\ \A d \in Device : d # n => disk'[d].clock = disk[d].clock
  BY DEF MakesEvent, ClockInv, TypeOK, Config, ClockSaved
<1>5. \A d \in Device : d # n => current'[d] = current[d]
  BY <1>3 DEF ClockInv, TypeOK
<1>6. current'[n] = e
  BY <1>3 DEF ClockInv, TypeOK
<1>7. \A d \in Device : disk[d].clock \in VV /\ disk'[d].clock \in VV
  BY DEF ClockInv, TypeOK, Config
<1>8. \A f \in created : f.clock \in VV /\ f.sequence \in Nat /\ f.origin \in Device
  BY DEF ClockInv, TypeOK, Event
<1> HIDE DEF e, clock, old
<1>9. \A m \in Device : /\ disk[m].clock[m] <= disk'[m].clock[m]
                        /\ clock[m] <= disk'[m].clock[m]
  <2>1. SUFFICES ASSUME NEW m \in Device
                 PROVE  /\ disk[m].clock[m] <= disk'[m].clock[m]
                        /\ clock[m] <= disk'[m].clock[m]
    OBVIOUS
  <2>2. /\ old = disk[n].clock
        /\ old[m] \in Nat /\ clock[m] \in Nat /\ disk[m].clock[m] \in Nat
    BY <1>1, <1>4, <1>7 DEF old, VV
  <2>3. CASE m = n
    BY <1>2, <1>4, <2>2, <2>3
  <2>4. CASE m # n
    <3>1. clock[m] = disk[n].clock[m] /\ disk'[m].clock = disk[m].clock
      BY <1>2, <1>4, <2>2, <2>4
    <3>2. disk[n].clock[m] <= disk[m].clock[m]
      BY DEF ClockInv, NothingAheadOfDisk
    <3> QED
      BY <2>2, <3>1, <3>2
  <2> QED
    BY <2>3, <2>4
<1>10. \A m \in Device : \A x \in Nat :
         x <= disk[m].clock[m] => x <= disk'[m].clock[m]
  BY <1>7, <1>9 DEF VV
<1>11. NothingAheadOfDisk'
  <2>1. ASSUME NEW m \in Device, NEW d \in Device
        PROVE  disk'[d].clock[m] <= disk'[m].clock[m]
    <3>1. CASE d = n
      BY <1>4, <1>9, <3>1
    <3>2. CASE d # n
      <4>1. disk[d].clock[m] <= disk[m].clock[m] /\ disk[d].clock[m] \in Nat
        BY <1>7 DEF ClockInv, NothingAheadOfDisk, VV
      <4> QED
        BY <1>4, <1>10, <3>2, <4>1
    <3> QED
      BY <3>1, <3>2
  <2>2. ASSUME NEW m \in Device, NEW f \in created'
        PROVE  f.clock[m] <= disk'[m].clock[m]
    <3>1. CASE f = e
      BY <1>3, <1>9, <3>1
    <3>2. CASE f \in created
      <4>1. f.clock[m] <= disk[m].clock[m] /\ f.clock[m] \in Nat
        BY <1>8, <3>2 DEF ClockInv, NothingAheadOfDisk, VV
      <4> QED
        BY <1>10, <4>1
    <3> QED
      BY <1>3, <3>1, <3>2
  <2> QED
    BY <1>4, <2>1, <2>2 DEF NothingAheadOfDisk
<1>12. EventsValid'
  BY <1>3 DEF ClockInv, EventsValid, Valid
<1>13. SequenceUnique'
  \* e is numbered past every event of n that was made before.
  <2>1. \A f \in created : f.origin = n => f.sequence # e.sequence
    <3>1. SUFFICES ASSUME NEW f \in created, f.origin = n
                   PROVE  f.sequence # e.sequence
      OBVIOUS
    <3>2. f.sequence = f.clock[n] /\ f.clock[n] <= disk[n].clock[n]
      BY <3>1 DEF ClockInv, EventsValid, Valid, NothingAheadOfDisk
    <3>3. e.sequence = disk[n].clock[n] + 1 /\ disk[n].clock[n] \in Nat
      BY <1>2, <1>3, <1>4, <1>7 DEF old, VV
    <3>4. f.clock[n] \in Nat
      BY <1>8, <3>1 DEF VV
    <3> QED
      BY <3>2, <3>3, <3>4
  <2> QED
    BY <1>3, <2>1 DEF ClockInv, SequenceUnique
<1>14. CurrentCovered'
  <2>1. ASSUME NEW d \in Device, current'[d] # None
        PROVE  Leq(current'[d].clock, cfg'[d].clock)
    <3>1. CASE d = n
      BY <1>1, <1>3, <1>4, <1>6, <3>1 DEF Leq, VV
    <3>2. CASE d # n
      BY <1>4, <1>5, <2>1, <3>2 DEF ClockInv, CurrentCovered
    <3> QED
      BY <3>1, <3>2
  <2> QED
    BY <2>1 DEF CurrentCovered
<1> QED
  BY <1>4, <1>11, <1>12, <1>13, <1>14 DEF ClockInv, ClockSaved

LEMMA TakesInStep ==
  ASSUME ClockInv, TypeOK', NEW n \in Device, NEW e \in created, TakesIn(n, e)
  PROVE  ClockInv'
<1> DEFINE old == cfg[n].clock
           clock == merge(old, e.clock)
<1>1. old \in VV /\ e.clock \in VV
  BY DEF ClockInv, TypeOK, Config, Event
<1>2. /\ clock \in VV /\ Leq(old, clock) /\ Leq(e.clock, clock)
      /\ \A m \in Device : clock[m] = old[m] \/ clock[m] = e.clock[m]
  BY <1>1, MergeFacts DEF merge
<1>3. /\ \A d \in Device : /\ cfg[d].clock = disk[d].clock
                            /\ cfg'[d].clock = disk'[d].clock
      /\ disk'[n].clock = clock
      /\ \A d \in Device : d # n => disk'[d].clock = disk[d].clock
      /\ created' = created
  BY DEF TakesIn, ClockInv, TypeOK, Config, ClockSaved
<1>4. \A d \in Device : d # n => current'[d] = current[d]
  BY DEF TakesIn, ClockInv, TypeOK
<1>5. current'[n] = e \/ current'[n] = current[n]
  BY DEF TakesIn, ClockInv, TypeOK
<1>6. \A d \in Device : disk[d].clock \in VV /\ disk'[d].clock \in VV
  BY DEF ClockInv, TypeOK, Config
<1>7. old = disk[n].clock
  BY <1>3
<1> HIDE DEF clock, old
<1>8. \A m \in Device : clock[m] <= disk[m].clock[m]
  BY <1>2, <1>7 DEF ClockInv, NothingAheadOfDisk
\* n's own component is the one it had: nobody knew more of n than n.
<1>9. \A m \in Device : disk'[m].clock[m] = disk[m].clock[m]
  <2>1. disk'[n].clock[n] = disk[n].clock[n]
    <3>1. disk[n].clock[n] <= clock[n] /\ clock[n] <= disk[n].clock[n]
      BY <1>2, <1>7, <1>8 DEF Leq
    <3>2. disk[n].clock[n] \in Nat /\ clock[n] \in Nat
      BY <1>2, <1>6 DEF VV
    <3> QED
      BY <1>3, <3>1, <3>2
  <2> QED
    BY <1>3, <2>1
<1>10. NothingAheadOfDisk'
  <2>1. ASSUME NEW m \in Device, NEW d \in Device
        PROVE  disk'[d].clock[m] <= disk'[m].clock[m]
    <3>1. CASE d = n
      BY <1>3, <1>8, <1>9, <3>1
    <3>2. CASE d # n
      BY <1>3, <1>9, <3>2 DEF ClockInv, NothingAheadOfDisk
    <3> QED
      BY <3>1, <3>2
  <2>2. ASSUME NEW m \in Device, NEW f \in created
        PROVE  f.clock[m] <= disk'[m].clock[m]
    BY <1>9 DEF ClockInv, NothingAheadOfDisk
  <2> QED
    BY <1>3, <2>1, <2>2 DEF NothingAheadOfDisk
<1>11. CurrentCovered'
  <2>1. ASSUME NEW d \in Device, current'[d] # None
        PROVE  Leq(current'[d].clock, cfg'[d].clock)
    <3>1. CASE d # n
      BY <1>3, <1>4, <2>1, <3>1 DEF ClockInv, CurrentCovered
    <3>2. CASE d = n /\ current'[n] = e
      BY <1>2, <1>3, <3>2
    <3>3. CASE d = n /\ current'[n] = current[n]
      <4>1. current[n] # None /\ Leq(current[n].clock, old)
        BY <2>1, <3>3 DEF ClockInv, CurrentCovered, old
      <4>2. current[n].clock \in VV
        BY <4>1 DEF ClockInv, TypeOK, Event
      <4>3. Leq(current[n].clock, clock)
        BY <1>1, <1>2, <4>1, <4>2, LeqTransitive
      <4> QED
        BY <1>3, <3>3, <4>3
    <3> QED
      BY <1>5, <3>1, <3>2, <3>3
  <2> QED
    BY <2>1 DEF CurrentCovered
<1> QED
  BY <1>3, <1>10, <1>11 DEF ClockInv, ClockSaved, EventsValid, Valid,
     SequenceUnique

LEMMA ClockStep == ClockInv /\ [Next]_vars => ClockInv'
<1> SUFFICES ASSUME ClockInv, [Next]_vars
             PROVE  ClockInv'
  OBVIOUS
<1>1. TypeOK'
  BY TypeStep DEF ClockInv
<1>2. \/ KeepsClocks
      \/ \E n \in Device, payload \in Payload : MakesEvent(n, payload)
      \/ \E n \in Device, e \in created : TakesIn(n, e)
  BY StepKinds DEF ClockInv
<1> QED
  BY <1>1, <1>2, KeepsClocksStep, MakesEventStep, TakesInStep

\* The clocks stay correct whatever crashes, reconnects, or could not be saved by
\* an IPC handler: the one on file is always the one in memory, though the rest
\* of the Config may differ.
THEOREM ClocksCorrect == Spec => []ClockInv
BY ClockInit, ClockStep, PTL DEF Spec

\* No clock anywhere is ahead of the config.json of the device it counts.
THEOREM NothingIsAheadOfDisk == Spec => []NothingAheadOfDisk
<1>1. ClockInv => NothingAheadOfDisk
  BY DEF ClockInv
<1> QED
  BY <1>1, ClocksCorrect, PTL

\* Sequence numbers are never reused, whatever crashes and reconnects.
THEOREM SequenceNumbersUnique == Spec => []SequenceUnique
<1>1. ClockInv => SequenceUnique
  BY DEF ClockInv
<1> QED
  BY <1>1, ClocksCorrect, PTL

\* A local publication comes causally after whatever its device held.
THEOREM LocalCopyWins == Spec => LocalCopyBeatsCurrent
<1>1. ASSUME ClockInv, [Next]_vars, NEW n \in Device, NEW e \in created' \ created,
             e.origin = n, current[n] # None
      PROVE  Beats(e, current[n])
  <2>1. PICK d \in Device, payload \in Payload : MakesEvent(d, payload)
    BY <1>1, StepKinds DEF ClockInv, KeepsClocks, TakesIn
  <2>2. e = NewEvent(d, increment(cfg[d].clock, d), payload)
    BY <1>1, <2>1 DEF MakesEvent
  <2>3. d = n /\ e.clock = increment(cfg[n].clock, n)
    BY <1>1, <2>2 DEF NewEvent
  <2>4. cfg[n].clock \in VV /\ current[n].clock \in VV
    <3>1. cfg[n] \in Config /\ current[n] \in Event
      BY <1>1 DEF ClockInv, TypeOK
    <3> QED
      BY <3>1 DEF Config, Event
  <2>5. Leq(current[n].clock, cfg[n].clock)
    BY <1>1 DEF ClockInv, CurrentCovered
  <2>6. relation(e.clock, current[n].clock) = "After"
    BY <2>3, <2>4, <2>5, IncrementComesAfter
  <2> QED
    BY <2>6 DEF Beats
<1>2. ClockInv /\ [Next]_vars =>
        [\A n \in Device : \A e \in created' \ created :
           e.origin = n /\ current[n] # None => Beats(e, current[n])]_vars
  BY <1>1
<1> QED
  BY <1>2, ClocksCorrect, PTL DEF Spec, LocalCopyBeatsCurrent

\* config.json's clock never goes back.
THEOREM DiskClockNeverGoesBack == Spec => DiskClockGrows
<1>1. ASSUME ClockInv, [Next]_vars, NEW n \in Device
      PROVE  Leq(disk[n].clock, disk'[n].clock)
  <2>1. disk[n].clock = cfg[n].clock /\ cfg[n].clock \in VV
    BY <1>1 DEF ClockInv, ClockSaved, TypeOK, Config
  <2>2. CASE KeepsClocks
    BY <2>1, <2>2 DEF KeepsClocks, Leq, VV
  <2>3. ASSUME NEW d \in Device, NEW payload \in Payload, MakesEvent(d, payload)
        PROVE  Leq(disk[n].clock, disk'[n].clock)
    <3>1. CASE n = d
      <4>1. disk'[n].clock = increment(cfg[n].clock, n)
        BY <1>1, <2>3, <3>1 DEF MakesEvent, ClockInv, TypeOK, Config
      <4> QED
        BY <2>1, <4>1, IncrementFacts
    <3>2. CASE n # d
      <4>1. disk'[n] = disk[n]
        BY <1>1, <2>3, <3>2 DEF MakesEvent, ClockInv, TypeOK
      <4> QED
        BY <2>1, <4>1 DEF Leq, VV
    <3> QED
      BY <3>1, <3>2
  <2>4. ASSUME NEW d \in Device, NEW e \in created, TakesIn(d, e)
        PROVE  Leq(disk[n].clock, disk'[n].clock)
    <3>1. CASE n = d
      <4>1. disk'[n].clock = merge(cfg[n].clock, e.clock)
        BY <1>1, <2>4, <3>1 DEF TakesIn, ClockInv, TypeOK, Config
      <4>2. e.clock \in VV
        BY <1>1 DEF ClockInv, TypeOK, Event
      <4> QED
        BY <2>1, <4>1, <4>2, MergeFacts
    <3>2. CASE n # d
      <4>1. disk'[n] = disk[n]
        BY <1>1, <2>4, <3>2 DEF TakesIn, ClockInv, TypeOK
      <4> QED
        BY <2>1, <4>1 DEF Leq, VV
    <3> QED
      BY <3>1, <3>2
  <2> QED
    BY <1>1, <2>2, <2>3, <2>4, StepKinds DEF ClockInv
<1>2. ClockInv /\ [Next]_vars =>
        [\A n \in Device : Leq(disk[n].clock, disk'[n].clock)]_vars
  BY <1>1
<1> QED
  BY <1>2, ClocksCorrect, PTL DEF Spec, DiskClockGrows

----------------------------------------------------------------------------
(* What a step puts on the way to a device *)

\* The bus hands an event to the loops of trusted peers only.
LEMMA SentToPeersOnly ==
  ASSUME TypeOK, NEW n \in Device, NEW m \in Device, NEW e, NEW source,
         Len(SentOn(n, e, source)[m]) > Len(chan[n][m])
  PROVE  m \in cfg[n].peers
<1>1. Len(chan[n][m]) \in Nat
  BY LenProperties DEF TypeOK
<1>2. CASE m \notin cfg[n].peers
  <2>1. SentOn(n, e, source)[m] = chan[n][m]
    BY <1>2 DEF SentOn
  <2> QED
    BY <1>1, <2>1
<1> QED
  BY <1>2

LEMMA PublishSends ==
  ASSUME TypeOK, NEW n \in Device, NEW payload, Publish(n, payload),
         NEW d \in Device, NEW m \in Device, Len(chan'[d][m]) > Len(chan[d][m])
  PROVE  m \in cfg[d].peers
<1>1. PICK e : chan' = [chan EXCEPT ![n] = SentOn(n, e, n)]
  BY DEF Publish
<1>2. Len(chan[d][m]) \in Nat
  BY LenProperties DEF TypeOK
<1>3. CASE d = n
  <2>1. chan'[d][m] = SentOn(n, e, n)[m]
    BY <1>1, <1>3 DEF TypeOK
  <2> QED
    BY <1>3, <2>1, SentToPeersOnly
<1>4. CASE d # n
  <2>1. chan'[d][m] = chan[d][m]
    BY <1>1, <1>4 DEF TypeOK
  <2> QED
    BY <1>2, <2>1
<1> QED
  BY <1>3, <1>4

LEMMA ShorterTail ==
  ASSUME NEW S, NEW s \in Seq(S), s # <<>>
  PROVE  ~(Len(Tail(s)) > Len(s))
BY HeadTailProperties, LenProperties

LEMMA IncomingSends ==
  ASSUME TypeOK, NEW n \in Device, NEW p \in Device,
         IncomingDropped(n, p) \/ IncomingAccepted(n, p),
         NEW d \in Device, NEW m \in Device, Len(chan'[d][m]) > Len(chan[d][m])
  PROVE  m \in cfg[d].peers
<1>1. chan[d][m] \in Seq(created) /\ Len(chan[d][m]) \in Nat
  BY LenProperties DEF TypeOK
<1>2. chan[p][n] # <<>>
  BY DEF IncomingDropped, IncomingAccepted, Incoming
<1>3. chan'[d][m] # chan[d][m]
  BY <1>1
<1>4. chan'[d][m] # Tail(chan[d][m]) \/ chan[d][m] = <<>>
  BY <1>1, ShorterTail
<1>5. CASE IncomingDropped(n, p)
  <2>1. \/ chan'[d][m] = chan[d][m]
        \/ d = p /\ m = n /\ chan'[d][m] = Tail(chan[d][m])
    BY <1>5 DEF IncomingDropped, TypeOK
  <2> QED
    BY <1>2, <1>3, <1>4, <2>1
<1>6. CASE IncomingAccepted(n, p)
  <2> DEFINE sent == SentOn(n, Head(chan[p][n]), p)
  <2>1. chan' = [chan EXCEPT ![p][n] = Tail(@), ![n] = sent]
    BY <1>6 DEF IncomingAccepted
  <2> HIDE DEF sent
  <2>2. CASE d = n
    <3>1. chan'[d][m] = sent[m]
      BY <2>1, <2>2 DEF TypeOK
    <3> QED
      BY <2>2, <3>1, SentToPeersOnly DEF sent
  <2>3. CASE d # n
    <3>1. \/ chan'[d][m] = chan[d][m]
          \/ d = p /\ m = n /\ chan'[d][m] = Tail(chan[d][m])
      BY <2>1, <2>3 DEF TypeOK
    <3> QED
      BY <1>2, <1>3, <1>4, <3>1
  <2> QED
    BY <2>2, <2>3
<1> QED
  BY <1>5, <1>6

\* A connection that ends, and a crash, add nothing to what is on the way.
LEMMA PrefixLength ==
  ASSUME NEW S, NEW s \in Seq(S), NEW i \in 0..Len(s)
  PROVE  Len(SubSeq(s, 1, i)) = i
<1>1. Len(s) \in Nat
  BY LenProperties
<1>2. \A j \in 1..i : s[j] \in S
  <2>1. SUFFICES ASSUME NEW j \in 1..i
                 PROVE  s[j] \in S
    OBVIOUS
  <2>2. j \in 1..Len(s)
    BY <1>1
  <2> QED
    BY <2>2, ElementOfSeq
<1> QED
  BY <1>1, <1>2, SubSeqProperties

LEMMA NotMore ==
  \A k, l \in Nat : k <= l => ~(k > l)
OBVIOUS

LEMMA CrashSends ==
  ASSUME TypeOK, NEW n \in Device, Crash(n), NEW d \in Device, NEW m \in Device
  PROVE  ~(Len(chan'[d][m]) > Len(chan[d][m]))
<1>1. PICK keep \in [Device -> UNION {0..Len(chan[n][q]) : q \in Device}] :
        /\ \A q \in Device : keep[q] <= Len(chan[n][q])
        /\ chan' = [c \in Device |-> [q \in Device |->
                      IF c = n THEN SubSeq(chan[n][q], 1, keep[q])
                      ELSE IF q = n THEN <<>> ELSE chan[c][q]]]
  BY DEF Crash
<1>2. chan[d][m] \in Seq(created) /\ Len(chan[d][m]) \in Nat
  BY LenProperties DEF TypeOK
<1>3. CASE d = n
  <2>1. keep[m] \in Nat
    <3>1. PICK q \in Device : keep[m] \in 0..Len(chan[n][q])
      BY <1>1
    <3> QED
      BY <3>1
  <2>2. keep[m] \in 0..Len(chan[d][m])
    BY <1>1, <1>2, <1>3, <2>1
  <2>3. Len(SubSeq(chan[d][m], 1, keep[m])) = keep[m]
    BY <1>2, <2>2, PrefixLength
  <2>4. chan'[d][m] = SubSeq(chan[d][m], 1, keep[m])
    BY <1>1, <1>3
  <2>5. Len(chan'[d][m]) = keep[m] /\ keep[m] <= Len(chan[d][m])
    BY <1>2, <2>2, <2>3, <2>4
  <2> QED
    BY <1>2, <2>1, <2>5, NotMore
<1>4. CASE d # n
  <2>1. chan'[d][m] = <<>> \/ chan'[d][m] = chan[d][m]
    BY <1>1, <1>4
  <2>2. CASE chan'[d][m] = <<>>
    <3>1. Len(chan'[d][m]) = 0
      BY <2>2, EmptySeq
    <3>2. 0 \in Nat /\ 0 <= Len(chan[d][m])
      BY <1>2
    <3> QED
      BY <1>2, <3>1, <3>2, NotMore, Zenon
  <2>3. CASE chan'[d][m] = chan[d][m]
    <3>1. Len(chan[d][m]) <= Len(chan[d][m])
      BY <1>2
    <3> QED
      BY <1>2, <2>3, <3>1, NotMore, Zenon
  <2> QED
    BY <2>1, <2>2, <2>3
<1> QED
  BY <1>3, <1>4

LEMMA HangupSends ==
  ASSUME TypeOK, NEW n \in Device, NEW p \in Device, Hangup(n, p),
         NEW d \in Device, NEW m \in Device
  PROVE  ~(Len(chan'[d][m]) > Len(chan[d][m]))
<1>1. PICK i \in 0..Len(chan[n][p]), j \in 0..Len(chan[p][n]) :
        chan' = [chan EXCEPT ![n][p] = SubSeq(@, 1, i), ![p][n] = SubSeq(@, 1, j)]
  BY DEF Hangup
<1>2. chan[n][p] \in Seq(created) /\ chan[p][n] \in Seq(created)
  BY DEF TypeOK
<1>3. Len(SubSeq(chan[n][p], 1, i)) = i /\ Len(SubSeq(chan[p][n], 1, j)) = j
  BY <1>2, PrefixLength
<1>4. \/ chan'[d][m] = chan[d][m]
      \/ d = n /\ m = p /\ chan'[d][m] = SubSeq(chan[n][p], 1, i)
      \/ d = p /\ m = n /\ chan'[d][m] = SubSeq(chan[p][n], 1, j)
  BY <1>1, <1>3 DEF TypeOK
<1>5. \A a, b \in Device : Len(chan[a][b]) \in Nat
  BY LenProperties DEF TypeOK
<1>6. i <= Len(chan[n][p]) /\ j <= Len(chan[p][n]) /\ i \in Nat /\ j \in Nat
  BY <1>5
<1> QED
  BY <1>3, <1>4, <1>5, <1>6

\* What an unpaired device is still sent is at most the event held when its
\* connection was made.
THEOREM UnpairedIsCutOff == Spec => UnpairedGetsNothingNew
<1>1. ASSUME TypeOK, [Next]_vars, NEW d \in Device, NEW m \in Device,
             Len(chan'[d][m]) > Len(chan[d][m]), m \notin cfg[d].peers
      PROVE  link[d][m] = "hello"
  <2>1. chan'[d][m] # chan[d][m]
    <3>1. Len(chan[d][m]) \in Nat
      BY <1>1, LenProperties DEF TypeOK
    <3> QED
      BY <1>1, <3>1
  <2>2. PICK n \in Device :
          \/ MainLoop(n)
          \/ Pasteboard(n)
          \/ \E p \in Device : PeerLoops(n, p)
          \/ IpcSyncFilesQueue(n)
          \/ Start(n)
          \/ Environment(n)
    BY <1>1, <2>1 DEF Next, vars
  <2>3. ~MainLoop(n)
    <3>1. \A p \in Device : ~IncomingDropped(n, p) /\ ~IncomingAccepted(n, p)
      BY <1>1, IncomingSends
    <3>2. ~LocalChangePublished(n) /\ ~ControlSyncFiles(n)
      BY <1>1, PublishSends DEF LocalChangePublished, ControlSyncFiles
    <3> QED
      BY <2>1, <3>1, <3>2 DEF MainLoop, LocalChangeDropped, LocalChangeFiles,
         ControlPause, ControlResume
  <2>4. ~Pasteboard(n) /\ ~IpcSyncFilesQueue(n) /\ ~Start(n)
    BY <2>1 DEF Pasteboard, BackendPoll, BackendCommand, IpcSyncFilesQueue,
       Start, StartLoads, StartPaused, StartPublishing
  <2>5. ~Environment(n)
    <3>1. ~Crash(n) /\ \A p \in Device : ~Drop(n, p)
      BY <1>1, CrashSends, HangupSends DEF Drop
    <3> QED
      BY <2>1, <3>1 DEF Environment, UserCopy, BackendSetRaced, IpcPause,
         IpcResume, IpcSyncFilesRequest, IpcUnpair, IpcPauseFails,
         IpcResumeFails, IpcUnpairFails, IpcFails
  <2>6. ASSUME NEW p \in Device, PeerLoops(n, p)
        PROVE  link[d][m] = "hello"
    <3>1. ~PeerLoopBail(n, p)
      BY <1>1, HangupSends DEF PeerLoopBail
    <3>2. SendLatest(n, p)
      BY <2>1, <2>6, <3>1 DEF PeerLoops, Connect, Subscribe
    <3>3. d = n /\ m = p
      BY <2>1, <3>2 DEF SendLatest, TypeOK
    <3> QED
      BY <3>2, <3>3 DEF SendLatest
  <2> QED
    BY <2>2, <2>3, <2>4, <2>5, <2>6
<1>2. TypeOK /\ [Next]_vars =>
        [\A n, m \in Device :
           Len(chan'[n][m]) > Len(chan[n][m]) /\ m \notin cfg[n].peers =>
             link[n][m] = "hello"]_vars
  BY <1>1
<1> QED
  BY <1>2, TypeCorrect, PTL DEF Spec, UnpairedGetsNothingNew

----------------------------------------------------------------------------
(* The content a device takes for its own user's *)

\* W stands for a set of payloads.

FilesOf(W) == {p \in W : p.files}

RequestsOf(W) == [stage : {"prompt", "reading"}, payload : FilesOf(W)]

ControlsOf(W) ==
  [op : {"SyncFiles"}, payload : FilesOf(W)] \cup [op : {"Pause", "Resume"}]

\* What device n has read, shows a prompt for or is asked to sync is content of
\* W, if what its user copies is: a change the pasteboard thread has yet to read
\* is never one it wrote itself.
TakesFrom(n, W) ==
  /\ dirty[n] => clip[n] \in W
  /\ changes[n] \in Seq(W)
  /\ sync[n] \subseteq RequestsOf(W)
  /\ control[n] \in Seq(ControlsOf(W))

LEMMA TakesInit ==
  ASSUME Init, NEW W, NEW n \in Device
  PROVE  TakesFrom(n, W)
<1>1. ~dirty[n] /\ changes[n] = <<>> /\ sync[n] = {} /\ control[n] = <<>>
  BY DEF Init
<1>2. <<>> \in Seq(W) /\ <<>> \in Seq(ControlsOf(W))
  OBVIOUS
<1> QED
  BY <1>1, <1>2 DEF TakesFrom

\* What a step leaves alone keeps its owner.
LEMMA TakesFrame ==
  ASSUME NEW W, NEW n \in Device, TakesFrom(n, W),
         clip'[n] = clip[n], dirty'[n] = dirty[n], changes'[n] = changes[n],
         sync'[n] = sync[n], control'[n] = control[n]
  PROVE  TakesFrom(n, W)'
BY DEF TakesFrom

LEMMA TakesPasteboardStep ==
  ASSUME TypeOK, NEW W, NEW n \in Device, TakesFrom(n, W),
         \/ \E files \in BOOLEAN : UserCopy(n, files)
         \/ Pasteboard(n) \/ BackendSetRaced(n),
         \A files \in BOOLEAN : UserCopy(n, files) => NextContent(n, files) \in W
  PROVE  TakesFrom(n, W)'
<1>1. CASE \E files \in BOOLEAN : UserCopy(n, files)
  <2>1. PICK files \in BOOLEAN : UserCopy(n, files)
    BY <1>1
  <2>2. NextContent(n, files) \in W
    BY <2>1
  <2>3. clip'[n] = NextContent(n, files)
    BY <2>1 DEF UserCopy, TypeOK
  <2> QED
    BY <2>1, <2>2, <2>3 DEF TakesFrom, UserCopy
<1>2. CASE BackendPoll(n)
  <2>1. clip[n] \in W /\ changes[n] \in Seq(W)
    BY <1>2 DEF TakesFrom, BackendPoll
  <2>2. Append(changes[n], clip[n]) \in Seq(W)
    BY <2>1, AppendProperties
  <2>3. changes'[n] = Append(changes[n], clip[n]) /\ ~dirty'[n]
    BY <1>2 DEF BackendPoll, TypeOK
  <2> QED
    BY <1>2, <2>2, <2>3 DEF TakesFrom, BackendPoll
<1>3. CASE BackendCommand(n)
  \* A Set leaves no change to read; the others leave the clipboard alone.
  <2>1. dirty'[n] => dirty[n] /\ clip'[n] = clip[n]
    BY <1>3 DEF BackendCommand, TakesCount, TypeOK
  <2> QED
    BY <1>3, <2>1 DEF TakesFrom, BackendCommand
<1>4. CASE BackendSetRaced(n)
  <2>1. ~dirty'[n]
    BY <1>4 DEF BackendSetRaced, TypeOK
  <2> QED
    BY <1>4, <2>1 DEF TakesFrom, BackendSetRaced
<1> QED
  BY <1>1, <1>2, <1>3, <1>4 DEF Pasteboard

LEMMA TakesLocalStep ==
  ASSUME TypeOK, NEW W, NEW n \in Device, TakesFrom(n, W),
         \/ LocalChangeDropped(n) \/ LocalChangeFiles(n)
         \/ LocalChangePublished(n)
  PROVE  TakesFrom(n, W)'
<1>1. /\ changes[n] # <<>> /\ changes'[n] = Tail(changes[n])
      /\ clip' = clip /\ dirty' = dirty /\ control' = control
  BY DEF LocalChangeDropped, LocalChangeFiles, LocalChangePublished, LocalChange,
     TypeOK
<1>2. Tail(changes[n]) \in Seq(W) /\ Head(changes[n]) \in W
  BY <1>1, HeadTailProperties DEF TakesFrom
<1>3. sync'[n] \subseteq RequestsOf(W)
  <2>1. CASE LocalChangeFiles(n)
    <3>1. Head(changes[n]) \in FilesOf(W)
      BY <1>2, <2>1 DEF LocalChangeFiles, FilesOf
    <3>2. [stage |-> "prompt", payload |-> Head(changes[n])] \in RequestsOf(W)
      BY <3>1 DEF RequestsOf
    <3>3. sync'[n] = sync[n] \cup {[stage |-> "prompt", payload |-> Head(changes[n])]}
      BY <2>1 DEF LocalChangeFiles, TypeOK
    <3> QED
      BY <3>2, <3>3 DEF TakesFrom
  <2>2. CASE LocalChangeDropped(n) \/ LocalChangePublished(n)
    BY <2>2 DEF LocalChangeDropped, LocalChangePublished, TakesFrom
  <2> QED
    BY <2>1, <2>2
<1> QED
  BY <1>1, <1>2, <1>3 DEF TakesFrom

LEMMA TakesControlStep ==
  ASSUME TypeOK, NEW W, NEW n \in Device, TakesFrom(n, W),
         ControlPause(n) \/ ControlResume(n) \/ ControlSyncFiles(n)
  PROVE  TakesFrom(n, W)'
<1>1. /\ control[n] # <<>> /\ control'[n] = Tail(control[n])
      /\ clip' = clip /\ dirty' = dirty /\ changes' = changes /\ sync' = sync
  BY DEF ControlPause, ControlResume, ControlSyncFiles, TypeOK
<1>2. Tail(control[n]) \in Seq(ControlsOf(W))
  BY <1>1, HeadTailProperties DEF TakesFrom
<1> QED
  BY <1>1, <1>2 DEF TakesFrom

LEMMA TakesIpcStep ==
  ASSUME TypeOK, NEW W, NEW n \in Device, TakesFrom(n, W),
         \/ IpcPause(n) \/ IpcPauseFails(n)
         \/ IpcResume(n) \/ IpcResumeFails(n)
         \/ IpcSyncFilesRequest(n) \/ IpcSyncFilesQueue(n)
         \/ \E m \in Device : IpcUnpair(n, m) \/ IpcUnpairFails(n, m)
  PROVE  TakesFrom(n, W)'
<1>1. ASSUME NEW c \in ControlsOf(W),
             control' = [control EXCEPT ![n] = Append(@, c)]
      PROVE  control'[n] \in Seq(ControlsOf(W))
  <2>1. Append(control[n], c) \in Seq(ControlsOf(W))
    BY AppendProperties DEF TakesFrom
  <2> QED
    BY <1>1, <2>1 DEF TypeOK
<1>2. CASE IpcPause(n) \/ IpcResume(n)
  <2>1. PICK op \in {"Pause", "Resume"} :
          control' = [control EXCEPT ![n] = Append(@, [op |-> op])]
    BY <1>2 DEF IpcPause, IpcResume
  <2>2. [op |-> op] \in ControlsOf(W)
    BY DEF ControlsOf
  <2>3. control'[n] \in Seq(ControlsOf(W))
    BY <1>1, <2>1, <2>2
  <2> QED
    BY <1>2, <2>3 DEF IpcPause, IpcResume, TakesFrom
<1>3. CASE IpcSyncFilesRequest(n)
  <2>1. PICK s \in sync[n] :
          sync' = [sync EXCEPT ![n] = (@ \ {s}) \cup {[s EXCEPT !.stage = "reading"]}]
    BY <1>3 DEF IpcSyncFilesRequest
  <2>2. [s EXCEPT !.stage = "reading"] \in RequestsOf(W)
    BY <2>1 DEF TakesFrom, RequestsOf
  <2>3. sync'[n] \subseteq RequestsOf(W)
    BY <2>1, <2>2 DEF TakesFrom, TypeOK
  <2> QED
    BY <1>3, <2>3 DEF IpcSyncFilesRequest, TakesFrom
<1>4. CASE IpcSyncFilesQueue(n)
  <2>1. PICK s \in sync[n] :
          /\ sync' = [sync EXCEPT ![n] = @ \ {s}]
          /\ control' = [control EXCEPT ![n] =
                           Append(@, [op |-> "SyncFiles", payload |-> s.payload])]
    BY <1>4 DEF IpcSyncFilesQueue
  <2>2. [op |-> "SyncFiles", payload |-> s.payload] \in ControlsOf(W)
    BY <2>1 DEF TakesFrom, RequestsOf, ControlsOf
  <2>3. control'[n] \in Seq(ControlsOf(W))
    BY <1>1, <2>1, <2>2
  <2>4. sync'[n] \subseteq RequestsOf(W)
    BY <2>1 DEF TakesFrom, TypeOK
  <2> QED
    BY <1>4, <2>3, <2>4 DEF IpcSyncFilesQueue, TakesFrom
<1>5. CASE \E m \in Device : IpcUnpair(n, m)
  BY <1>5 DEF IpcUnpair, TakesFrom
<1>6. CASE \/ IpcPauseFails(n) \/ IpcResumeFails(n)
           \/ \E m \in Device : IpcUnpairFails(n, m)
  BY <1>6 DEF IpcPauseFails, IpcResumeFails, IpcUnpairFails, IpcFails, TakesFrom
<1> QED
  BY <1>2, <1>3, <1>4, <1>5, <1>6

LEMMA TakesCrashStep ==
  ASSUME TypeOK, NEW W, NEW n \in Device, TakesFrom(n, W), Crash(n) \/ Start(n)
  PROVE  TakesFrom(n, W)'
<1>1. CASE Crash(n)
  <2>1. /\ changes'[n] = <<>> /\ control'[n] = <<>>
        /\ sync'[n] \subseteq sync[n]
        /\ clip' = clip /\ dirty' = dirty
    BY <1>1 DEF Crash, TypeOK
  <2>2. <<>> \in Seq(W) /\ <<>> \in Seq(ControlsOf(W))
    OBVIOUS
  <2> QED
    BY <2>1, <2>2 DEF TakesFrom
<1>2. CASE Start(n)
  <2>1. /\ UNCHANGED <<clip, changes, control, sync>>
        /\ dirty'[n] = dirty[n] \/ ~dirty'[n]
    BY <1>2 DEF Start, StartLoads, StartPaused, StartPublishing, TypeOK
  <2> QED
    BY <2>1 DEF TakesFrom
<1> QED
  BY <1>1, <1>2

LEMMA TakesStep ==
  ASSUME TypeOK, [Next]_vars, NEW W, NEW d \in Device, TakesFrom(d, W),
         \A files \in BOOLEAN : UserCopy(d, files) => NextContent(d, files) \in W
  PROVE  TakesFrom(d, W)'
<1>2. CASE UNCHANGED vars
  BY <1>2, TakesFrame DEF vars
<1>3. CASE Next
  <2>1. PICK n \in Device :
          \/ MainLoop(n)
          \/ Pasteboard(n)
          \/ \E m \in Device : PeerLoops(n, m)
          \/ IpcSyncFilesQueue(n)
          \/ Start(n)
          \/ Environment(n)
    BY <1>3 DEF Next
  <2>2. CASE \/ \E m \in Device : \/ PeerLoops(n, m) \/ Drop(n, m)
                                  \/ IncomingDropped(n, m) \/ IncomingAccepted(n, m)
    <3>1. UNCHANGED <<clip, dirty, changes, sync, control>>
      BY <2>2 DEF PeerLoops, Connect, SendLatest, Subscribe, PeerLoopBail, Drop,
         Hangup, IncomingDropped, IncomingAccepted
    <3> QED
      BY <3>1, TakesFrame
  <2>3. CASE /\ d # n
             /\ \/ \E files \in BOOLEAN : UserCopy(n, files)
                \/ Pasteboard(n) \/ BackendSetRaced(n)
    <3>1. /\ clip'[d] = clip[d] /\ dirty'[d] = dirty[d] /\ changes'[d] = changes[d]
          /\ sync' = sync /\ control' = control
      <4>1. CASE \E files \in BOOLEAN : UserCopy(n, files)
        BY <2>3, <4>1 DEF UserCopy, TypeOK
      <4>2. CASE BackendPoll(n)
        BY <2>3, <4>2 DEF BackendPoll, TypeOK
      <4>3. CASE BackendCommand(n)
        BY <2>3, <4>3 DEF BackendCommand, TypeOK
      <4>4. CASE BackendSetRaced(n)
        BY <2>3, <4>4 DEF BackendSetRaced, TypeOK
      <4> QED
        BY <2>3, <4>1, <4>2, <4>3, <4>4 DEF Pasteboard
    <3> QED
      BY <3>1, TakesFrame
  <2>4. CASE /\ d # n
             /\ \/ LocalChangeDropped(n) \/ LocalChangeFiles(n)
                \/ LocalChangePublished(n)
                \/ ControlPause(n) \/ ControlResume(n) \/ ControlSyncFiles(n)
    <3>1. /\ changes'[d] = changes[d] /\ sync'[d] = sync[d]
          /\ control'[d] = control[d] /\ clip' = clip /\ dirty' = dirty
      BY <2>4 DEF LocalChange, LocalChangeDropped, LocalChangeFiles,
         LocalChangePublished, ControlPause, ControlResume, ControlSyncFiles, TypeOK
    <3> QED
      BY <3>1, TakesFrame
  <2>5. CASE /\ d # n
             /\ \/ IpcPause(n) \/ IpcPauseFails(n)
                \/ IpcResume(n) \/ IpcResumeFails(n)
                \/ IpcSyncFilesRequest(n) \/ IpcSyncFilesQueue(n)
                \/ \E m \in Device : IpcUnpair(n, m) \/ IpcUnpairFails(n, m)
                \/ Crash(n) \/ Start(n)
    <3>1. /\ changes'[d] = changes[d] /\ sync'[d] = sync[d]
          /\ control'[d] = control[d] /\ clip' = clip /\ dirty'[d] = dirty[d]
      <4>1. CASE IpcPause(n) \/ IpcResume(n) \/ \E m \in Device : IpcUnpair(n, m)
        BY <2>5, <4>1 DEF IpcPause, IpcResume, IpcUnpair, TypeOK
      <4>2. CASE IpcSyncFilesRequest(n) \/ IpcSyncFilesQueue(n)
        BY <2>5, <4>2 DEF IpcSyncFilesRequest, IpcSyncFilesQueue, TypeOK
      <4>3. CASE Crash(n)
        BY <2>5, <4>3 DEF Crash, TypeOK
      <4>4. CASE Start(n)
        BY <2>5, <4>4 DEF Start, StartLoads, StartPaused, StartPublishing, TypeOK
      <4>5. CASE \/ IpcPauseFails(n) \/ IpcResumeFails(n)
                 \/ \E m \in Device : IpcUnpairFails(n, m)
        BY <4>5 DEF IpcPauseFails, IpcResumeFails, IpcUnpairFails, IpcFails
      <4> QED
        BY <2>5, <4>1, <4>2, <4>3, <4>4, <4>5
    <3> QED
      BY <3>1, TakesFrame
  <2>6. CASE /\ d = n
             /\ \/ MainLoop(n) \/ Pasteboard(n) \/ IpcSyncFilesQueue(n)
                \/ Start(n) \/ Environment(n)
    BY <2>2, <2>6, TakesPasteboardStep, TakesLocalStep, TakesControlStep,
       TakesIpcStep, TakesCrashStep DEF MainLoop, Environment
  <2> QED
    BY <2>1, <2>2, <2>3, <2>4, <2>5, <2>6 DEF MainLoop, Environment
<1> QED
  BY <1>2, <1>3

OwnPayload(n) == {p \in Payload : p.by = n}

\* What a device publishes or asks about was copied by its own user.
OwnInv == \A n \in Device : TakesFrom(n, OwnPayload(n))

LEMMA OwnStep == TypeOK /\ OwnInv /\ [Next]_vars => OwnInv'
<1> SUFFICES ASSUME TypeOK, OwnInv, [Next]_vars, NEW n \in Device
             PROVE  TakesFrom(n, OwnPayload(n))'
  BY DEF OwnInv
<1> DEFINE W == OwnPayload(n)
<1>1. \A files \in BOOLEAN : NextContent(n, files) \in W
  BY NextContentType DEF NextContent, OwnPayload
<1>2. TakesFrom(n, W)
  BY DEF OwnInv
<1> HIDE DEF W
<1>3. TakesFrom(n, W)'
  BY <1>1, <1>2, TakesStep
<1> QED
  BY <1>3 DEF W

LEMMA OwnAlways == Spec => []OwnInv
<1>1. Init => OwnInv
  BY TakesInit DEF OwnInv
<1> QED
  BY <1>1, OwnStep, TypeCorrect, PTL DEF Spec

\* The three publications.
LEMMA WhoMakesEvents ==
  ASSUME [Next]_vars, created' # created
  PROVE  \E d \in Device : \/ LocalChangePublished(d)
                           \/ ControlSyncFiles(d)
                           \/ StartPublishing(d)
<1>1. PICK n \in Device :
        \/ MainLoop(n)
        \/ Pasteboard(n)
        \/ \E m \in Device : PeerLoops(n, m)
        \/ IpcSyncFilesQueue(n)
        \/ Start(n)
        \/ Environment(n)
  BY DEF Next, vars
<1>2. CASE MainLoop(n)
  BY <1>2 DEF MainLoop, LocalChangeDropped, LocalChangeFiles, IncomingDropped,
     IncomingAccepted, ControlPause, ControlResume
<1>3. CASE Pasteboard(n) \/ IpcSyncFilesQueue(n)
  BY <1>3 DEF Pasteboard, BackendPoll, BackendCommand, IpcSyncFilesQueue
<1>4. ASSUME NEW m \in Device, PeerLoops(n, m)
      PROVE  FALSE
  BY <1>4 DEF PeerLoops, Connect, SendLatest, Subscribe, PeerLoopBail, Hangup
<1>5. CASE Start(n)
  BY <1>5 DEF Start, StartLoads, StartPaused
<1>6. CASE Environment(n)
  BY <1>6 DEF Environment, UserCopy, BackendSetRaced, IpcPause, IpcResume,
     IpcSyncFilesRequest, IpcUnpair, IpcPauseFails, IpcResumeFails,
     IpcUnpairFails, IpcFails, Drop, Hangup, Crash
<1> QED
  BY <1>1, <1>2, <1>3, <1>4, <1>5, <1>6

\* A daemon past its start publishes, and asks about, what its own user copied
\* only.
THEOREM NothingIsEchoed == Spec => NoEcho
<1>1. ASSUME TypeOK, OwnInv, [Next]_vars, NEW n \in Device, InMainLoop(n),
             NEW e \in created' \ created, e.origin = n
      PROVE  e.payload.by = n
  <2>1. TakesFrom(n, OwnPayload(n))
    BY <1>1 DEF OwnInv
  <2>2. ASSUME NEW d \in Device, NEW payload, Publish(d, payload)
        PROVE  d = n /\ e.payload = payload
    BY <1>1, <2>2 DEF Publish, NewEvent
  <2>3. PICK d \in Device :
          \/ LocalChangePublished(d)
          \/ ControlSyncFiles(d)
          \/ StartPublishing(d)
    BY <1>1, WhoMakesEvents
  <2>4. CASE LocalChangePublished(d)
    <3>1. d = n /\ e.payload = Head(changes[n]) /\ changes[n] # <<>>
      BY <2>2, <2>4 DEF LocalChangePublished, LocalChange
    <3>2. Head(changes[n]) \in OwnPayload(n)
      BY <2>1, <3>1, HeadTailProperties DEF TakesFrom
    <3> QED
      BY <3>1, <3>2 DEF OwnPayload
  <2>5. CASE ControlSyncFiles(d)
    <3>1. /\ d = n /\ e.payload = Head(control[n]).payload
          /\ control[n] # <<>> /\ Head(control[n]).op = "SyncFiles"
      BY <2>2, <2>5 DEF ControlSyncFiles
    <3>2. Head(control[n]) \in ControlsOf(OwnPayload(n))
      BY <2>1, <3>1, HeadTailProperties DEF TakesFrom
    <3> QED
      BY <3>1, <3>2 DEF ControlsOf, FilesOf, OwnPayload
  <2>6. CASE StartPublishing(d)
    <3>1. d = n /\ starting[d] # None
      BY <1>1, <2>6 DEF StartPublishing, NewEvent
    <3> QED
      BY <1>1, <3>1 DEF InMainLoop
  <2> QED
    BY <2>3, <2>4, <2>5, <2>6
<1>2. ASSUME TypeOK, OwnInv, [Next]_vars, NEW n \in Device, NEW s \in sync'[n]
      PROVE  s.payload.by = n
  <2>1. TakesFrom(n, OwnPayload(n))'
    BY <1>2, OwnStep DEF OwnInv
  <2> QED
    BY <1>2, <2>1 DEF TakesFrom, RequestsOf, FilesOf, OwnPayload
<1>3. TypeOK /\ OwnInv /\ [Next]_vars =>
        [\A n \in Device : InMainLoop(n) =>
           /\ \A e \in created' \ created : e.origin = n => e.payload.by = n
           /\ \A s \in sync'[n] : s.payload.by = n]_vars
  BY <1>1, <1>2
<1> QED
  BY <1>3, OwnAlways, TypeCorrect, PTL DEF Spec, NoEcho

----------------------------------------------------------------------------
(* What the environment has done, and how a daemon starts *)

\* A step spends of the environment's budget, or none.
LEMMA SpendsOrNot ==
  [Next]_vars => UNCHANGED spent \/ \E k \in EnvironmentKind : Spend(k)
<1> SUFFICES ASSUME [Next]_vars
             PROVE  UNCHANGED spent \/ \E k \in EnvironmentKind : Spend(k)
  OBVIOUS
<1>1. CASE UNCHANGED vars
  BY <1>1 DEF vars
<1>2. ASSUME NEW n \in Device, MainLoop(n)
      PROVE  UNCHANGED spent
  BY <1>2 DEF MainLoop, LocalChange, LocalChangeDropped, LocalChangeFiles,
     LocalChangePublished, IncomingDropped, IncomingAccepted, ControlPause,
     ControlResume, ControlSyncFiles
<1>3. ASSUME NEW n \in Device,
             \/ Pasteboard(n) \/ IpcSyncFilesQueue(n) \/ Start(n)
             \/ \E m \in Device : PeerLoops(n, m)
      PROVE  UNCHANGED spent
  BY <1>3 DEF Pasteboard, BackendPoll, BackendCommand, IpcSyncFilesQueue,
     Start, StartLoads, StartPaused, StartPublishing, PeerLoops,
     Connect, SendLatest, Subscribe, PeerLoopBail
<1>4. ASSUME NEW n \in Device, Environment(n)
      PROVE  UNCHANGED spent \/ \E k \in EnvironmentKind : Spend(k)
  BY <1>4 DEF Environment, UserCopy, BackendSetRaced, IpcPause, IpcResume,
     IpcSyncFilesRequest, IpcUnpair, IpcPauseFails, IpcResumeFails,
     IpcUnpairFails, Drop, Crash, EnvironmentKind
<1> QED
  BY <1>1, <1>2, <1>3, <1>4 DEF Next

LEMMA SpentStep ==
  ASSUME TypeOK, [Next]_vars, NEW kind \in EnvironmentKind, spent'[kind] = 0
  PROVE  spent[kind] = 0
<1>1. UNCHANGED spent \/ \E k \in EnvironmentKind : Spend(k)
  BY SpendsOrNot
<1>2. ASSUME NEW k \in EnvironmentKind, Spend(k)
      PROVE  spent[kind] = 0
  <2>1. spent \in [EnvironmentKind -> Nat]
    BY DEF TypeOK
  <2>2. spent'[kind] = spent[kind] \/ spent'[kind] = spent[kind] + 1
    BY <1>2, <2>1 DEF Spend
  <2> QED
    BY <2>1, <2>2
<1> QED
  BY <1>1, <1>2

LEMMA SpendCounts ==
  ASSUME TypeOK, NEW kind \in EnvironmentKind, Spend(kind)
  PROVE  spent'[kind] # 0
<1>1. spent \in [EnvironmentKind -> Nat] /\ spent[kind] \in Nat
  BY DEF TypeOK
<1>2. spent'[kind] = spent[kind] + 1
  BY <1>1 DEF Spend
<1> QED
  BY <1>1, <1>2

\* What a daemon has yet to publish is what it found when it loaded.
LEMMA StartingStep ==
  ASSUME TypeOK, [Next]_vars, NEW d \in Device, starting'[d] # None
  PROVE  \/ starting'[d] = starting[d]
         \/ /\ StartLoads(d) /\ starting'[d] = clip[d] /\ clip[d] # None
            /\ ~clip[d].files
<1>1. CASE UNCHANGED vars
  BY <1>1 DEF vars
<1>2. ASSUME NEW n \in Device, MainLoop(n)
      PROVE  starting' = starting
  BY <1>2 DEF MainLoop, LocalChange, LocalChangeDropped, LocalChangeFiles,
     LocalChangePublished, IncomingDropped, IncomingAccepted, ControlPause,
     ControlResume, ControlSyncFiles
<1>3. ASSUME NEW n \in Device,
             \/ Pasteboard(n) \/ IpcSyncFilesQueue(n)
             \/ \E m \in Device : PeerLoops(n, m)
      PROVE  starting' = starting
  BY <1>3 DEF Pasteboard, BackendPoll, BackendCommand, IpcSyncFilesQueue,
     PeerLoops, Connect, SendLatest, Subscribe, PeerLoopBail, Hangup
<1>4. ASSUME NEW n \in Device, Environment(n)
      PROVE  starting'[d] = starting[d]
  <2>1. CASE Crash(n)
    BY <2>1 DEF Crash, TypeOK
  <2> QED
    BY <1>4, <2>1 DEF Environment, UserCopy, BackendSetRaced, IpcPause,
       IpcResume, IpcSyncFilesRequest, IpcUnpair, IpcPauseFails, IpcResumeFails,
       IpcUnpairFails, IpcFails, Drop, Hangup
<1>5. ASSUME NEW n \in Device, StartPaused(n) \/ StartPublishing(n)
      PROVE  starting'[d] = starting[d]
  BY <1>5 DEF StartPaused, StartPublishing, TypeOK
<1>6. ASSUME NEW n \in Device, StartLoads(n)
      PROVE  \/ starting'[d] = starting[d]
             \/ /\ d = n /\ starting'[d] = clip[d] /\ clip[d] # None
                /\ ~clip[d].files
  BY <1>6 DEF StartLoads, InitialPayload, TypeOK
<1> QED
  BY <1>1, <1>2, <1>3, <1>4, <1>5, <1>6 DEF Next, Start

----------------------------------------------------------------------------
(* What a paused device holds *)

\* Handling Pause and Resume drops what is held, and of all publications only
\* the one of files a user asked to sync does not look at `paused`.
HoldsOnlyFiles(n) ==
  cfg[n].paused /\ control[n] = <<>> => latest[n] = None \/ latest[n].payload.files

\* A daemon that is down or starting holds nothing.
IdleHoldsNothing(n) == ~InMainLoop(n) => latest[n] = None

\* A pause that could not be saved is not told to the main loop.
PausedInv ==
  \A n \in Device : /\ IdleHoldsNothing(n)
                    /\ spent["pauseFails"] = 0 => HoldsOnlyFiles(n)

LEMMA HoldsFrame ==
  ASSUME NEW n \in Device, HoldsOnlyFiles(n),
         cfg'[n].paused = cfg[n].paused, control'[n] = control[n],
         latest'[n] = latest[n]
  PROVE  HoldsOnlyFiles(n)'
BY DEF HoldsOnlyFiles

\* Saving the clock leaves `paused` as it is.
LEMMA SaveClockPaused ==
  ASSUME TypeOK, NEW n \in Device, NEW clock, SaveClock(n, clock)
  PROVE  \A d \in Device : cfg'[d].paused = cfg[d].paused
<1>1. cfg \in [Device -> Config]
  BY DEF TypeOK
<1>2. [cfg[n] EXCEPT !.clock = clock].paused = cfg[n].paused
  BY <1>1 DEF Config
<1>3. cfg' = [cfg EXCEPT ![n] = [cfg[n] EXCEPT !.clock = clock]]
  BY DEF SaveClock, Save
<1> QED
  BY <1>1, <1>2, <1>3

LEMMA HoldsMainLoopStep ==
  ASSUME TypeOK, OwnInv, NEW n \in Device, MainLoop(n), HoldsOnlyFiles(n)
  PROVE  HoldsOnlyFiles(n)'
<1>1. CASE \/ LocalChangeDropped(n) \/ LocalChangeFiles(n)
           \/ \E m \in Device : IncomingDropped(n, m)
  BY <1>1, HoldsFrame DEF LocalChange, LocalChangeDropped, LocalChangeFiles,
     IncomingDropped
<1>2. CASE LocalChangePublished(n)
  <2>1. ~cfg[n].paused /\ SaveClock(n, increment(cfg[n].clock, n))
    BY <1>2 DEF LocalChangePublished, Publish
  <2>2. ~cfg'[n].paused
    BY <2>1, SaveClockPaused
  <2> QED
    BY <2>2 DEF HoldsOnlyFiles
<1>3. ASSUME NEW m \in Device, IncomingAccepted(n, m)
      PROVE  HoldsOnlyFiles(n)'
  <2>1. PICK clock : ~cfg[n].paused /\ SaveClock(n, clock)
    BY <1>3 DEF IncomingAccepted, Accepts
  <2>2. ~cfg'[n].paused
    BY <2>1, SaveClockPaused
  <2> QED
    BY <2>2 DEF HoldsOnlyFiles
<1>4. CASE ControlPause(n) \/ ControlResume(n)
  <2>1. latest'[n] = None
    BY <1>4 DEF ControlPause, ControlResume, TypeOK
  <2> QED
    BY <2>1 DEF HoldsOnlyFiles
<1>5. CASE ControlSyncFiles(n)
  <2>1. Head(control[n]) \in ControlsOf(OwnPayload(n))
    <3>1. control[n] \in Seq(ControlsOf(OwnPayload(n))) /\ control[n] # <<>>
      BY <1>5 DEF OwnInv, TakesFrom, ControlSyncFiles
    <3> QED
      BY <3>1, HeadTailProperties
  <2>2. Head(control[n]).payload.files
    BY <1>5, <2>1 DEF ControlSyncFiles, ControlsOf, FilesOf
  <2>3. latest'[n].payload = Head(control[n]).payload
    BY <1>5 DEF ControlSyncFiles, Publish, NewEvent, TypeOK
  <2> QED
    BY <2>2, <2>3 DEF HoldsOnlyFiles
<1> QED
  BY <1>1, <1>2, <1>3, <1>4, <1>5 DEF MainLoop

LEMMA HoldsIpcStep ==
  ASSUME TypeOK, NEW n \in Device, HoldsOnlyFiles(n),
         \/ IpcPause(n) \/ IpcResume(n) \/ IpcResumeFails(n)
         \/ IpcSyncFilesRequest(n) \/ IpcSyncFilesQueue(n)
         \/ \E m \in Device : IpcUnpair(n, m) \/ IpcUnpairFails(n, m)
  PROVE  HoldsOnlyFiles(n)'
<1>1. CASE IpcPause(n) \/ IpcResume(n) \/ IpcSyncFilesQueue(n)
  \* What is queued has yet to be handled.
  <2>1. PICK c : control' = [control EXCEPT ![n] = Append(@, c)]
    BY <1>1 DEF IpcPause, IpcResume, IpcSyncFilesQueue
  <2>2. control'[n] = Append(control[n], c) /\ control[n] \in Seq(Control)
    BY <2>1 DEF TypeOK
  <2>3. Append(control[n], c) # <<>>
    BY <2>2
  <2> QED
    BY <2>2, <2>3 DEF HoldsOnlyFiles
<1>2. CASE IpcSyncFilesRequest(n)
  BY <1>2, HoldsFrame DEF IpcSyncFilesRequest
<1>3. ASSUME NEW m \in Device, IpcUnpair(n, m)
      PROVE  HoldsOnlyFiles(n)'
  <2>1. cfg' = [cfg EXCEPT ![n] = [cfg[n] EXCEPT !.peers = @ \ {m}]]
    BY <1>3 DEF IpcUnpair, Save
  <2>2. cfg'[n].paused = cfg[n].paused
    BY <2>1 DEF TypeOK, Config
  <2> QED
    BY <1>3, <2>2, HoldsFrame DEF IpcUnpair
<1>4. CASE IpcResumeFails(n)
  <2>1. cfg' = [cfg EXCEPT ![n] = [cfg[n] EXCEPT !.paused = FALSE]]
    BY <1>4 DEF IpcResumeFails, IpcFails
  <2>2. ~cfg'[n].paused
    BY <2>1 DEF TypeOK, Config
  <2> QED
    BY <2>2 DEF HoldsOnlyFiles
<1>5. ASSUME NEW m \in Device, IpcUnpairFails(n, m)
      PROVE  HoldsOnlyFiles(n)'
  <2>1. cfg' = [cfg EXCEPT ![n] = [cfg[n] EXCEPT !.peers = @ \ {m}]]
    BY <1>5 DEF IpcUnpairFails, IpcFails
  <2>2. cfg'[n].paused = cfg[n].paused
    BY <2>1 DEF TypeOK, Config
  <2> QED
    BY <1>5, <2>2, HoldsFrame DEF IpcUnpairFails, IpcFails
<1> QED
  BY <1>1, <1>2, <1>3, <1>4, <1>5

LEMMA HoldsCrashStep ==
  ASSUME TypeOK, NEW n \in Device, IdleHoldsNothing(n), HoldsOnlyFiles(n),
         Crash(n) \/ Start(n)
  PROVE  HoldsOnlyFiles(n)'
<1>1. CASE Crash(n)
  <2>1. latest'[n] = None
    BY <1>1 DEF Crash, TypeOK
  <2> QED
    BY <2>1 DEF HoldsOnlyFiles
<1>2. CASE StartLoads(n) \/ StartPaused(n)
  <2>1. latest'[n] = None
    BY <1>2 DEF StartLoads, StartPaused, IdleHoldsNothing, InMainLoop
  <2> QED
    BY <2>1 DEF HoldsOnlyFiles
<1>3. CASE StartPublishing(n)
  <2>1. PICK clock : ~cfg[n].paused /\ SaveClock(n, clock)
    BY <1>3 DEF StartPublishing
  <2>2. ~cfg'[n].paused
    BY <2>1, SaveClockPaused
  <2> QED
    BY <2>2 DEF HoldsOnlyFiles
<1> QED
  BY <1>1, <1>2, <1>3 DEF Start

LEMMA HoldsOtherStep ==
  ASSUME TypeOK, NEW n \in Device, NEW d \in Device, d # n,
         \/ MainLoop(n) \/ IpcSyncFilesQueue(n) \/ Start(n)
         \/ IpcPause(n) \/ IpcPauseFails(n) \/ IpcResume(n) \/ IpcResumeFails(n)
         \/ IpcSyncFilesRequest(n)
         \/ \E m \in Device : IpcUnpair(n, m) \/ IpcUnpairFails(n, m)
         \/ Crash(n)
  PROVE  cfg'[d] = cfg[d] /\ control'[d] = control[d] /\ latest'[d] = latest[d]
<1>1. CASE MainLoop(n)
  <2>1. CASE LocalChangePublished(n) \/ ControlSyncFiles(n)
    BY <2>1 DEF LocalChangePublished, LocalChange, ControlSyncFiles, Publish,
       SaveClock, Save, TypeOK
  <2>2. ASSUME NEW m \in Device, IncomingAccepted(n, m)
        PROVE  cfg'[d] = cfg[d] /\ control'[d] = control[d] /\ latest'[d] = latest[d]
    BY <2>2 DEF IncomingAccepted, SaveClock, Save, TypeOK
  <2>3. CASE \/ LocalChangeDropped(n) \/ LocalChangeFiles(n)
             \/ \E m \in Device : IncomingDropped(n, m)
    BY <2>3 DEF LocalChange, LocalChangeDropped, LocalChangeFiles, IncomingDropped
  <2>4. CASE ControlPause(n) \/ ControlResume(n)
    BY <2>4 DEF ControlPause, ControlResume, TypeOK
  <2> QED
    BY <1>1, <2>1, <2>2, <2>3, <2>4 DEF MainLoop
<1>2. CASE Start(n)
  BY <1>2 DEF Start, StartLoads, StartPaused, StartPublishing, SaveClock, Save,
     TypeOK
<1>3. CASE \/ IpcPause(n) \/ IpcPauseFails(n) \/ IpcResume(n) \/ IpcResumeFails(n)
           \/ \E m \in Device : IpcUnpair(n, m) \/ IpcUnpairFails(n, m)
  BY <1>3 DEF IpcPause, IpcResume, IpcUnpair, Save, IpcPauseFails,
     IpcResumeFails, IpcUnpairFails, IpcFails, TypeOK
<1>4. CASE IpcSyncFilesRequest(n) \/ IpcSyncFilesQueue(n) \/ Crash(n)
  <2>1. CASE IpcSyncFilesRequest(n)
    BY <2>1 DEF IpcSyncFilesRequest
  <2>2. CASE IpcSyncFilesQueue(n)
    BY <2>2 DEF IpcSyncFilesQueue, TypeOK
  <2>3. CASE Crash(n)
    BY <2>3 DEF Crash, TypeOK
  <2> QED
    BY <1>4, <2>1, <2>2, <2>3
<1> QED
  BY <1>1, <1>2, <1>3, <1>4

LEMMA IdleStep ==
  ASSUME TypeOK, [Next]_vars, NEW d \in Device, IdleHoldsNothing(d)
  PROVE  IdleHoldsNothing(d)'
<1>1. ASSUME up'[d] = up[d], starting'[d] = starting[d], latest'[d] = latest[d]
      PROVE  IdleHoldsNothing(d)'
  BY <1>1 DEF IdleHoldsNothing, InMainLoop
<1>2. CASE UNCHANGED vars
  BY <1>1, <1>2 DEF vars
<1>3. ASSUME NEW n \in Device, MainLoop(n)
      PROVE  IdleHoldsNothing(d)'
  <2>1. InMainLoop(n) /\ UNCHANGED <<up, starting>>
    BY <1>3 DEF MainLoop, LocalChange, LocalChangeDropped, LocalChangeFiles,
       LocalChangePublished, Incoming, IncomingDropped, IncomingAccepted,
       ControlPause, ControlResume, ControlSyncFiles
  <2>2. CASE d = n
    BY <2>1, <2>2 DEF IdleHoldsNothing, InMainLoop
  <2>3. CASE d # n
    BY <1>1, <1>3, <2>1, <2>3, HoldsOtherStep
  <2> QED
    BY <2>2, <2>3
<1>4. ASSUME NEW n \in Device,
             \/ Pasteboard(n) \/ IpcSyncFilesQueue(n)
             \/ \E m \in Device : PeerLoops(n, m)
      PROVE  IdleHoldsNothing(d)'
  BY <1>1, <1>4 DEF Pasteboard, BackendPoll, BackendCommand, IpcSyncFilesQueue,
     PeerLoops, Connect, SendLatest, Subscribe, PeerLoopBail, Hangup
<1>5. ASSUME NEW n \in Device, Environment(n)
      PROVE  IdleHoldsNothing(d)'
  <2>1. CASE Crash(n)
    <3>1. CASE d = n
      BY <2>1, <3>1 DEF Crash, IdleHoldsNothing, TypeOK
    <3>2. CASE d # n
      BY <1>1, <2>1, <3>2 DEF Crash, TypeOK
    <3> QED
      BY <3>1, <3>2
  <2> QED
    BY <1>1, <1>5, <2>1 DEF Environment, UserCopy, BackendSetRaced, IpcPause,
       IpcResume, IpcSyncFilesRequest, IpcUnpair, IpcPauseFails, IpcResumeFails,
       IpcUnpairFails, IpcFails, Drop, Hangup
<1>6. ASSUME NEW n \in Device, Start(n)
      PROVE  IdleHoldsNothing(d)'
  <2>1. CASE d # n
    BY <1>1, <1>6, <2>1 DEF Start, StartLoads, StartPaused, StartPublishing,
       TypeOK
  <2>2. CASE d = n /\ (StartLoads(n) \/ StartPaused(n))
    BY <2>2 DEF StartLoads, StartPaused, IdleHoldsNothing, InMainLoop
  <2>3. CASE d = n /\ StartPublishing(n)
    BY <2>3 DEF StartPublishing, IdleHoldsNothing, InMainLoop, TypeOK
  <2> QED
    BY <1>6, <2>1, <2>2, <2>3 DEF Start
<1> QED
  BY <1>2, <1>3, <1>4, <1>5, <1>6 DEF Next

LEMMA PausedStep == TypeOK /\ OwnInv /\ PausedInv /\ [Next]_vars => PausedInv'
<1> SUFFICES ASSUME TypeOK, OwnInv, PausedInv, [Next]_vars, NEW d \in Device
             PROVE  /\ IdleHoldsNothing(d)'
                    /\ spent'["pauseFails"] = 0 => HoldsOnlyFiles(d)'
  BY DEF PausedInv
<1>1. IdleHoldsNothing(d)'
  BY IdleStep DEF PausedInv
<1> SUFFICES ASSUME spent'["pauseFails"] = 0
             PROVE  HoldsOnlyFiles(d)'
  BY <1>1
<1>2. IdleHoldsNothing(d) /\ HoldsOnlyFiles(d)
  BY SpentStep DEF PausedInv, EnvironmentKind
<1>3. CASE UNCHANGED vars
  BY <1>2, <1>3, HoldsFrame DEF vars
<1>4. CASE Next
  <2>1. PICK n \in Device :
          \/ MainLoop(n)
          \/ Pasteboard(n)
          \/ \E m \in Device : PeerLoops(n, m)
          \/ IpcSyncFilesQueue(n)
          \/ Start(n)
          \/ Environment(n)
    BY <1>4 DEF Next
  <2>2. CASE \/ Pasteboard(n) \/ BackendSetRaced(n)
             \/ \E files \in BOOLEAN : UserCopy(n, files)
             \/ \E m \in Device : PeerLoops(n, m) \/ Drop(n, m)
    <3>1. UNCHANGED <<cfg, control, latest>>
      BY <2>2 DEF Pasteboard, BackendPoll, BackendCommand, BackendSetRaced,
         UserCopy, PeerLoops, Connect, SendLatest, Subscribe, PeerLoopBail, Drop,
         Hangup
    <3> QED
      BY <1>2, <3>1, HoldsFrame
  <2>3. CASE \/ MainLoop(n) \/ IpcSyncFilesQueue(n) \/ Start(n)
             \/ IpcPause(n) \/ IpcResume(n) \/ IpcResumeFails(n)
             \/ IpcSyncFilesRequest(n)
             \/ \E m \in Device : IpcUnpair(n, m) \/ IpcUnpairFails(n, m)
             \/ Crash(n)
    <3>1. CASE d = n
      BY <1>2, <2>3, <3>1, HoldsMainLoopStep, HoldsIpcStep, HoldsCrashStep
    <3>2. CASE d # n
      BY <1>2, <2>3, <3>2, HoldsOtherStep, HoldsFrame
    <3> QED
      BY <3>1, <3>2
  <2>4. CASE IpcPauseFails(n)
    BY <2>4, SpendCounts DEF IpcPauseFails, EnvironmentKind
  <2> QED
    BY <2>1, <2>2, <2>3, <2>4 DEF Environment
<1> QED
  BY <1>3, <1>4

\* A daemon that is paused, could save every pause and has handled its control
\* messages holds no event a peer could be sent, but files its user asked to
\* sync; and none holds any before its start-up publication.
THEOREM PausedHoldsOnlyFiles == Spec => []PausedInv
<1>1. Init => PausedInv
  <2>1. ASSUME Init, NEW n \in Device
        PROVE  latest[n] = None
    BY <2>1 DEF Init
  <2> QED
    BY <2>1 DEF PausedInv, HoldsOnlyFiles, IdleHoldsNothing
<1> QED
  BY <1>1, PausedStep, OwnAlways, TypeCorrect, PTL DEF Spec

PlainPayload == {p \in Payload : ~p.files}

\* Without copied files there are none to read, to ask about or to publish.
PlainInv ==
  spent["copyFiles"] = 0 =>
    /\ \A n \in Device : TakesFrom(n, PlainPayload)
    /\ \A n \in Device : starting[n] # None => ~starting[n].files
    /\ \A e \in created : ~e.payload.files

LEMMA PlainStep == TypeOK /\ PlainInv /\ [Next]_vars => PlainInv'
<1> SUFFICES ASSUME TypeOK, PlainInv, [Next]_vars, spent'["copyFiles"] = 0
             PROVE  /\ \A n \in Device : TakesFrom(n, PlainPayload)'
                    /\ \A n \in Device : starting'[n] # None => ~starting'[n].files
                    /\ \A e \in created' : ~e.payload.files
  BY DEF PlainInv
<1>1. spent["copyFiles"] = 0
  BY SpentStep DEF EnvironmentKind
<1>2. /\ \A n \in Device : TakesFrom(n, PlainPayload)
      /\ \A n \in Device : starting[n] # None => ~starting[n].files
      /\ \A e \in created : ~e.payload.files
  BY <1>1 DEF PlainInv
<1>3. ASSUME NEW n \in Device
      PROVE  TakesFrom(n, PlainPayload)'
  <2>1. ASSUME NEW files \in BOOLEAN, UserCopy(n, files)
        PROVE  NextContent(n, files) \in PlainPayload
    <3>1. ~files
      <4>1. CASE files
        <5>1. spent' = [spent EXCEPT !["copyFiles"] = @ + 1]
          BY <2>1, <4>1 DEF UserCopy, Spend
        <5>2. spent'["copyFiles"] = 1
          BY <1>1, <5>1 DEF TypeOK, EnvironmentKind
        <5> QED
          BY <5>2
      <4> QED
        BY <4>1
    <3>2. NextContent(n, files) \in Payload
      BY NextContentType
    <3> QED
      BY <3>1, <3>2 DEF NextContent, PlainPayload
  <2>2. TakesFrom(n, PlainPayload)
    BY <1>2
  <2> QED
    BY <2>1, <2>2, TakesStep
<1>4. ASSUME NEW e \in created'
      PROVE  ~e.payload.files
  <2>1. CASE e \in created
    BY <1>2, <2>1
  <2>2. CASE e \notin created
    <3>1. PICK n \in Device :
            \/ LocalChangePublished(n)
            \/ ControlSyncFiles(n)
            \/ StartPublishing(n)
      BY <2>2, WhoMakesEvents
    <3>2. CASE LocalChangePublished(n)
      BY <2>2, <3>2 DEF LocalChangePublished, Publish, NewEvent
    <3>3. CASE ControlSyncFiles(n)
      <4>1. control[n] \in Seq(ControlsOf(PlainPayload)) /\ control[n] # <<>>
        BY <1>2, <3>3 DEF TakesFrom, ControlSyncFiles
      <4>2. Head(control[n]) \in ControlsOf(PlainPayload)
        BY <4>1, HeadTailProperties
      <4> QED
        BY <3>3, <4>2 DEF ControlSyncFiles, ControlsOf, FilesOf, PlainPayload
    <3>4. CASE StartPublishing(n)
      BY <1>2, <2>2, <3>4 DEF StartPublishing, NewEvent
    <3> QED
      BY <3>1, <3>2, <3>3, <3>4
  <2> QED
    BY <2>1, <2>2
<1>5. ASSUME NEW n \in Device, starting'[n] # None
      PROVE  ~starting'[n].files
  BY <1>2, <1>5, StartingStep
<1> QED
  BY <1>3, <1>4, <1>5

LEMMA PlainAlways == Spec => []PlainInv
<1>1. Init => PlainInv
  BY TakesInit DEF Init, PlainInv
<1> QED
  BY <1>1, PlainStep, TypeCorrect, PTL DEF Spec

\* A daemon nobody pauses is not paused, in memory or on file.
NeverPaused ==
  spent["pause"] = 0 /\ spent["pauseFails"] = 0 =>
    \A n \in Device : ~cfg[n].paused /\ ~disk[n].paused

LEMMA NeverPausedStep == TypeOK /\ NeverPaused /\ [Next]_vars => NeverPaused'
<1> SUFFICES ASSUME TypeOK, NeverPaused, [Next]_vars, spent'["pause"] = 0,
                    spent'["pauseFails"] = 0, NEW d \in Device
             PROVE  ~cfg'[d].paused /\ ~disk'[d].paused
  BY DEF NeverPaused
<1> DEFINE Goal == ~cfg'[d].paused /\ ~disk'[d].paused
<1>1. \A n \in Device : ~cfg[n].paused /\ ~disk[n].paused
  BY SpentStep DEF NeverPaused, EnvironmentKind
<1>2. CASE UNCHANGED <<cfg, disk>>
  BY <1>1, <1>2
<1>3. ASSUME NEW n \in Device, NEW config, ~config.paused,
             cfg' = [cfg EXCEPT ![n] = config],
             disk' = disk \/ disk' = [disk EXCEPT ![n] = config]
      PROVE  Goal
  BY <1>1, <1>3 DEF TypeOK
<1> HIDE DEF Goal
<1>4. ASSUME NEW n \in Device, NEW clock, SaveClock(n, clock)
      PROVE  Goal
  <2>1. ~[cfg[n] EXCEPT !.clock = clock].paused
    BY <1>1 DEF TypeOK, Config
  <2> QED
    BY <1>3, <1>4, <2>1 DEF SaveClock, Save
<1>5. ASSUME NEW n \in Device, MainLoop(n)
      PROVE  UNCHANGED <<cfg, disk>> \/ \E clock : SaveClock(n, clock)
  BY <1>5 DEF MainLoop, LocalChangeDropped, LocalChangeFiles,
     LocalChangePublished, IncomingDropped, IncomingAccepted, ControlPause,
     ControlResume, ControlSyncFiles, Publish
<1>6. ASSUME NEW n \in Device, Start(n)
      PROVE  Goal
  <2>1. CASE StartLoads(n)
    BY <1>1, <1>3, <2>1 DEF StartLoads
  <2>2. CASE StartPaused(n)
    BY <1>2, <2>2 DEF StartPaused, Goal
  <2>3. CASE StartPublishing(n)
    BY <1>4, <2>3 DEF StartPublishing
  <2> QED
    BY <1>6, <2>1, <2>2, <2>3 DEF Start
<1>7. ASSUME NEW n \in Device, IpcPause(n) \/ IpcPauseFails(n)
      PROVE  FALSE
  BY <1>7, SpendCounts DEF IpcPause, IpcPauseFails, EnvironmentKind
<1>8. ASSUME NEW n \in Device,
             \/ IpcResume(n) \/ IpcResumeFails(n)
             \/ \E m \in Device : IpcUnpair(n, m) \/ IpcUnpairFails(n, m)
      PROVE  Goal
  <2>1. cfg[n] \in Config
    BY DEF TypeOK
  <2>2. ~[cfg[n] EXCEPT !.paused = FALSE].paused
    BY <2>1 DEF Config
  <2>3. CASE IpcResume(n) \/ IpcResumeFails(n)
    BY <1>3, <2>2, <2>3 DEF IpcResume, IpcResumeFails, IpcFails, Save
  <2>4. ASSUME NEW m \in Device, IpcUnpair(n, m) \/ IpcUnpairFails(n, m)
        PROVE  Goal
    <3>1. ~[cfg[n] EXCEPT !.peers = @ \ {m}].paused
      BY <1>1, <2>1 DEF Config
    <3> QED
      BY <1>3, <2>4, <3>1 DEF IpcUnpair, IpcUnpairFails, IpcFails, Save
  <2> QED
    BY <1>8, <2>3, <2>4
<1>9. ASSUME NEW n \in Device,
             \/ Pasteboard(n) \/ IpcSyncFilesQueue(n)
             \/ \E m \in Device : PeerLoops(n, m) \/ Drop(n, m)
             \/ \E files \in BOOLEAN : UserCopy(n, files)
             \/ BackendSetRaced(n) \/ IpcSyncFilesRequest(n) \/ Crash(n)
      PROVE  UNCHANGED <<cfg, disk>>
  BY <1>9 DEF Pasteboard, BackendPoll, BackendCommand, IpcSyncFilesQueue,
     PeerLoops, Connect, SendLatest, Subscribe, PeerLoopBail, Drop, Hangup,
     UserCopy, BackendSetRaced, IpcSyncFilesRequest, Crash
<1>10. CASE UNCHANGED vars
  BY <1>2, <1>10 DEF vars
<1>11. CASE Next
  <2>1. PICK n \in Device :
          \/ MainLoop(n)
          \/ Pasteboard(n)
          \/ \E m \in Device : PeerLoops(n, m)
          \/ IpcSyncFilesQueue(n)
          \/ Start(n)
          \/ Environment(n)
    BY <1>11 DEF Next
  <2>2. CASE \/ Pasteboard(n) \/ IpcSyncFilesQueue(n)
             \/ \E m \in Device : PeerLoops(n, m) \/ Drop(n, m)
             \/ \E files \in BOOLEAN : UserCopy(n, files)
             \/ BackendSetRaced(n) \/ IpcSyncFilesRequest(n) \/ Crash(n)
    BY <1>2, <1>9, <2>2
  <2>3. CASE MainLoop(n)
    BY <1>2, <1>4, <1>5, <2>3 DEF Goal
  <2>4. CASE \/ IpcPause(n) \/ IpcPauseFails(n) \/ IpcResume(n) \/ IpcResumeFails(n)
             \/ \E m \in Device : IpcUnpair(n, m) \/ IpcUnpairFails(n, m)
             \/ Start(n)
    BY <1>6, <1>7, <1>8, <2>4 DEF Goal
  <2> QED
    BY <2>1, <2>2, <2>3, <2>4 DEF Environment
<1> QED
  BY <1>10, <1>11

LEMMA NeverPausedAlways == Spec => []NeverPaused
<1>1. Init => NeverPaused
  <2>1. ASSUME Init, NEW n \in Device
        PROVE  ~cfg[n].paused /\ ~disk[n].paused
    <3>1. cfg[n] = [clock |-> Zero, paused |-> FALSE, peers |-> Device \ {n},
                    name |-> 0]
      BY <2>1 DEF Init
    <3> QED
      BY <2>1, <3>1 DEF Init
  <2> QED
    BY <2>1 DEF NeverPaused
<1> QED
  BY <1>1, NeverPausedStep, TypeCorrect, PTL DEF Spec

\* As long as nobody has both copied files and paused, and every pause could be
\* saved, a paused daemon that has handled its control messages holds no event a
\* peer could be sent.
THEOREM PausedDaemonHoldsNothing ==
  Spec => [](spent["copyFiles"] = 0 \/ spent["pause"] = 0 => PausedHoldsNothing)
<1>1. ASSUME TypeOK, PausedInv, PlainInv, NeverPaused,
             spent["copyFiles"] = 0 \/ spent["pause"] = 0
      PROVE  PausedHoldsNothing
  <2>1. CASE spent["pause"] = 0
    \* Nor was a pause left unsaved: PausedHoldsNothing excepts those.
    BY <1>1, <2>1 DEF NeverPaused, PausedHoldsNothing
  <2>2. CASE spent["copyFiles"] = 0
    BY <1>1, <2>2 DEF TypeOK, PausedInv, HoldsOnlyFiles, PlainInv,
       PausedHoldsNothing
  <2> QED
    BY <1>1, <2>1, <2>2
<1>2. TypeOK /\ PausedInv /\ PlainInv /\ NeverPaused =>
        (spent["copyFiles"] = 0 \/ spent["pause"] = 0 => PausedHoldsNothing)
  BY <1>1
<1> QED
  BY <1>2, TypeCorrect, PausedHoldsOnlyFiles, PlainAlways, NeverPausedAlways, PTL

----------------------------------------------------------------------------
(* What a clipboard shows *)

\* The last write waiting in a queue of commands is of p; there is none.
LastSet(s, p) ==
  \E i \in 1..Len(s) : /\ s[i].op = "Set" /\ s[i].payload = p
                       /\ \A j \in 1..Len(s) : j > i => s[j].op # "Set"

NoSets(s) == \A i \in 1..Len(s) : s[i].op # "Set"

\* What is waiting to be written is of P.
SetsIn(s, P) == \A i \in 1..Len(s) : s[i].op = "Set" => s[i].payload \in P

LEMMA SetsAppend ==
  ASSUME NEW s \in Seq(Command), NEW c \in Command
  PROVE  /\ c.op = "Set" => LastSet(Append(s, c), c.payload)
         /\ c.op # "Set" /\ NoSets(s) => NoSets(Append(s, c))
         /\ \A p : c.op # "Set" /\ LastSet(s, p) => LastSet(Append(s, c), p)
         /\ \A P : SetsIn(s, P) /\ (c.op = "Set" => c.payload \in P) =>
              SetsIn(Append(s, c), P)
<1> DEFINE t == Append(s, c)
<1>1. /\ Len(s) \in Nat /\ Len(t) = Len(s) + 1
      /\ \A i \in 1..Len(s) : t[i] = s[i]
      /\ t[Len(s) + 1] = c
  BY AppendProperties, LenProperties
<1> HIDE DEF t
<1>2. \A i \in 1..Len(t) : i \in 1..Len(s) \/ i = Len(s) + 1
  BY <1>1
<1>3. Len(s) + 1 \in 1..Len(t) /\ \A i \in 1..Len(s) : i \in 1..Len(t)
  BY <1>1
<1>4. ASSUME c.op = "Set"
      PROVE  LastSet(t, c.payload)
  <2>1. \A j \in 1..Len(t) : ~(j > Len(s) + 1)
    BY <1>1
  <2> QED
    BY <1>1, <1>3, <1>4, <2>1 DEF LastSet
<1>5. ASSUME c.op # "Set", NoSets(s)
      PROVE  NoSets(t)
  BY <1>1, <1>2, <1>5 DEF NoSets
<1>6. ASSUME NEW p, c.op # "Set", LastSet(s, p)
      PROVE  LastSet(t, p)
  <2>1. PICK i \in 1..Len(s) : /\ s[i].op = "Set" /\ s[i].payload = p
                               /\ \A j \in 1..Len(s) : j > i => s[j].op # "Set"
    BY <1>6 DEF LastSet
  <2>2. \A j \in 1..Len(t) : j > i => t[j].op # "Set"
    BY <1>1, <1>2, <1>6, <2>1
  <2> QED
    BY <1>1, <1>3, <2>1, <2>2 DEF LastSet
<1>7. ASSUME NEW P, SetsIn(s, P), c.op = "Set" => c.payload \in P
      PROVE  SetsIn(t, P)
  BY <1>1, <1>2, <1>7 DEF SetsIn
<1> QED
  BY <1>4, <1>5, <1>6, <1>7 DEF t

LEMMA SetsTail ==
  ASSUME NEW s \in Seq(Command), s # <<>>
  PROVE  /\ NoSets(s) => NoSets(Tail(s))
         /\ \A p : LastSet(s, p) =>
              \/ LastSet(Tail(s), p)
              \/ /\ NoSets(Tail(s))
                 /\ Head(s).op = "Set" /\ Head(s).payload = p
         /\ \A P : SetsIn(s, P) =>
              /\ SetsIn(Tail(s), P)
              /\ Head(s).op = "Set" => Head(s).payload \in P
<1> DEFINE t == Tail(s)
<1>1. /\ Len(s) \in Nat /\ Len(s) >= 1 /\ Len(t) = Len(s) - 1
      /\ Head(s) = s[1]
      /\ \A i \in 1..Len(t) : t[i] = s[i + 1]
  BY HeadTailProperties, LenProperties, EmptySeq
<1> HIDE DEF t
<1>2. 1 \in 1..Len(s) /\ \A i \in 1..Len(t) : i + 1 \in 1..Len(s)
  BY <1>1
<1>3. ASSUME NoSets(s)
      PROVE  NoSets(t)
  BY <1>1, <1>2, <1>3 DEF NoSets
<1>4. ASSUME NEW p, LastSet(s, p)
      PROVE  \/ LastSet(t, p)
             \/ NoSets(t) /\ Head(s).op = "Set" /\ Head(s).payload = p
  <2>1. PICK i \in 1..Len(s) : /\ s[i].op = "Set" /\ s[i].payload = p
                               /\ \A j \in 1..Len(s) : j > i => s[j].op # "Set"
    BY <1>4 DEF LastSet
  <2>2. CASE i = 1
    <3>1. \A j \in 1..Len(t) : j + 1 > 1 /\ j + 1 \in 1..Len(s)
      BY <1>1
    <3>2. NoSets(t)
      BY <1>1, <2>1, <2>2, <3>1 DEF NoSets
    <3> QED
      BY <1>1, <2>1, <2>2, <3>2
  <2>3. CASE i # 1
    <3>1. i - 1 \in 1..Len(t) /\ t[i - 1] = s[i]
      BY <1>1, <2>3
    <3>2. \A j \in 1..Len(t) : j > i - 1 => j + 1 > i /\ j + 1 \in 1..Len(s)
      BY <1>1
    <3>3. \A j \in 1..Len(t) : j > i - 1 => t[j].op # "Set"
      BY <1>1, <2>1, <3>2
    <3> QED
      BY <2>1, <3>1, <3>3 DEF LastSet
  <2> QED
    BY <2>2, <2>3
<1>5. ASSUME NEW P, SetsIn(s, P)
      PROVE  /\ SetsIn(t, P)
             /\ Head(s).op = "Set" => Head(s).payload \in P
  BY <1>1, <1>2, <1>5 DEF SetsIn
<1> QED
  BY <1>3, <1>4, <1>5 DEF t

LEMMA NothingSet == NoSets(<<>>) /\ \A p : ~LastSet(<<>>, p) /\ SetsIn(<<>>, p)
<1>1. 1..Len(<<>>) = {}
  BY EmptySeq
<1> QED
  BY <1>1 DEF NoSets, LastSet, SetsIn

PublishedContent == {e.payload : e \in created}

\* Content of another's user reaches a clipboard in an event.
ForeignInv ==
  \A n \in Device :
    /\ clip[n] # None => clip[n].by = n \/ clip[n] \in PublishedContent
    /\ starting[n] # None => starting[n].by = n \/ starting[n] \in PublishedContent
    /\ SetsIn(commands[n], PublishedContent)

\* Events are never unmade.
LEMMA CreatedGrows == [Next]_vars => created \subseteq created'
<1> SUFFICES ASSUME [Next]_vars, created' # created
             PROVE  created \subseteq created'
  OBVIOUS
<1> QED
  BY WhoMakesEvents DEF LocalChangePublished, ControlSyncFiles,
     StartPublishing, Publish

\* The queue of commands and the clipboard belong to one device's tasks.
LEMMA ClipboardSteps ==
  ASSUME TypeOK, [Next]_vars, NEW d \in Device
  PROVE  \/ clip'[d] = clip[d] /\ commands'[d] = commands[d]
         \/ \E files \in BOOLEAN : UserCopy(d, files)
         \/ BackendCommand(d)
         \/ BackendSetRaced(d)
         \/ \E m \in Device : IncomingAccepted(d, m)
         \/ ControlResume(d)
         \/ ControlSyncFiles(d)
         \/ Crash(d)
<1> DEFINE Same == clip'[d] = clip[d] /\ commands'[d] = commands[d]
<1>1. CASE UNCHANGED vars
  BY <1>1 DEF vars
<1>2. ASSUME NEW n \in Device, MainLoop(n), ~Same
      PROVE  \/ \E m \in Device : IncomingAccepted(d, m)
             \/ ControlResume(d)
             \/ ControlSyncFiles(d)
  <2>1. CASE \/ LocalChangeDropped(n) \/ LocalChangeFiles(n)
             \/ LocalChangePublished(n) \/ ControlPause(n)
             \/ \E m \in Device : IncomingDropped(n, m)
    BY <1>2, <2>1 DEF LocalChange, LocalChangeDropped, LocalChangeFiles,
       LocalChangePublished, ControlPause, IncomingDropped
  <2>2. ASSUME NEW m \in Device, IncomingAccepted(n, m)
        PROVE  n = d
    BY <1>2, <2>2 DEF IncomingAccepted, TypeOK
  <2>3. CASE ControlResume(n) \/ ControlSyncFiles(n)
    <3>1. n = d
      BY <1>2, <2>3 DEF ControlResume, ControlSyncFiles, TypeOK
    <3> QED
      BY <2>3, <3>1
  <2> QED
    BY <1>2, <2>1, <2>2, <2>3 DEF MainLoop
<1>3. ASSUME NEW n \in Device, ~Same,
             \/ Pasteboard(n) \/ BackendSetRaced(n) \/ Crash(n)
             \/ \E files \in BOOLEAN : UserCopy(n, files)
      PROVE  \/ \E files \in BOOLEAN : UserCopy(d, files)
             \/ BackendCommand(d) \/ BackendSetRaced(d) \/ Crash(d)
  <2>1. ASSUME n # d
        PROVE  FALSE
    <3>1. CASE BackendPoll(n)
      BY <1>3, <3>1 DEF BackendPoll
    <3>2. CASE BackendCommand(n)
      BY <1>3, <2>1, <3>2 DEF BackendCommand, TypeOK
    <3>3. CASE BackendSetRaced(n)
      BY <1>3, <2>1, <3>3 DEF BackendSetRaced, TypeOK
    <3>4. CASE Crash(n)
      BY <1>3, <2>1, <3>4 DEF Crash, TypeOK
    <3>5. ASSUME NEW files \in BOOLEAN, UserCopy(n, files)
          PROVE  FALSE
      BY <1>3, <2>1, <3>5 DEF UserCopy, TypeOK
    <3> QED
      BY <1>3, <3>1, <3>2, <3>3, <3>4, <3>5 DEF Pasteboard
  <2>2. ~BackendPoll(n)
    BY <1>3 DEF BackendPoll
  <2> QED
    BY <1>3, <2>1, <2>2 DEF Pasteboard
<1>4. ASSUME NEW n \in Device,
             \/ IpcSyncFilesQueue(n) \/ Start(n)
             \/ \E m \in Device : PeerLoops(n, m) \/ Drop(n, m)
             \/ \E m \in Device : IpcUnpair(n, m) \/ IpcUnpairFails(n, m)
             \/ IpcPause(n) \/ IpcPauseFails(n) \/ IpcResume(n) \/ IpcResumeFails(n)
             \/ IpcSyncFilesRequest(n)
      PROVE  Same
  BY <1>4 DEF IpcSyncFilesQueue, Start, StartLoads, StartPaused,
     StartPublishing, PeerLoops, Connect, SendLatest, Subscribe, PeerLoopBail,
     Drop, Hangup, IpcUnpair, IpcPause, IpcResume, IpcPauseFails,
     IpcResumeFails, IpcUnpairFails, IpcFails, IpcSyncFilesRequest
<1> HIDE DEF Same
<1>5. CASE Next
  <2>1. PICK n \in Device :
          \/ MainLoop(n)
          \/ Pasteboard(n)
          \/ \E m \in Device : PeerLoops(n, m)
          \/ IpcSyncFilesQueue(n)
          \/ Start(n)
          \/ Environment(n)
    BY <1>5 DEF Next
  <2>2. CASE Environment(n)
    <3>1. CASE \/ BackendSetRaced(n) \/ Crash(n)
               \/ \E files \in BOOLEAN : UserCopy(n, files)
      BY <1>3, <3>1 DEF Same
    <3>2. CASE \/ \E m \in Device : Drop(n, m)
               \/ \E m \in Device : IpcUnpair(n, m) \/ IpcUnpairFails(n, m)
               \/ IpcPause(n) \/ IpcPauseFails(n)
               \/ IpcResume(n) \/ IpcResumeFails(n)
               \/ IpcSyncFilesRequest(n)
      BY <1>4, <3>2 DEF Same
    <3> QED
      BY <2>2, <3>1, <3>2 DEF Environment
  <2>3. CASE MainLoop(n) \/ Pasteboard(n)
    BY <1>2, <1>3, <2>3 DEF Same
  <2>4. CASE \/ \E m \in Device : PeerLoops(n, m)
             \/ IpcSyncFilesQueue(n) \/ Start(n)
    BY <1>4, <2>4 DEF Same
  <2> QED
    BY <2>1, <2>2, <2>3, <2>4
<1> QED
  BY <1>1, <1>5

LEMMA ForeignStep == TypeOK /\ ForeignInv /\ [Next]_vars => ForeignInv'
<1> SUFFICES ASSUME TypeOK, ForeignInv, [Next]_vars, NEW d \in Device
             PROVE  /\ clip'[d] # None =>
                         clip'[d].by = d \/ clip'[d] \in PublishedContent'
                    /\ starting'[d] # None =>
                         starting'[d].by = d \/ starting'[d] \in PublishedContent'
                    /\ SetsIn(commands'[d], PublishedContent')
  BY DEF ForeignInv
<1> DEFINE P == PublishedContent
<1>1. P \subseteq P'
  BY CreatedGrows DEF PublishedContent
<1>2. /\ clip[d] # None => clip[d].by = d \/ clip[d] \in P
      /\ starting[d] # None => starting[d].by = d \/ starting[d] \in P
      /\ SetsIn(commands[d], P)
  BY DEF ForeignInv
<1>3. commands[d] \in Seq(Command)
  BY DEF TypeOK
<1> HIDE DEF P
\* It is enough that the step keeps to what was published before it.
<1>4. SUFFICES /\ clip'[d] # None => clip'[d].by = d \/ clip'[d] \in P
               /\ SetsIn(commands'[d], P)
  <2>1. SetsIn(commands'[d], P) => SetsIn(commands'[d], P')
    BY <1>1 DEF SetsIn
  <2>2. starting'[d] # None => starting'[d].by = d \/ starting'[d] \in P
    BY <1>2, StartingStep
  <2> QED
    BY <1>1, <2>1, <2>2 DEF P
<1>5. CASE clip'[d] = clip[d] /\ commands'[d] = commands[d]
  BY <1>2, <1>5
<1>6. ASSUME NEW files \in BOOLEAN, UserCopy(d, files)
      PROVE  /\ clip'[d].by = d
             /\ SetsIn(commands'[d], P)
  BY <1>2, <1>6 DEF UserCopy, NextContent, TypeOK
<1>7. CASE BackendCommand(d)
  <2>1. /\ commands[d] # <<>> /\ commands'[d] = Tail(commands[d])
        /\ \/ clip'[d] = clip[d]
           \/ Head(commands[d]).op = "Set" /\ clip'[d] = Head(commands[d]).payload
    BY <1>7 DEF BackendCommand, TypeOK
  <2> QED
    BY <1>2, <1>3, <2>1, SetsTail
<1>8. CASE BackendSetRaced(d)
  <2>1. /\ commands[d] # <<>> /\ commands'[d] = Tail(commands[d])
        /\ clip'[d] = NextContent(d, FALSE)
    BY <1>8 DEF BackendSetRaced, TypeOK
  <2> QED
    BY <1>2, <1>3, <2>1, SetsTail DEF NextContent
<1>9. ASSUME NEW m \in Device, IncomingAccepted(d, m)
      PROVE  clip'[d] = clip[d] /\ SetsIn(commands'[d], P)
  <2> DEFINE e == Head(chan[m][d])
             c == [op |-> "Set", payload |-> e.payload]
  <2>1. e \in created
    BY <1>9, ChannelTail DEF TypeOK, IncomingAccepted, Incoming
  <2>2. e.payload \in P /\ e.payload \in Payload
    BY <2>1 DEF P, PublishedContent, TypeOK, Event
  <2>3. c \in Command /\ c.op = "Set" /\ c.payload = e.payload
    BY <2>2 DEF Command
  <2>4. commands'[d] = commands[d] \/ commands'[d] = Append(commands[d], c)
    BY <1>9 DEF IncomingAccepted, SetQueued, TypeOK
  <2> HIDE DEF c, e
  <2>5. SetsIn(Append(commands[d], c), P)
    BY <1>2, <1>3, <2>2, <2>3, SetsAppend
  <2> QED
    BY <1>2, <1>9, <2>4, <2>5 DEF IncomingAccepted
<1>10. CASE ControlResume(d) \/ ControlSyncFiles(d)
  <2>1. PICK c \in Command : c.op # "Set" /\ commands'[d] = Append(commands[d], c)
    <3>1. PICK op \in {"Rebaseline", "MarkFilesHandled"} :
            commands' = [commands EXCEPT ![d] = Append(@, [op |-> op])]
      BY <1>10 DEF ControlResume, ControlSyncFiles
    <3>2. commands'[d] = Append(commands[d], [op |-> op])
      BY <3>1 DEF TypeOK
    <3>3. [op |-> op] \in Command /\ [op |-> op].op # "Set"
      BY DEF Command
    <3> QED
      BY <3>2, <3>3
  <2>2. SetsIn(Append(commands[d], c), P)
    BY <1>2, <1>3, <2>1, SetsAppend
  <2> QED
    BY <1>2, <1>10, <2>1, <2>2 DEF ControlResume, ControlSyncFiles
<1>11. CASE Crash(d)
  <2>1. clip' = clip /\ commands'[d] = <<>>
    BY <1>11 DEF Crash, TypeOK
  <2> QED
    BY <1>2, <2>1, NothingSet
<1>12. \/ clip'[d] = clip[d] /\ commands'[d] = commands[d]
       \/ \E files \in BOOLEAN : UserCopy(d, files)
       \/ BackendCommand(d)
       \/ BackendSetRaced(d)
       \/ \E m \in Device : IncomingAccepted(d, m)
       \/ ControlResume(d)
       \/ ControlSyncFiles(d)
       \/ Crash(d)
  BY ClipboardSteps
<1>13. CASE \E m \in Device : IncomingAccepted(d, m)
  BY <1>2, <1>9, <1>13
<1>14. CASE \E files \in BOOLEAN : UserCopy(d, files)
  BY <1>6, <1>14
<1> QED
  BY <1>5, <1>7, <1>8, <1>10, <1>11, <1>12, <1>13, <1>14, Zenon

LEMMA ForeignAlways == Spec => []ForeignInv
<1>1. Init => ForeignInv
  <2>1. ASSUME Init, NEW n \in Device
        PROVE  clip[n] = None /\ starting[n] = None /\ commands[n] = <<>>
    BY <2>1 DEF Init
  <2> QED
    BY <2>1, NothingSet DEF ForeignInv
<1> QED
  BY <1>1, ForeignStep, TypeCorrect, PTL DEF Spec

\* How many copies were made, and the content of the first k of them.
Copies == spent["copy"] + spent["copyFiles"] + spent["race"]

FirstCopies(k) == {p \in Payload : p.no <= k}

\* What is anywhere was copied before: the next copy is of new content.
NumberedInv ==
  \A k \in Nat : Copies <= k =>
    /\ \A n \in Device : /\ TakesFrom(n, FirstCopies(k))
                         /\ clip[n] \in FirstCopies(k) \cup {None}
                         /\ starting[n] \in FirstCopies(k) \cup {None}
    /\ PublishedContent \subseteq FirstCopies(k)

LEMMA CopiesType == TypeOK => Copies \in Nat
<1>1. TypeOK => /\ spent["copy"] \in Nat /\ spent["copyFiles"] \in Nat
                /\ spent["race"] \in Nat
  BY DEF TypeOK, EnvironmentKind
<1> QED
  BY <1>1 DEF Copies

LEMMA CopiesStep ==
  ASSUME TypeOK, [Next]_vars
  PROVE  /\ Copies <= Copies'
         /\ \A n \in Device :
              (\E files \in BOOLEAN : UserCopy(n, files)) \/ BackendSetRaced(n)
                => Copies' = Copies + 1
<1>1. /\ spent["copy"] \in Nat /\ spent["copyFiles"] \in Nat /\ spent["race"] \in Nat
      /\ spent \in [EnvironmentKind -> Nat]
  BY DEF TypeOK, EnvironmentKind
<1>2. ASSUME NEW k \in EnvironmentKind, Spend(k)
      PROVE  /\ Copies <= Copies'
             /\ k \in {"copy", "copyFiles", "race"} => Copies' = Copies + 1
  <2>1. spent' = [spent EXCEPT ![k] = @ + 1]
    BY <1>2 DEF Spend
  <2>2. CASE k \notin {"copy", "copyFiles", "race"}
    <3>1. Copies' = Copies
      BY <1>1, <2>1, <2>2 DEF Copies, EnvironmentKind
    <3> QED
      BY <2>2, <3>1, CopiesType
  <2>3. CASE k \in {"copy", "copyFiles", "race"}
    <3>1. Copies' = Copies + 1
      BY <1>1, <2>1, <2>3 DEF Copies, EnvironmentKind
    <3> QED
      BY <3>1, CopiesType
  <2> QED
    BY <2>2, <2>3
<1>3. Copies <= Copies'
  <2>1. CASE UNCHANGED spent
    BY <2>1, CopiesType DEF Copies
  <2>2. CASE \E k \in EnvironmentKind : Spend(k)
    BY <1>2, <2>2
  <2> QED
    BY <2>1, <2>2, SpendsOrNot
<1>4. ASSUME NEW n \in Device, NEW files \in BOOLEAN, UserCopy(n, files)
      PROVE  Copies' = Copies + 1
  BY <1>2, <1>4 DEF UserCopy, EnvironmentKind
<1>5. ASSUME NEW n \in Device, BackendSetRaced(n)
      PROVE  Copies' = Copies + 1
  BY <1>2, <1>5 DEF BackendSetRaced, EnvironmentKind
<1> QED
  BY <1>3, <1>4, <1>5

\* What a publication adds to the published content.
LEMMA PublishedStep ==
  ASSUME TypeOK, [Next]_vars, NEW P, PublishedContent \subseteq P,
         \A n \in Device : TakesFrom(n, P) /\ starting[n] \in P \cup {None}
  PROVE  \A e \in created' : e.payload \in P
<1> SUFFICES ASSUME NEW e \in created'
             PROVE  e.payload \in P
  OBVIOUS
<1>1. CASE e \in created
  BY <1>1 DEF PublishedContent
<1>2. CASE e \notin created
  <2>1. PICK n \in Device :
          \/ LocalChangePublished(n)
          \/ ControlSyncFiles(n)
          \/ StartPublishing(n)
    BY <1>2, WhoMakesEvents
  <2>2. CASE LocalChangePublished(n)
    <3>1. changes[n] \in Seq(P) /\ changes[n] # <<>>
      BY <2>2 DEF TakesFrom, LocalChangePublished, LocalChange
    <3>2. Head(changes[n]) \in P
      BY <3>1, HeadTailProperties
    <3> QED
      BY <1>2, <2>2, <3>2 DEF LocalChangePublished, Publish, NewEvent
  <2>3. CASE ControlSyncFiles(n)
    <3>1. control[n] \in Seq(ControlsOf(P)) /\ control[n] # <<>>
      BY <2>3 DEF TakesFrom, ControlSyncFiles
    <3>2. Head(control[n]) \in ControlsOf(P)
      BY <3>1, HeadTailProperties
    <3>3. Head(control[n]).payload \in P
      BY <2>3, <3>2 DEF ControlSyncFiles, ControlsOf, FilesOf
    <3> QED
      BY <1>2, <2>3, <3>3 DEF ControlSyncFiles, Publish, NewEvent
  <2>4. CASE StartPublishing(n)
    <3>1. starting[n] \in P
      BY <2>4 DEF StartPublishing
    <3> QED
      BY <1>2, <2>4, <3>1 DEF StartPublishing, NewEvent
  <2> QED
    BY <2>1, <2>2, <2>3, <2>4
<1> QED
  BY <1>1, <1>2

LEMMA NumberedStep ==
  TypeOK /\ ForeignInv /\ NumberedInv /\ [Next]_vars => NumberedInv'
<1> SUFFICES ASSUME TypeOK, ForeignInv, NumberedInv, [Next]_vars,
                    NEW k \in Nat, Copies' <= k
             PROVE  /\ \A n \in Device : /\ TakesFrom(n, FirstCopies(k))'
                                         /\ clip'[n] \in FirstCopies(k) \cup {None}
                                         /\ starting'[n] \in FirstCopies(k) \cup {None}
                    /\ PublishedContent' \subseteq FirstCopies(k)
  BY DEF NumberedInv
<1> DEFINE W == FirstCopies(k)
<1>1. TypeOK'
  BY TypeStep
<1>2. Copies \in Nat /\ Copies' \in Nat /\ Copies <= k
  <2>1. Copies \in Nat /\ Copies <= Copies'
    BY CopiesType, CopiesStep
  <2>2. /\ spent'["copy"] \in Nat /\ spent'["copyFiles"] \in Nat
        /\ spent'["race"] \in Nat
    BY <1>1 DEF TypeOK, EnvironmentKind
  <2>3. Copies' \in Nat
    BY <2>2 DEF Copies
  <2> QED
    BY <2>1, <2>3
<1>3. /\ \A n \in Device : /\ TakesFrom(n, W)
                           /\ clip[n] \in W \cup {None}
                           /\ starting[n] \in W \cup {None}
      /\ PublishedContent \subseteq W
  BY <1>2 DEF NumberedInv
<1>4. ASSUME NEW n \in Device, NEW files \in BOOLEAN,
             \/ \E f \in BOOLEAN : UserCopy(n, f)
             \/ BackendSetRaced(n)
      PROVE  NextContent(n, files) \in W
  <2>1. Copies' = Copies + 1
    BY <1>4, CopiesStep
  <2>2. NextContent(n, files) \in Payload /\ NextContent(n, files).no = Copies + 1
    <3>1. /\ spent["copy"] \in Nat /\ spent["copyFiles"] \in Nat
          /\ spent["race"] \in Nat
      BY DEF TypeOK, EnvironmentKind
    <3> QED
      BY <3>1, NextContentType DEF NextContent, Copies
  <2> QED
    BY <1>2, <2>1, <2>2 DEF FirstCopies
<1> HIDE DEF W
<1>5. ASSUME NEW n \in Device
      PROVE  TakesFrom(n, W)'
  <2>1. \A files \in BOOLEAN : UserCopy(n, files) => NextContent(n, files) \in W
    BY <1>4
  <2>2. TakesFrom(n, W)
    BY <1>3
  <2> QED
    BY <2>1, <2>2, TakesStep
<1>6. ASSUME NEW n \in Device
      PROVE  clip'[n] \in W \cup {None}
  <2>1. CASE clip'[n] = clip[n]
    BY <1>3, <2>1
  <2>2. CASE BackendSetRaced(n) \/ \E files \in BOOLEAN : UserCopy(n, files)
    <3>1. PICK files \in BOOLEAN : clip'[n] = NextContent(n, files)
      BY <2>2 DEF BackendSetRaced, UserCopy, TypeOK
    <3> QED
      BY <1>4, <2>2, <3>1
  <2>3. CASE BackendCommand(n)
    <3>1. \/ clip'[n] = clip[n]
          \/ Head(commands[n]).op = "Set" /\ clip'[n] = Head(commands[n]).payload
      BY <2>3 DEF BackendCommand, TypeOK
    <3>2. /\ commands[n] \in Seq(Command) /\ commands[n] # <<>>
          /\ SetsIn(commands[n], PublishedContent)
      BY <2>3 DEF TypeOK, ForeignInv, BackendCommand
    <3>3. Head(commands[n]).op = "Set" => Head(commands[n]).payload \in PublishedContent
      BY <3>2, SetsTail
    <3> QED
      BY <1>3, <3>1, <3>3
  <2>4. CASE \/ \E m \in Device : IncomingAccepted(n, m)
             \/ ControlResume(n) \/ ControlSyncFiles(n) \/ Crash(n)
    <3>1. clip' = clip
      BY <2>4 DEF IncomingAccepted, ControlResume, ControlSyncFiles, Crash
    <3> QED
      BY <1>3, <3>1
  <2> QED
    BY <2>1, <2>2, <2>3, <2>4, ClipboardSteps
<1>7. \A e \in created' : e.payload \in W
  BY <1>3, PublishedStep
<1>8. PublishedContent' \subseteq W
  BY <1>7 DEF PublishedContent
<1>9. ASSUME NEW n \in Device
      PROVE  starting'[n] \in W \cup {None}
  BY <1>3, StartingStep
<1> QED
  BY <1>5, <1>6, <1>8, <1>9 DEF W

LEMMA NumberedAlways == Spec => []NumberedInv
<1>1. Init => NumberedInv
  <2>1. ASSUME Init, NEW n \in Device
        PROVE  clip[n] = None /\ starting[n] = None
    BY <2>1 DEF Init
  <2>2. Init => PublishedContent = {}
    BY DEF Init, PublishedContent
  <2> QED
    BY <2>1, <2>2, TakesInit DEF NumberedInv
<1> QED
  BY <1>1, NumberedStep, ForeignAlways, TypeCorrect, PTL DEF Spec

\* What is copied next was never published.
LEMMA FreshCopy ==
  ASSUME TypeOK, NumberedInv, NEW n \in Device, NEW files \in BOOLEAN
  PROVE  NextContent(n, files) \notin PublishedContent
<1>1. Copies \in Nat /\ PublishedContent \subseteq FirstCopies(Copies)
  BY CopiesType DEF NumberedInv
<1>2. NextContent(n, files).no = Copies + 1
  <2>1. /\ spent["copy"] \in Nat /\ spent["copyFiles"] \in Nat
        /\ spent["race"] \in Nat
    BY DEF TypeOK, EnvironmentKind
  <2> QED
    BY <2>1 DEF NextContent, Copies
<1>3. ~(Copies + 1 <= Copies)
  BY <1>1
<1> QED
  BY <1>1, <1>2, <1>3 DEF FirstCopies

\* What a device holds to be current is replaced by its own main loop.
LEMMA CurrentSteps ==
  ASSUME TypeOK, [Next]_vars, NEW d \in Device
  PROVE  \/ current'[d] \in {current[d], None}
         \/ current'[d].origin = d
         \/ \E m \in Device : IncomingAccepted(d, m)
<1> DEFINE Kept == \/ current'[d] \in {current[d], None}
                   \/ current'[d].origin = d
<1>1. ASSUME current' = current
      PROVE  Kept
  BY <1>1
<1>2. ASSUME NEW n \in Device, NEW payload, Publish(n, payload)
      PROVE  Kept
  BY <1>2 DEF Publish, NewEvent, TypeOK
<1>3. ASSUME NEW n \in Device, MainLoop(n)
      PROVE  Kept \/ \E m \in Device : IncomingAccepted(d, m)
  <2>1. CASE LocalChangePublished(n) \/ ControlSyncFiles(n)
    BY <1>2, <2>1 DEF LocalChangePublished, ControlSyncFiles
  <2>2. CASE ControlResume(n)
    BY <2>2 DEF ControlResume, TypeOK
  <2>3. CASE \/ LocalChangeDropped(n) \/ LocalChangeFiles(n) \/ ControlPause(n)
             \/ \E m \in Device : IncomingDropped(n, m)
    BY <1>1, <2>3 DEF LocalChangeDropped, LocalChangeFiles, ControlPause,
       IncomingDropped
  <2>4. ASSUME NEW m \in Device, IncomingAccepted(n, m), n # d
        PROVE  Kept
    BY <2>4 DEF IncomingAccepted, TypeOK
  <2> HIDE DEF Kept
  <2> QED
    BY <1>3, <2>1, <2>2, <2>3, <2>4 DEF MainLoop
<1>4. ASSUME NEW n \in Device, Start(n)
      PROVE  Kept
  BY <1>4 DEF Start, StartLoads, StartPaused, StartPublishing, NewEvent, TypeOK
<1>5. ASSUME NEW n \in Device, Crash(n)
      PROVE  Kept
  BY <1>5 DEF Crash, TypeOK
<1>6. ASSUME NEW n \in Device,
             \/ Pasteboard(n) \/ IpcSyncFilesQueue(n)
             \/ \E m \in Device : PeerLoops(n, m) \/ Drop(n, m)
             \/ \E files \in BOOLEAN : UserCopy(n, files)
             \/ BackendSetRaced(n) \/ IpcSyncFilesRequest(n)
             \/ IpcPause(n) \/ IpcPauseFails(n) \/ IpcResume(n) \/ IpcResumeFails(n)
             \/ \E m \in Device : IpcUnpair(n, m) \/ IpcUnpairFails(n, m)
      PROVE  Kept
  <2>1. current' = current
    BY <1>6 DEF Pasteboard, BackendPoll, BackendCommand, IpcSyncFilesQueue,
       PeerLoops, Connect, SendLatest, Subscribe, PeerLoopBail, Drop, Hangup,
       IpcUnpair, UserCopy, BackendSetRaced, IpcPause, IpcResume, IpcPauseFails,
       IpcResumeFails, IpcUnpairFails, IpcFails, IpcSyncFilesRequest
  <2> QED
    BY <1>1, <2>1
<1>7. ASSUME UNCHANGED vars
      PROVE  Kept
  BY <1>1, <1>7 DEF vars
<1> HIDE DEF Kept
<1>8. ASSUME NEW n \in Device, Environment(n)
      PROVE  Kept
  BY <1>5, <1>6, <1>8 DEF Environment
<1>9. ASSUME Next
      PROVE  Kept \/ \E m \in Device : IncomingAccepted(d, m)
  <2>1. PICK n \in Device :
          \/ MainLoop(n)
          \/ Pasteboard(n)
          \/ \E m \in Device : PeerLoops(n, m)
          \/ IpcSyncFilesQueue(n)
          \/ Start(n)
          \/ Environment(n)
    BY <1>9 DEF Next
  <2>2. ASSUME \/ Pasteboard(n) \/ IpcSyncFilesQueue(n)
               \/ \E m \in Device : PeerLoops(n, m)
        PROVE  Kept
    BY <1>6, <2>2
  <2> QED
    BY <1>3, <1>4, <1>8, <2>1, <2>2
<1>10. Kept \/ \E m \in Device : IncomingAccepted(d, m)
  BY <1>7, <1>9
<1> QED
  BY <1>10 DEF Kept

\* Content of n's own user that no event carries.
Unshared(n) ==
  clip[n] # None /\ clip[n].by = n /\ clip[n] \notin PublishedContent

\* Only n can publish it, and then holds it to be current.
LEMMA UnsharedStep ==
  ASSUME TypeOK, OwnInv, ForeignInv, [Next]_vars, NEW d \in Device,
         Unshared(d), clip'[d] = clip[d]
  PROVE  Unshared(d)' \/ current'[d].origin = d
<1> SUFFICES ASSUME NEW e \in created', e.payload = clip[d], current'[d].origin # d
             PROVE  FALSE
  BY DEF Unshared, PublishedContent
<1>1. e \notin created /\ clip[d].by = d /\ clip[d] \notin PublishedContent
  BY DEF Unshared, PublishedContent
<1>2. PICK n \in Device :
        \/ LocalChangePublished(n)
        \/ ControlSyncFiles(n)
        \/ StartPublishing(n)
  BY <1>1, WhoMakesEvents
<1>3. n # d
  <2>1. ASSUME NEW payload, Publish(d, payload)
        PROVE  current'[d].origin = d
    BY <2>1 DEF Publish, NewEvent, TypeOK
  <2>2. ASSUME StartPublishing(d)
        PROVE  current'[d].origin = d
    BY <2>2 DEF StartPublishing, NewEvent, TypeOK
  <2> QED
    BY <1>2, <2>1, <2>2 DEF LocalChangePublished, ControlSyncFiles
<1>4. TakesFrom(n, OwnPayload(n))
  BY DEF OwnInv
<1>5. CASE LocalChangePublished(n)
  <2>1. changes[n] \in Seq(OwnPayload(n)) /\ changes[n] # <<>>
    BY <1>4, <1>5 DEF TakesFrom, LocalChangePublished, LocalChange
  <2>2. Head(changes[n]) \in OwnPayload(n)
    BY <2>1, HeadTailProperties
  <2>3. e.payload = Head(changes[n])
    BY <1>1, <1>5 DEF LocalChangePublished, Publish, NewEvent
  <2> QED
    BY <1>1, <1>3, <2>2, <2>3 DEF OwnPayload
<1>6. CASE ControlSyncFiles(n)
  <2>1. control[n] \in Seq(ControlsOf(OwnPayload(n))) /\ control[n] # <<>>
    BY <1>4, <1>6 DEF TakesFrom, ControlSyncFiles
  <2>2. Head(control[n]) \in ControlsOf(OwnPayload(n))
    BY <2>1, HeadTailProperties
  <2>3. Head(control[n]).payload \in OwnPayload(n)
    BY <1>6, <2>2 DEF ControlSyncFiles, ControlsOf, FilesOf
  <2>4. e.payload = Head(control[n]).payload
    BY <1>1, <1>6 DEF ControlSyncFiles, Publish, NewEvent
  <2> QED
    BY <1>1, <1>3, <2>3, <2>4 DEF OwnPayload
<1>7. CASE StartPublishing(n)
  <2>1. e.payload = starting[n] /\ starting[n] # None
    BY <1>1, <1>7 DEF StartPublishing, NewEvent
  <2> QED
    BY <1>1, <1>3, <2>1 DEF ForeignInv
<1> QED
  BY <1>2, <1>5, <1>6, <1>7

\* What came from a peer is being written, or is shown, or was replaced by a
\* copy of n's own user that nobody has been sent.
Shown(n) ==
  current[n] # None /\ current[n].origin # n =>
    \/ LastSet(commands[n], current[n].payload)
    \/ /\ NoSets(commands[n])
       /\ clip[n] = current[n].payload \/ Unshared(n)

ShownInv == \A n \in Device : Shown(n)

LEMMA ShownStep ==
  TypeOK /\ OwnInv /\ ForeignInv /\ NumberedInv /\ ShownInv /\ [Next]_vars
    => ShownInv'
<1> SUFFICES ASSUME TypeOK, OwnInv, ForeignInv, NumberedInv, ShownInv, [Next]_vars,
                    NEW d \in Device, current'[d] # None, current'[d].origin # d
             PROVE  \/ LastSet(commands'[d], current'[d].payload)
                    \/ /\ NoSets(commands'[d])
                       /\ clip'[d] = current'[d].payload \/ Unshared(d)'
  BY DEF ShownInv, Shown
<1> DEFINE p == current[d].payload
<1>1. commands[d] \in Seq(Command)
  BY DEF TypeOK
<1>2. CASE /\ current'[d] = current[d]
           /\ commands'[d] = commands[d] /\ clip'[d] = clip[d]
  <2>1. Unshared(d) => Unshared(d)'
    BY <1>2, UnsharedStep
  <2> QED
    BY <1>2, <2>1 DEF ShownInv, Shown
<1>3. ASSUME NEW m \in Device, IncomingAccepted(d, m)
      PROVE  \/ LastSet(commands'[d], current'[d].payload)
             \/ /\ NoSets(commands'[d])
                /\ clip'[d] = current'[d].payload \/ Unshared(d)'
  <2> DEFINE e == Head(chan[m][d])
             c == [op |-> "Set", payload |-> e.payload]
  <2>1. e \in created /\ e.payload \in Payload
    <3>1. e \in created
      BY <1>3, ChannelTail DEF TypeOK, IncomingAccepted, Incoming
    <3> QED
      BY <3>1 DEF TypeOK, Event
  <2>2. c \in Command /\ c.op = "Set" /\ c.payload = e.payload
    BY <2>1 DEF Command
  <2>3. \/ commands'[d] = Append(commands[d], c) /\ current'[d] = e
        \/ commands'[d] = commands[d] /\ current'[d] = current[d]
    BY <1>3 DEF IncomingAccepted, SetQueued, TypeOK
  <2>4. clip'[d] = clip[d]
    BY <1>3 DEF IncomingAccepted
  <2> HIDE DEF c, e
  <2>5. LastSet(Append(commands[d], c), e.payload)
    BY <1>1, <2>2, SetsAppend
  <2> QED
    BY <1>2, <2>3, <2>4, <2>5
<1>4. ASSUME ~ \E m \in Device : IncomingAccepted(d, m)
      PROVE  \/ LastSet(commands'[d], current'[d].payload)
             \/ /\ NoSets(commands'[d])
                /\ clip'[d] = current'[d].payload \/ Unshared(d)'
  <2>1. current'[d] = current[d]
    BY <1>4, CurrentSteps
  <2>2. \/ LastSet(commands[d], p)
        \/ NoSets(commands[d]) /\ (clip[d] = p \/ Unshared(d))
    BY <2>1 DEF ShownInv, Shown
  <2> HIDE DEF p
  <2>3. ASSUME BackendSetRaced(d) \/ \E files \in BOOLEAN : UserCopy(d, files)
        PROVE  Unshared(d)'
    <3>1. PICK files \in BOOLEAN : clip'[d] = NextContent(d, files)
      BY <2>3 DEF BackendSetRaced, UserCopy, TypeOK
    <3>2. created' = created
      BY <2>3 DEF BackendSetRaced, UserCopy
    <3>3. /\ NextContent(d, files) \notin PublishedContent
          /\ NextContent(d, files) \in Payload
      BY FreshCopy, NextContentType
    <3>4. NextContent(d, files) # None /\ NextContent(d, files).by = d
      BY <3>3, NoneAssumption DEF NextContent
    <3> QED
      BY <3>1, <3>2, <3>3, <3>4 DEF Unshared, PublishedContent
  <2>4. CASE \E files \in BOOLEAN : UserCopy(d, files)
    <3>1. commands' = commands
      BY <2>4 DEF UserCopy
    <3> QED
      BY <2>1, <2>2, <2>3, <2>4, <3>1 DEF p
  <2>5. CASE BackendSetRaced(d)
    <3>1. commands[d] # <<>> /\ commands'[d] = Tail(commands[d])
      BY <2>5 DEF BackendSetRaced, TypeOK
    <3>2. LastSet(Tail(commands[d]), p) \/ NoSets(Tail(commands[d]))
      BY <1>1, <2>2, <3>1, SetsTail
    <3> QED
      BY <2>1, <2>3, <2>5, <3>1, <3>2 DEF p
  <2>6. CASE BackendCommand(d)
    <3>1. /\ commands[d] # <<>> /\ commands'[d] = Tail(commands[d])
          /\ clip'[d] = IF Head(commands[d]).op = "Set"
                          THEN Head(commands[d]).payload ELSE clip[d]
      BY <2>6 DEF BackendCommand, TypeOK
    <3>2. CASE LastSet(commands[d], p)
      <4>1. \/ LastSet(Tail(commands[d]), p)
            \/ /\ NoSets(Tail(commands[d]))
               /\ Head(commands[d]).op = "Set" /\ Head(commands[d]).payload = p
        BY <1>1, <3>1, <3>2, SetsTail
      <4> QED
        BY <2>1, <3>1, <4>1 DEF p
    <3>3. CASE NoSets(commands[d]) /\ (clip[d] = p \/ Unshared(d))
      <4>1. NoSets(Tail(commands[d]))
        BY <1>1, <3>1, <3>3, SetsTail
      <4>2. clip'[d] = clip[d]
        <5>1. 1 \in 1..Len(commands[d]) /\ Head(commands[d]) = commands[d][1]
          BY <1>1, <3>1, HeadTailProperties, LenProperties, EmptySeq
        <5> QED
          BY <3>1, <3>3, <5>1 DEF NoSets
      <4>3. Unshared(d) => Unshared(d)'
        BY <4>2, UnsharedStep
      <4> QED
        BY <2>1, <3>1, <3>3, <4>1, <4>2, <4>3 DEF p
    <3> QED
      BY <2>2, <3>2, <3>3
  <2>7. CASE ControlResume(d) \/ Crash(d)
    BY <2>7 DEF ControlResume, Crash, TypeOK
  <2>8. CASE ControlSyncFiles(d)
    BY <2>8 DEF ControlSyncFiles, Publish, NewEvent, TypeOK
  <2>9. CASE clip'[d] = clip[d] /\ commands'[d] = commands[d]
    BY <1>2, <2>1, <2>9
  <2>10. \/ clip'[d] = clip[d] /\ commands'[d] = commands[d]
         \/ \E files \in BOOLEAN : UserCopy(d, files)
         \/ BackendCommand(d)
         \/ BackendSetRaced(d)
         \/ ControlResume(d)
         \/ ControlSyncFiles(d)
         \/ Crash(d)
    BY <1>4, ClipboardSteps
  <2> QED
    BY <2>4, <2>5, <2>6, <2>7, <2>8, <2>9, <2>10
<1> QED
  BY <1>3, <1>4

\* A device left in peace shows what it holds of a peer, unless its own user has
\* copied something else that no event carries.
THEOREM WhatIsHeldIsShown == Spec => []RemoteCurrentIsShown
<1>1. Init => ShownInv
  <2>1. ASSUME Init, NEW n \in Device
        PROVE  current[n] = None
    BY <2>1 DEF Init
  <2> QED
    BY <2>1 DEF ShownInv, Shown
<1>2. ASSUME ShownInv, NEW n \in Device, DeviceQuiet(n), current[n] # None,
             current[n].origin # n
      PROVE  \/ clip[n] = current[n].payload
             \/ clip[n] # None /\ clip[n].by = n /\ \A e \in created : e.payload # clip[n]
  <2>1. ~LastSet(commands[n], current[n].payload)
    BY <1>2, NothingSet DEF DeviceQuiet
  <2> QED
    BY <1>2, <2>1 DEF ShownInv, Shown, Unshared, PublishedContent
<1>3. ShownInv => RemoteCurrentIsShown
  BY <1>2 DEF RemoteCurrentIsShown
<1> QED
  BY <1>1, <1>3, ShownStep, OwnAlways, ForeignAlways, NumberedAlways, TypeCorrect,
     PTL DEF Spec

----------------------------------------------------------------------------
(* Agreement of two devices *)

\* Of two events of one device, one has taken in the other; different events
\* never have equal clocks.
ChainInv ==
  /\ \A e \in created : Leq(e.clock, cfg[e.origin].clock)
  /\ \A e, f \in created : /\ e # f => ~(Leq(e.clock, f.clock) /\ Leq(f.clock, e.clock))
                           /\ e.origin = f.origin =>
                                Leq(e.clock, f.clock) \/ Leq(f.clock, e.clock)

\* Connections are between two running daemons; no device is its own peer.
LinkInv ==
  \A n \in Device :
    /\ n \notin cfg[n].peers /\ n \notin disk[n].peers
    /\ \A m \in Device : link[n][m] # "down" => n # m /\ up[n] /\ up[m]

\* A daemon that is down or starting has crashed and remembers nothing.
DownInv ==
  \A n \in Device :
    ~InMainLoop(n) => /\ spent["crash"] # 0
                      /\ seen[n] = <<>> /\ current[n] = None

\* Ids tell events apart, those that have been evicted from `seen` too.
IdInv ==
  /\ \A e \in created : e.id <= Cardinality(created)
  /\ \A e, f \in created : e.id = f.id => e = f
  /\ \A n \in Device : \A i \in 1..Len(seen[n]) : seen[n][i] <= Cardinality(created)

\* Without pauses and resumes, what is held is what a new connection is sent.
SyncControls == [op : {"SyncFiles"}, payload : Payload]

LatestInv ==
  spent["pause"] = 0 /\ spent["resume"] = 0 =>
    latest = current /\ control \in [Device -> Seq(SyncControls)]

\* A clipboard that was never written has no event of its device, and without
\* copied files none holds any.
ClipInv ==
  \A n \in Device :
    /\ clip[n] = None =>
         /\ TakesFrom(n, {}) /\ starting[n] = None
         /\ \A e \in created : e.origin # n
    /\ spent["copyFiles"] = 0 /\ clip[n] # None => ~clip[n].files

\* Before the first event there is nothing to compare.
LEMMA ChainInit == Init => ChainInv
BY DEF Init, ChainInv

\* A clock only grows, and its device's new event comes after all others of it.
LEMMA ChainStep == ClockInv /\ ChainInv /\ [Next]_vars => ChainInv'
<1> SUFFICES ASSUME ClockInv, ChainInv, [Next]_vars
             PROVE  ChainInv'
  OBVIOUS
<1>1. /\ \A d \in Device : cfg[d].clock \in VV
      /\ \A e \in created : e.clock \in VV /\ e.origin \in Device
      /\ cfg \in [Device -> Config]
  BY DEF ClockInv, TypeOK, Config, Event
<1>2. ASSUME NEW n \in Device, NEW clock \in VV, Leq(cfg[n].clock, clock),
             cfg' = [cfg EXCEPT ![n] = [cfg[n] EXCEPT !.clock = clock]]
      PROVE  \A e \in created : Leq(e.clock, cfg'[e.origin].clock)
  <2>1. SUFFICES ASSUME NEW e \in created
                 PROVE  Leq(e.clock, cfg'[e.origin].clock)
    OBVIOUS
  <2>2. Leq(e.clock, cfg[e.origin].clock)
    BY DEF ChainInv
  <2>3. CASE e.origin = n
    <3>1. cfg'[n].clock = clock
      BY <1>1, <1>2 DEF Config
    <3> QED
      BY <1>1, <1>2, <2>2, <2>3, <3>1, LeqTransitive
  <2>4. CASE e.origin # n
    BY <1>1, <1>2, <2>2, <2>4
  <2> QED
    BY <2>3, <2>4
<1>3. CASE KeepsClocks
  BY <1>1, <1>3 DEF KeepsClocks, ChainInv
<1>4. ASSUME NEW n \in Device, NEW e \in created, TakesIn(n, e)
      PROVE  ChainInv'
  <2>1. /\ merge(cfg[n].clock, e.clock) \in VV
        /\ Leq(cfg[n].clock, merge(cfg[n].clock, e.clock))
    BY <1>1, MergeFacts
  <2>2. \A f \in created : Leq(f.clock, cfg'[f.origin].clock)
    BY <1>2, <1>4, <2>1 DEF TakesIn
  <2>3. created' = created
    BY <1>4 DEF TakesIn
  <2> QED
    BY <2>2, <2>3 DEF ChainInv
<1>5. ASSUME NEW n \in Device, NEW payload \in Payload, MakesEvent(n, payload)
      PROVE  ChainInv'
  <2> DEFINE clock == increment(cfg[n].clock, n)
             e == NewEvent(n, clock, payload)
  <2>1. clock \in VV /\ Leq(cfg[n].clock, clock) /\ clock[n] = cfg[n].clock[n] + 1
    BY <1>1, IncrementFacts
  <2>2. e.origin = n /\ e.clock = clock
    BY DEF NewEvent
  <2>3. /\ cfg' = [cfg EXCEPT ![n] = [cfg[n] EXCEPT !.clock = clock]]
        /\ created' = created \cup {e}
    BY <1>5 DEF MakesEvent
  <2> HIDE DEF e, clock
  <2>4. \A f \in created : Leq(f.clock, cfg'[f.origin].clock)
    BY <1>2, <2>1, <2>3
  <2>5. Leq(e.clock, cfg'[e.origin].clock)
    <3>1. cfg'[n].clock = clock
      BY <1>1, <2>3 DEF Config
    <3> QED
      BY <2>1, <2>2, <3>1 DEF Leq, VV
  <2>6. \A f \in created : ~Leq(e.clock, f.clock)
    <3>1. SUFFICES ASSUME NEW f \in created
                   PROVE  ~(clock[n] <= f.clock[n])
      BY <2>2 DEF Leq
    <3>2. f.clock[n] <= cfg[n].clock[n]
      BY DEF ClockInv, NothingAheadOfDisk, ClockSaved
    <3>3. f.clock[n] \in Nat /\ cfg[n].clock[n] \in Nat
      BY <1>1 DEF VV
    <3> QED
      BY <2>1, <3>2, <3>3
  <2>7. \A f \in created : f.origin = n => Leq(f.clock, e.clock)
    <3>1. SUFFICES ASSUME NEW f \in created, f.origin = n
                   PROVE  Leq(f.clock, e.clock)
      OBVIOUS
    <3>2. Leq(f.clock, cfg[n].clock)
      BY <3>1 DEF ChainInv
    <3> QED
      BY <1>1, <2>1, <2>2, <3>2, LeqTransitive
  <2>8. Leq(e.clock, e.clock)
    BY <2>1, <2>2 DEF Leq, VV
  <2>9. ASSUME NEW x \in created', NEW y \in created'
        PROVE  /\ x # y => ~(Leq(x.clock, y.clock) /\ Leq(y.clock, x.clock))
               /\ x.origin = y.origin => Leq(x.clock, y.clock) \/ Leq(y.clock, x.clock)
    <3>1. CASE x \in created /\ y \in created
      BY <3>1 DEF ChainInv
    <3>2. CASE x = e \/ y = e
      BY <2>2, <2>3, <2>6, <2>7, <2>8, <3>2
    <3> QED
      BY <2>3, <3>1, <3>2
  <2> QED
    BY <2>3, <2>4, <2>5, <2>9 DEF ChainInv
<1> QED
  BY <1>3, <1>4, <1>5, StepKinds DEF ClockInv

\* The events of one device are a chain in every behaviour.
LEMMA ChainAlways == Spec => []ChainInv
BY ChainInit, ChainStep, ClocksCorrect, PTL DEF Spec

\* Of two events of a running system one replaces the other, ...
LEMMA OneFollows ==
  ASSUME TypeOK, ChainInv, NEW x \in created, NEW y \in created, x # y
  PROVE  Beats(x, y) \/ Beats(y, x)
<1>1. /\ x.clock \in VV /\ y.clock \in VV
      /\ x.origin \in Device /\ y.origin \in Device
  BY DEF TypeOK, Event
<1>2. ~(Leq(x.clock, y.clock) /\ Leq(y.clock, x.clock))
  BY DEF ChainInv
<1>3. CASE x.origin = y.origin
  <2>1. Leq(x.clock, y.clock) \/ Leq(y.clock, x.clock)
    BY <1>3 DEF ChainInv
  <2> QED
    BY <1>1, <1>2, <2>1, RelationFacts DEF Beats
<1>4. CASE x.origin # y.origin
  <2>1. relation(x.clock, y.clock) # "Equal"
    BY <1>1, <1>2, RelationFacts
  <2> QED
    BY <1>1, <1>4, <2>1, BeatsTotal
<1> QED
  BY <1>3, <1>4

\* ... and of the events of two devices none is replaced in a circle: of three
\* of them two have the same origin, and one of these has taken in the other.
LEMMA BeatsTransitive ==
  ASSUME NEW x \in Event, NEW y \in Event, NEW z \in Event,
         x.origin = y.origin \/ y.origin = z.origin \/ x.origin = z.origin,
         x.origin = z.origin => Leq(x.clock, z.clock) \/ Leq(z.clock, x.clock),
         Beats(x, y), Beats(y, z)
  PROVE  Beats(x, z)
<1>1. /\ x.clock \in VV /\ y.clock \in VV /\ z.clock \in VV
      /\ x.origin \in Nat /\ y.origin \in Nat /\ z.origin \in Nat
  BY DeviceAssumption DEF Event
<1>2. ~Leq(x.clock, y.clock) /\ ~Leq(y.clock, z.clock)
  BY <1>1, RelationFacts DEF Beats
<1>3. /\ Leq(y.clock, x.clock) \/ x.origin > y.origin
      /\ Leq(z.clock, y.clock) \/ y.origin > z.origin
  BY <1>1, RelationFacts DEF Beats
<1>4. ~Leq(x.clock, z.clock)
  <2>1. SUFFICES ASSUME Leq(x.clock, z.clock)
                 PROVE  FALSE
    OBVIOUS
  <2>2. ~Leq(y.clock, x.clock) /\ ~Leq(z.clock, y.clock)
    BY <1>1, <1>2, <2>1, LeqTransitive
  <2> QED
    BY <1>1, <1>3, <2>2
<1>5. Leq(z.clock, x.clock) \/ x.origin > z.origin
  <2>1. CASE x.origin = z.origin
    BY <1>4, <2>1
  <2>2. CASE x.origin = y.origin /\ y.origin # z.origin
    <3>1. Leq(y.clock, x.clock)
      BY <1>1, <1>3, <2>2
    <3>2. CASE Leq(z.clock, y.clock)
      BY <1>1, <3>1, <3>2, LeqTransitive
    <3> QED
      BY <1>3, <2>2, <3>2
  <2>3. CASE y.origin = z.origin /\ x.origin # y.origin
    <3>1. Leq(z.clock, y.clock)
      BY <1>1, <1>3, <2>3
    <3>2. CASE Leq(y.clock, x.clock)
      BY <1>1, <3>1, <3>2, LeqTransitive
    <3> QED
      BY <1>3, <2>3, <3>2
  <2> QED
    BY <2>1, <2>2, <2>3
<1> QED
  BY <1>1, <1>4, <1>5, RelationFacts DEF Beats

\* What a device holds to be current, and the ids it has handled, are its own
\* main loop's, from its start to its end.
LEMMA HoldingSteps ==
  ASSUME TypeOK, [Next]_vars, NEW d \in Device
  PROVE  \/ /\ current'[d] = current[d] /\ seen'[d] = seen[d]
            /\ up'[d] = up[d] /\ starting'[d] = starting[d]
            /\ \A e \in created' \ created : e.origin # d
         \/ LocalChangePublished(d) \/ ControlSyncFiles(d) \/ StartPublishing(d)
         \/ \E m \in Device : IncomingAccepted(d, m)
         \/ ControlResume(d) \/ Crash(d) \/ StartLoads(d) \/ StartPaused(d)
<1> DEFINE Kept == /\ current'[d] = current[d] /\ seen'[d] = seen[d]
                   /\ up'[d] = up[d] /\ starting'[d] = starting[d]
                   /\ \A e \in created' \ created : e.origin # d
<1>1. ASSUME UNCHANGED <<current, seen, up, starting, created>>
      PROVE  Kept
  BY <1>1
<1>2. ASSUME NEW n \in Device, MainLoop(n), ~Kept
      PROVE  \/ LocalChangePublished(d) \/ ControlSyncFiles(d)
             \/ \E m \in Device : IncomingAccepted(d, m)
             \/ ControlResume(d)
  <2>1. CASE LocalChangePublished(n) \/ ControlSyncFiles(n)
    <3>1. /\ \E payload : Publish(n, payload)
          /\ up' = up /\ starting' = starting
      BY <2>1 DEF LocalChangePublished, LocalChange, ControlSyncFiles
    <3>2. n # d => Kept
      BY <3>1 DEF Publish, NewEvent, remember, TypeOK
    <3> QED
      BY <1>2, <2>1, <3>2
  <2>2. CASE ControlResume(n)
    <3>1. n # d => Kept
      BY <2>2 DEF ControlResume, TypeOK
    <3> QED
      BY <1>2, <2>2, <3>1
  <2>3. ASSUME NEW m \in Device, IncomingAccepted(n, m)
        PROVE  n = d
    <3>1. n # d => Kept
      BY <2>3 DEF IncomingAccepted, remember, TypeOK
    <3> QED
      BY <1>2, <3>1
  <2>4. CASE \/ LocalChangeDropped(n) \/ LocalChangeFiles(n) \/ ControlPause(n)
             \/ \E m \in Device : IncomingDropped(n, m)
    <3>1. UNCHANGED <<current, seen, up, starting, created>>
      BY <2>4 DEF LocalChange, LocalChangeDropped, LocalChangeFiles, ControlPause,
         IncomingDropped
    <3> QED
      BY <1>1, <1>2, <3>1
  <2> HIDE DEF Kept
  <2> QED
    BY <1>2, <2>1, <2>2, <2>3, <2>4 DEF MainLoop
<1>3. ASSUME NEW n \in Device, Start(n), ~Kept
      PROVE  StartLoads(d) \/ StartPaused(d) \/ StartPublishing(d)
  <2>1. n # d => Kept
    BY <1>3 DEF Start, StartLoads, StartPaused, StartPublishing,
       remember, NewEvent, TypeOK
  <2> QED
    BY <1>3, <2>1 DEF Start
<1>4. ASSUME NEW n \in Device, Crash(n), ~Kept
      PROVE  Crash(d)
  <2>1. n # d => Kept
    BY <1>4 DEF Crash, TypeOK
  <2> QED
    BY <1>4, <2>1
<1>5. ASSUME NEW n \in Device,
             \/ Pasteboard(n) \/ IpcSyncFilesQueue(n)
             \/ \E m \in Device : PeerLoops(n, m) \/ Drop(n, m)
             \/ \E files \in BOOLEAN : UserCopy(n, files)
             \/ BackendSetRaced(n) \/ IpcSyncFilesRequest(n)
             \/ IpcPause(n) \/ IpcPauseFails(n) \/ IpcResume(n) \/ IpcResumeFails(n)
             \/ \E m \in Device : IpcUnpair(n, m) \/ IpcUnpairFails(n, m)
      PROVE  Kept
  <2>1. UNCHANGED <<current, seen, up, starting, created>>
    BY <1>5 DEF Pasteboard, BackendPoll, BackendCommand, IpcSyncFilesQueue,
       PeerLoops, Connect, SendLatest, Subscribe, PeerLoopBail, Drop, Hangup,
       IpcUnpair, UserCopy, BackendSetRaced, IpcPause, IpcResume, IpcPauseFails,
       IpcResumeFails, IpcUnpairFails, IpcFails, IpcSyncFilesRequest
  <2> QED
    BY <1>1, <2>1
<1>6. ASSUME UNCHANGED vars
      PROVE  Kept
  BY <1>1, <1>6 DEF vars
<1> HIDE DEF Kept
<1>7. ASSUME Next, ~Kept
      PROVE  \/ LocalChangePublished(d) \/ ControlSyncFiles(d) \/ StartPublishing(d)
             \/ \E m \in Device : IncomingAccepted(d, m)
             \/ ControlResume(d) \/ Crash(d) \/ StartLoads(d) \/ StartPaused(d)
  <2>1. PICK n \in Device :
          \/ MainLoop(n)
          \/ Pasteboard(n)
          \/ \E m \in Device : PeerLoops(n, m)
          \/ IpcSyncFilesQueue(n)
          \/ Start(n)
          \/ Environment(n)
    BY <1>7 DEF Next
  <2>2. ASSUME Environment(n)
        PROVE  Crash(d)
    BY <1>4, <1>5, <1>7, <2>2 DEF Environment
  <2>3. ~(\/ Pasteboard(n) \/ IpcSyncFilesQueue(n)
          \/ \E m \in Device : PeerLoops(n, m))
    BY <1>5, <1>7
  <2> QED
    BY <1>2, <1>3, <1>7, <2>1, <2>2, <2>3
<1>8. \/ Kept
      \/ LocalChangePublished(d) \/ ControlSyncFiles(d) \/ StartPublishing(d)
      \/ \E m \in Device : IncomingAccepted(d, m)
      \/ ControlResume(d) \/ Crash(d) \/ StartLoads(d) \/ StartPaused(d)
  BY <1>6, <1>7
<1> QED
  BY <1>8 DEF Kept

\* Publish and its two callers, and the publication of a start, do the same to
\* what a device holds.
LEMMA PublishingSteps ==
  ASSUME TypeOK, NEW d \in Device,
         \/ LocalChangePublished(d) \/ ControlSyncFiles(d) \/ StartPublishing(d)
  PROVE  \E payload \in Payload :
           LET e == NewEvent(d, increment(cfg[d].clock, d), payload)
           IN /\ MakesEvent(d, payload)
              /\ created' = created \cup {e}
              /\ current'[d] = e
              /\ remember(d, e.id)
<1>1. CASE LocalChangePublished(d)
  <2>1. Head(changes[d]) \in Payload
    BY <1>1, QueueTail DEF TypeOK, LocalChange, LocalChangePublished
  <2> QED
    BY <1>1, <2>1 DEF LocalChangePublished, Publish, SaveClock, Save, MakesEvent,
       TypeOK
<1>2. CASE ControlSyncFiles(d)
  <2>1. Head(control[d]) \in Control
    BY <1>2, QueueTail DEF TypeOK, ControlSyncFiles
  <2>2. Head(control[d]).payload \in Payload
    BY <1>2, <2>1 DEF Control, ControlSyncFiles
  <2> QED
    BY <1>2, <2>2 DEF ControlSyncFiles, Publish, SaveClock, Save, MakesEvent, TypeOK
<1>3. CASE StartPublishing(d)
  <2>1. starting[d] \in Payload
    BY <1>3 DEF TypeOK, StartPublishing
  <2> QED
    BY <1>3, <2>1 DEF StartPublishing, SaveClock, Save, MakesEvent, TypeOK
<1> QED
  BY <1>1, <1>2, <1>3

\* `remember` adds one id.
LEMMA RememberSeen ==
  ASSUME TypeOK, NEW n \in Device, NEW id \in Nat, remember(n, id), NEW x, Seen(n, x)'
  PROVE  Seen(n, x) \/ x = id
<1> DEFINE s == seen[n]
<1>1. s \in Seq(Nat)
  BY DEF TypeOK
<1>2. PICK i \in 1..Len(seen'[n]) : seen'[n][i] = x
  BY DEF Seen
<1>3. seen'[n] = IF Len(s) < SeenLimit THEN Append(s, id) ELSE Append(Tail(s), id)
  BY DEF remember, TypeOK
<1>4. Seen(n, x) <=> \E j \in 1..Len(s) : s[j] = x
  BY DEF Seen
<1> HIDE DEF s
<1>5. CASE Len(s) < SeenLimit
  BY <1>1, <1>2, <1>3, <1>4, <1>5, AppendProperties
<1>6. CASE ~(Len(s) < SeenLimit)
  <2>1. s # <<>>
    BY <1>1, <1>6, SeenLimitAssumption, EmptySeq
  <2>2. /\ Tail(s) \in Seq(Nat) /\ Len(Tail(s)) = Len(s) - 1 /\ Len(s) \in Nat
        /\ \A j \in 1..Len(s) - 1 : Tail(s)[j] = s[j + 1]
    BY <1>1, <2>1, HeadTailProperties, LenProperties
  <2>3. /\ Len(Append(Tail(s), id)) = Len(s)
        /\ \A j \in 1..Len(s) - 1 : Append(Tail(s), id)[j] = s[j + 1]
        /\ Append(Tail(s), id)[Len(s)] = id
    BY <2>2, AppendProperties
  <2>4. i \in 1..Len(s) /\ Append(Tail(s), id)[i] = x
    BY <1>2, <1>3, <1>6, <2>3
  <2>5. CASE i = Len(s)
    BY <2>3, <2>4, <2>5
  <2>6. CASE i # Len(s)
    <3>1. i \in 1..Len(s) - 1 /\ i + 1 \in 1..Len(s)
      <4>1. \A k \in Nat : \A j \in 1..k :
              j # k => j \in 1..k - 1 /\ j + 1 \in 1..k
        OBVIOUS
      <4>2. Len(s) \in Nat
        BY <2>2
      <4>3. i \in 1..Len(s)
        BY <2>4
      <4> QED
        BY <2>6, <4>1, <4>2, <4>3
    <3>2. s[i + 1] = x
      BY <2>3, <2>4, <3>1
    <3> QED
      BY <1>4, <3>1, <3>2
  <2> QED
    BY <2>5, <2>6
<1> QED
  BY <1>5, <1>6

\* Trust is withdrawn, never given, while the daemons run; a daemon that starts
\* trusts whom config.json says it does.
LEMMA PeersStep ==
  ASSUME TypeOK, [Next]_vars, NEW d \in Device
  PROVE  /\ \/ cfg'[d].peers \subseteq cfg[d].peers
            \/ StartLoads(d) /\ cfg'[d] = disk[d]
         /\ disk'[d] = disk[d] \/ disk'[d].peers \subseteq cfg[d].peers
<1> DEFINE Goal == /\ \/ cfg'[d].peers \subseteq cfg[d].peers
                      \/ StartLoads(d) /\ cfg'[d] = disk[d]
                   /\ disk'[d] = disk[d] \/ disk'[d].peers \subseteq cfg[d].peers
<1>1. ASSUME UNCHANGED <<cfg, disk>>
      PROVE  Goal
  BY <1>1
<1>2. ASSUME NEW n \in Device, NEW config, cfg' = [cfg EXCEPT ![n] = config],
             disk' = disk \/ disk' = [disk EXCEPT ![n] = config],
             config.peers \subseteq cfg[n].peers
      PROVE  Goal
  BY <1>2 DEF TypeOK
<1>3. ASSUME NEW n \in Device, StartLoads(n)
      PROVE  Goal
  BY <1>3 DEF StartLoads, TypeOK
<1> HIDE DEF Goal
<1>4. ASSUME NEW n \in Device, NEW clock, SaveClock(n, clock)
      PROVE  Goal
  <2>1. [cfg[n] EXCEPT !.clock = clock].peers = cfg[n].peers
    BY DEF TypeOK, Config
  <2> QED
    BY <1>2, <1>4, <2>1 DEF SaveClock, Save
<1>5. ASSUME NEW n \in Device, MainLoop(n)
      PROVE  Goal
  <2>1. UNCHANGED <<cfg, disk>> \/ \E clock : SaveClock(n, clock)
    BY <1>5 DEF MainLoop, LocalChangeDropped, LocalChangeFiles,
       LocalChangePublished, IncomingDropped, IncomingAccepted, ControlPause,
       ControlResume, ControlSyncFiles, Publish
  <2> QED
    BY <1>1, <1>4, <2>1
<1>6. ASSUME NEW n \in Device, Start(n)
      PROVE  Goal
  BY <1>1, <1>3, <1>4, <1>6 DEF Start, StartPaused, StartPublishing
<1>7. ASSUME NEW n \in Device,
             \/ IpcPause(n) \/ IpcPauseFails(n) \/ IpcResume(n) \/ IpcResumeFails(n)
             \/ \E m \in Device : IpcUnpair(n, m) \/ IpcUnpairFails(n, m)
      PROVE  Goal
  <2>1. /\ [cfg[n] EXCEPT !.paused = TRUE].peers = cfg[n].peers
        /\ [cfg[n] EXCEPT !.paused = FALSE].peers = cfg[n].peers
        /\ \A m \in Device :
             [cfg[n] EXCEPT !.peers = @ \ {m}].peers \subseteq cfg[n].peers
    BY DEF TypeOK, Config
  <2>2. CASE IpcPause(n) \/ IpcResume(n) \/ \E m \in Device : IpcUnpair(n, m)
    BY <1>2, <2>1, <2>2 DEF IpcPause, IpcResume, IpcUnpair, Save
  <2>3. CASE \/ IpcPauseFails(n) \/ IpcResumeFails(n)
             \/ \E m \in Device : IpcUnpairFails(n, m)
    BY <1>2, <2>1, <2>3 DEF IpcPauseFails, IpcResumeFails, IpcUnpairFails, IpcFails
  <2> QED
    BY <1>7, <2>2, <2>3
<1>8. ASSUME NEW n \in Device,
             \/ Pasteboard(n) \/ IpcSyncFilesQueue(n)
             \/ \E m \in Device : PeerLoops(n, m) \/ Drop(n, m)
             \/ \E files \in BOOLEAN : UserCopy(n, files)
             \/ BackendSetRaced(n) \/ IpcSyncFilesRequest(n) \/ Crash(n)
      PROVE  UNCHANGED <<cfg, disk>>
  BY <1>8 DEF Pasteboard, BackendPoll, BackendCommand, IpcSyncFilesQueue,
     PeerLoops, Connect, SendLatest, Subscribe, PeerLoopBail, Drop, Hangup,
     UserCopy, BackendSetRaced, IpcSyncFilesRequest, Crash
<1>9. ASSUME UNCHANGED vars
      PROVE  Goal
  BY <1>1, <1>9 DEF vars
<1>10. ASSUME NEW n \in Device, Environment(n)
       PROVE  Goal
  BY <1>1, <1>7, <1>8, <1>10 DEF Environment
<1>11. ASSUME Next
       PROVE  Goal
  <2>1. PICK n \in Device :
          \/ MainLoop(n)
          \/ Pasteboard(n)
          \/ \E m \in Device : PeerLoops(n, m)
          \/ IpcSyncFilesQueue(n)
          \/ Start(n)
          \/ Environment(n)
    BY <1>11 DEF Next
  <2> QED
    BY <1>1, <1>5, <1>6, <1>8, <1>10, <2>1
<1>12. Goal
  BY <1>9, <1>11
<1> QED
  BY <1>12 DEF Goal

\* What a step does to the loop of n for m: it is made, it goes on between two
\* running daemons, or it ends.
LEMMA LinkSteps ==
  ASSUME TypeOK, [Next]_vars, NEW n \in Device, NEW m \in Device,
         link'[n][m] # "down"
  PROVE  \/ Connect(n, m) \/ Connect(m, n)
         \/ /\ link[n][m] # "down"
            /\ up[n] => up'[n]
            /\ up[m] => up'[m]
<1> DEFINE Goes == /\ link[n][m] # "down"
                   /\ up[n] => up'[n]
                   /\ up[m] => up'[m]
<1>1. ASSUME link'[n][m] = link[n][m], \A d \in Device : up[d] => up'[d]
      PROVE  Goes
  BY <1>1
<1>2. ASSUME NEW d \in Device, MainLoop(d)
      PROVE  Goes
  <2>1. up' = up
    BY <1>2 DEF MainLoop, LocalChange, LocalChangeDropped, LocalChangeFiles,
       LocalChangePublished, IncomingDropped, IncomingAccepted, ControlPause,
       ControlResume, ControlSyncFiles
  <2>2. link' = link \/ \E source : link' = [link EXCEPT ![d] = LinksAfter(d, source)]
    BY <1>2 DEF MainLoop, LocalChangeDropped, LocalChangeFiles,
       LocalChangePublished, IncomingDropped, IncomingAccepted, ControlPause,
       ControlResume, ControlSyncFiles, Publish
  <2>3. link[n][m] # "down"
    <3>1. CASE link' = link
      BY <3>1
    <3>2. ASSUME NEW source, link' = [link EXCEPT ![d] = LinksAfter(d, source)]
          PROVE  link[n][m] # "down"
      <4>1. CASE n # d
        BY <3>2, <4>1 DEF TypeOK
      <4>2. CASE n = d
        <5>1. link'[n][m] = LinksAfter(n, source)[m]
          BY <3>2, <4>2 DEF TypeOK
        <5> QED
          BY <5>1 DEF LinksAfter, Receives
      <4> QED
        BY <4>1, <4>2
    <3> QED
      BY <2>2, <3>1, <3>2
  <2> QED
    BY <2>1, <2>3
<1>3. ASSUME NEW d \in Device,
             \/ Pasteboard(d) \/ IpcSyncFilesQueue(d) \/ Start(d)
             \/ \E files \in BOOLEAN : UserCopy(d, files)
             \/ BackendSetRaced(d) \/ IpcSyncFilesRequest(d)
             \/ IpcPause(d) \/ IpcPauseFails(d) \/ IpcResume(d) \/ IpcResumeFails(d)
             \/ \E c \in Device : IpcUnpairFails(d, c)
      PROVE  Goes
  <2>1. link' = link
    BY <1>3 DEF Pasteboard, BackendPoll, BackendCommand, IpcSyncFilesQueue,
       Start, StartLoads, StartPaused, StartPublishing, UserCopy,
       BackendSetRaced, IpcPause, IpcResume, IpcPauseFails, IpcResumeFails,
       IpcUnpairFails, IpcFails, IpcSyncFilesRequest
  <2>2. up' = up \/ up' = [up EXCEPT ![d] = TRUE]
    BY <1>3 DEF Pasteboard, BackendPoll, BackendCommand, IpcSyncFilesQueue,
       Start, StartLoads, StartPaused, StartPublishing, UserCopy,
       BackendSetRaced, IpcPause, IpcResume, IpcPauseFails, IpcResumeFails,
       IpcUnpairFails, IpcFails, IpcSyncFilesRequest
  <2>3. \A c \in Device : up[c] => up'[c]
    BY <2>2 DEF TypeOK
  <2> QED
    BY <1>1, <2>1, <2>3
<1>4. ASSUME NEW d \in Device, NEW c \in Device,
             \/ SendLatest(d, c) \/ Subscribe(d, c) \/ PeerLoopBail(d, c)
             \/ Drop(d, c) \/ IpcUnpair(d, c)
      PROVE  Goes
  <2>1. up' = up
    BY <1>4 DEF SendLatest, Subscribe, PeerLoopBail, Drop, Hangup, IpcUnpair
  <2>2. CASE SendLatest(d, c) \/ Subscribe(d, c)
    <3>1. PICK state : link' = [link EXCEPT ![d][c] = state] /\ link[d][c] # "down"
      BY <2>2 DEF SendLatest, Subscribe
    <3>2. (d = n /\ c = m) \/ link'[n][m] = link[n][m]
      BY <3>1 DEF TypeOK
    <3> QED
      BY <2>1, <3>1, <3>2
  <2>3. CASE PeerLoopBail(d, c) \/ Drop(d, c)
    <3>1. link' = [link EXCEPT ![d][c] = "down", ![c][d] = "down"]
      BY <2>3 DEF PeerLoopBail, Drop, Hangup
    <3> QED
      BY <2>1, <3>1 DEF TypeOK
  <2>4. CASE IpcUnpair(d, c)
    <3>1. link' = [link EXCEPT ![d][c] = IF @ = "live" THEN "closing" ELSE @]
      BY <2>4 DEF IpcUnpair
    <3> QED
      BY <2>1, <3>1 DEF TypeOK
  <2> QED
    BY <1>4, <2>2, <2>3, <2>4
<1>5. ASSUME NEW d \in Device, Crash(d)
      PROVE  Goes
  BY <1>5 DEF Crash, TypeOK
<1>6. ASSUME NEW d \in Device, NEW c \in Device, Connect(d, c)
      PROVE  Goes \/ Connect(n, m) \/ Connect(m, n)
  <2>1. /\ link' = [link EXCEPT ![d][c] = "hello", ![c][d] = "hello"]
        /\ up' = up
    BY <1>6 DEF Connect
  <2>2. (d = n /\ c = m) \/ (d = m /\ c = n) \/ link'[n][m] = link[n][m]
    BY <2>1 DEF TypeOK
  <2> QED
    BY <1>6, <2>1, <2>2
<1>7. ASSUME UNCHANGED vars
      PROVE  Goes
  BY <1>1, <1>7 DEF vars
<1> HIDE DEF Goes
<1>8. ASSUME NEW d \in Device, Environment(d)
      PROVE  Goes
  BY <1>3, <1>4, <1>5, <1>8 DEF Environment
<1>9. ASSUME NEW d \in Device, \E c \in Device : PeerLoops(d, c)
      PROVE  Goes \/ Connect(n, m) \/ Connect(m, n)
  BY <1>4, <1>6, <1>9 DEF PeerLoops
<1>10. ASSUME Next
       PROVE  Goes \/ Connect(n, m) \/ Connect(m, n)
  <2>1. PICK d \in Device :
          \/ MainLoop(d)
          \/ Pasteboard(d)
          \/ \E c \in Device : PeerLoops(d, c)
          \/ IpcSyncFilesQueue(d)
          \/ Start(d)
          \/ Environment(d)
    BY <1>10 DEF Next
  <2> QED
    BY <1>2, <1>3, <1>8, <1>9, <2>1
<1>11. Goes \/ Connect(n, m) \/ Connect(m, n)
  BY <1>7, <1>10
<1> QED
  BY <1>11 DEF Goes

\* Only `Connect` brings a connection up, and it asks for two running daemons.
LEMMA LinkStep == TypeOK /\ LinkInv /\ [Next]_vars => LinkInv'
<1> SUFFICES ASSUME TypeOK, LinkInv, [Next]_vars, NEW n \in Device
             PROVE  /\ n \notin cfg'[n].peers /\ n \notin disk'[n].peers
                    /\ \A m \in Device :
                         link'[n][m] # "down" => n # m /\ up'[n] /\ up'[m]
  BY DEF LinkInv
<1>1. n \notin cfg'[n].peers /\ n \notin disk'[n].peers
  BY PeersStep DEF LinkInv
<1>2. ASSUME NEW m \in Device, link'[n][m] # "down"
      PROVE  n # m /\ up'[n] /\ up'[m]
  <2>1. CASE Connect(n, m) \/ Connect(m, n)
    <3>1. n # m
      BY <2>1, DeviceAssumption DEF Connect
    <3> QED
      BY <2>1, <3>1 DEF Connect
  <2>2. CASE /\ link[n][m] # "down"
             /\ up[n] => up'[n]
             /\ up[m] => up'[m]
    BY <2>2 DEF LinkInv
  <2> QED
    BY <1>2, <2>1, <2>2, LinkSteps
<1> QED
  BY <1>1, <1>2

\* The daemons at both ends of a connection run.
LEMMA LinkAlways == Spec => []LinkInv
<1>1. Init => LinkInv
  <2>1. ASSUME Init, NEW n \in Device
        PROVE  /\ n \notin cfg[n].peers /\ n \notin disk[n].peers
               /\ \A m \in Device : link[n][m] # "down" => n # m /\ up[n] /\ up[m]
    <3>1. /\ cfg[n] = [clock |-> Zero, paused |-> FALSE, peers |-> Device \ {n},
                       name |-> 0]
          /\ disk[n] = cfg[n]
      BY <2>1 DEF Init
    <3>2. \A m \in Device : link[n][m] # "down" => n # m
      BY <2>1 DEF Init
    <3> QED
      BY <2>1, <3>1, <3>2 DEF Init
  <2> QED
    BY <2>1 DEF LinkInv
<1> QED
  BY <1>1, LinkStep, TypeCorrect, PTL DEF Spec

\* A daemon goes down by a crash only, and takes in nothing before it is back in
\* its main loop.
LEMMA DownStep == TypeOK /\ DownInv /\ [Next]_vars => DownInv'
<1> SUFFICES ASSUME TypeOK, DownInv, [Next]_vars, NEW d \in Device,
                    ~InMainLoop(d)'
             PROVE  spent'["crash"] # 0 /\ seen'[d] = <<>> /\ current'[d] = None
  BY DEF DownInv
<1>1. ASSUME ~InMainLoop(d), seen'[d] = seen[d], current'[d] = current[d]
      PROVE  spent'["crash"] # 0 /\ seen'[d] = <<>> /\ current'[d] = None
  BY <1>1, SpentStep DEF DownInv, EnvironmentKind
<1>2. CASE /\ up'[d] = up[d] /\ starting'[d] = starting[d]
           /\ seen'[d] = seen[d] /\ current'[d] = current[d]
  BY <1>1, <1>2 DEF InMainLoop
<1>3. CASE Crash(d)
  <2>1. spent' = [spent EXCEPT !["crash"] = @ + 1]
    BY <1>3 DEF Crash, Spend
  <2>2. spent["crash"] \in Nat /\ spent'["crash"] = spent["crash"] + 1
    BY <2>1 DEF TypeOK, EnvironmentKind
  <2>3. spent'["crash"] # 0
    BY <2>2
  <2> QED
    BY <1>3, <2>3 DEF Crash, TypeOK
<1>4. ~(\/ LocalChangePublished(d) \/ ControlSyncFiles(d) \/ ControlResume(d)
        \/ \E m \in Device : IncomingAccepted(d, m))
  <2>1. ASSUME \/ LocalChangePublished(d) \/ ControlSyncFiles(d) \/ ControlResume(d)
               \/ \E m \in Device : IncomingAccepted(d, m)
        PROVE  InMainLoop(d) /\ up' = up /\ starting' = starting
    BY <2>1 DEF LocalChangePublished, LocalChange, ControlSyncFiles,
       IncomingAccepted, Incoming, ControlResume
  <2> QED
    BY <2>1 DEF InMainLoop
<1>5. CASE StartLoads(d) \/ StartPaused(d)
  <2>1. /\ ~InMainLoop(d) /\ seen' = seen /\ current' = current
    BY <1>5 DEF StartLoads, StartPaused, InMainLoop
  <2> QED
    BY <1>1, <2>1
<1>6. ~StartPublishing(d)
  BY DEF StartPublishing, InMainLoop, TypeOK
<1> QED
  BY <1>2, <1>3, <1>4, <1>5, <1>6, HoldingSteps

\* Only a daemon that has crashed is not in its main loop.
LEMMA DownAlways == Spec => []DownInv
<1>1. Init => DownInv
  BY DEF Init, DownInv, InMainLoop
<1> QED
  BY <1>1, DownStep, TypeCorrect, PTL DEF Spec

\* Every publication draws an id that no event has.
LEMMA IdStep == TypeOK /\ IdInv /\ [Next]_vars => IdInv'
<1> SUFFICES ASSUME TypeOK, IdInv, [Next]_vars
             PROVE  IdInv'
  OBVIOUS
<1>1. /\ Cardinality(created) \in Nat
      /\ \A e \in created : e.id \in Nat
  BY FS_CardinalityType DEF TypeOK, Event
<1>2. Cardinality(created) <= Cardinality(created')
  <2>1. created \subseteq created' /\ IsFiniteSet(created')
    BY CreatedGrows, TypeStep DEF TypeOK
  <2> QED
    BY <2>1, FS_Subset
<1>3. Cardinality(created') \in Nat
  BY FS_CardinalityType, TypeStep DEF TypeOK
<1>4. ASSUME NEW d \in Device, NEW x \in Nat, Seen(d, x)
      PROVE  x <= Cardinality(created')
  <2>1. PICK i \in 1..Len(seen[d]) : seen[d][i] = x
    BY <1>4 DEF Seen
  <2>2. x <= Cardinality(created)
    BY <2>1 DEF IdInv
  <2> QED
    BY <1>1, <1>2, <1>3, <2>2
<1>5. ASSUME created' # created
      PROVE  \E e : /\ created' = created \cup {e} /\ e.id = Cardinality(created) + 1
                    /\ Cardinality(created') = Cardinality(created) + 1
  <2>1. PICK d \in Device :
          \/ LocalChangePublished(d)
          \/ ControlSyncFiles(d)
          \/ StartPublishing(d)
    BY <1>5, WhoMakesEvents
  <2>2. PICK e : created' = created \cup {e} /\ e.id = Cardinality(created) + 1
    <3>1. PICK payload \in Payload :
            created' = created \cup
                         {NewEvent(d, increment(cfg[d].clock, d), payload)}
      BY <2>1, PublishingSteps
    <3>2. NewEvent(d, increment(cfg[d].clock, d), payload).id = Cardinality(created) + 1
      BY DEF NewEvent
    <3> QED
      BY <3>1, <3>2
  <2>3. e \notin created
    BY <1>1, <1>5, <2>2
  <2> QED
    BY <2>2, <2>3, FS_AddElement DEF TypeOK
<1>6. /\ \A e \in created' : e.id <= Cardinality(created')
      /\ \A e, f \in created' : e.id = f.id => e = f
  <2>1. CASE created' = created
    BY <2>1 DEF IdInv
  <2>2. CASE created' # created
    <3>1. PICK e : /\ created' = created \cup {e} /\ e.id = Cardinality(created) + 1
                   /\ Cardinality(created') = Cardinality(created) + 1
      BY <1>5, <2>2
    <3>2. \A f \in created : f.id <= Cardinality(created) /\ f.id # e.id
      BY <1>1, <3>1 DEF IdInv
    <3> QED
      BY <1>1, <3>1, <3>2 DEF IdInv
  <2> QED
    BY <2>1, <2>2
<1>7. ASSUME NEW d \in Device, NEW x \in Nat, Seen(d, x)'
      PROVE  x <= Cardinality(created')
  <2>1. CASE seen'[d] = seen[d]
    BY <1>4, <1>7, <2>1 DEF Seen
  <2>2. CASE \/ LocalChangePublished(d) \/ ControlSyncFiles(d) \/ StartPublishing(d)
    <3>1. PICK e : created' = created \cup {e} /\ remember(d, e.id)
      BY <2>2, PublishingSteps
    <3>2. e \in created' /\ e.id \in Nat
      BY <3>1, TypeStep DEF TypeOK, Event
    <3> QED
      BY <1>4, <1>6, <1>7, <3>1, <3>2, RememberSeen
  <2>3. ASSUME NEW m \in Device, IncomingAccepted(d, m)
        PROVE  x <= Cardinality(created')
    <3>1. Head(chan[m][d]) \in created
      BY <2>3, ChannelTail DEF TypeOK, IncomingAccepted, Incoming
    <3>2. remember(d, Head(chan[m][d]).id) /\ created' = created
      BY <2>3 DEF IncomingAccepted
    <3> QED
      BY <1>1, <1>4, <1>6, <1>7, <3>1, <3>2, RememberSeen
  <2>4. CASE ControlResume(d) \/ StartLoads(d) \/ StartPaused(d)
    BY <2>1, <2>4 DEF ControlResume, StartLoads, StartPaused
  <2>5. CASE Crash(d)
    <3>1. seen'[d] = <<>>
      BY <2>5 DEF Crash, TypeOK
    <3> QED
      BY <1>7, <3>1, EmptySeq DEF Seen
  <2> QED
    BY <2>1, <2>2, <2>3, <2>4, <2>5, HoldingSteps
<1>8. ASSUME NEW d \in Device, NEW i \in 1..Len(seen'[d])
      PROVE  seen'[d][i] <= Cardinality(created')
  <2>1. seen'[d] \in Seq(Nat)
    BY TypeStep DEF TypeOK
  <2>2. PICK x \in Nat : x = seen'[d][i]
    BY <2>1, ElementOfSeq
  <2>3. Seen(d, x)'
    BY <2>2 DEF Seen
  <2> QED
    BY <1>7, <2>2, <2>3
<1> QED
  BY <1>6, <1>8 DEF IdInv

\* Ids tell events apart in every behaviour.
LEMMA IdAlways == Spec => []IdInv
<1>1. Init => IdInv
  BY EmptySeq DEF Init, IdInv
<1> QED
  BY <1>1, IdStep, TypeCorrect, PTL DEF Spec

\* `latest` follows `current`, until a pause clears one of them.
LEMMA LatestStep == TypeOK /\ LatestInv /\ [Next]_vars => LatestInv'
<1> SUFFICES ASSUME TypeOK, LatestInv, [Next]_vars,
                    spent'["pause"] = 0, spent'["resume"] = 0
             PROVE  latest' = current' /\ control' \in [Device -> Seq(SyncControls)]
  BY DEF LatestInv
<1>1. /\ spent["pause"] = 0 /\ spent["resume"] = 0
      /\ latest = current /\ control \in [Device -> Seq(SyncControls)]
  BY SpentStep DEF LatestInv, EnvironmentKind
<1>2. CASE UNCHANGED <<latest, current, control>>
  BY <1>1, <1>2
<1>3. ASSUME NEW n \in Device, MainLoop(n)
      PROVE  latest' = current' /\ control' \in [Device -> Seq(SyncControls)]
  <2>1. CASE LocalChangePublished(n)
    BY <1>1, <2>1 DEF LocalChangePublished, LocalChange, Publish
  <2>2. CASE ControlSyncFiles(n)
    <3>1. control' \in [Device -> Seq(SyncControls)]
      BY <1>1, <2>2, QueueTail DEF ControlSyncFiles
    <3> QED
      BY <1>1, <2>2, <3>1 DEF ControlSyncFiles, Publish
  <2>3. CASE ControlPause(n) \/ ControlResume(n)
    <3>1. Head(control[n]) \in SyncControls
      BY <1>1, <2>3, QueueTail DEF ControlPause, ControlResume
    <3> QED
      BY <2>3, <3>1 DEF ControlPause, ControlResume, SyncControls
  <2>4. ASSUME NEW m \in Device, IncomingAccepted(n, m)
        PROVE  latest' = current' /\ control' \in [Device -> Seq(SyncControls)]
    BY <1>1, <2>4 DEF IncomingAccepted
  <2>5. CASE \/ LocalChangeDropped(n) \/ LocalChangeFiles(n)
             \/ \E m \in Device : IncomingDropped(n, m)
    BY <1>2, <2>5 DEF LocalChange, LocalChangeDropped, LocalChangeFiles,
       IncomingDropped
  <2> QED
    BY <1>3, <2>1, <2>2, <2>3, <2>4, <2>5 DEF MainLoop
<1>4. ASSUME NEW n \in Device, Start(n)
      PROVE  latest' = current' /\ control' \in [Device -> Seq(SyncControls)]
  BY <1>1, <1>4 DEF Start, StartLoads, StartPaused, StartPublishing
<1>5. ASSUME NEW n \in Device, Crash(n)
      PROVE  latest' = current' /\ control' \in [Device -> Seq(SyncControls)]
  <2>1. control' \in [Device -> Seq(SyncControls)]
    BY <1>1, <1>5, EmptySeq DEF Crash
  <2> QED
    BY <1>1, <1>5, <2>1 DEF Crash
<1>6. ASSUME NEW n \in Device
      PROVE  ~IpcPause(n) /\ ~IpcResume(n)
  <2>1. ASSUME NEW kind \in {"pause", "resume"}, Spend(kind)
        PROVE  FALSE
    <3>1. spent'[kind] = spent[kind] + 1 /\ spent[kind] = 0 /\ spent'[kind] = 0
      BY <1>1, <2>1 DEF Spend, TypeOK, EnvironmentKind
    <3> QED
      BY <3>1
  <2> QED
    BY <2>1 DEF IpcPause, IpcResume
<1>7. ASSUME NEW n \in Device, IpcSyncFilesQueue(n)
      PROVE  latest' = current' /\ control' \in [Device -> Seq(SyncControls)]
  <2>1. PICK r \in sync[n] :
          control' = [control EXCEPT ![n] =
                        Append(@, [op |-> "SyncFiles", payload |-> r.payload])]
    BY <1>7 DEF IpcSyncFilesQueue
  <2>2. [op |-> "SyncFiles", payload |-> r.payload] \in SyncControls
    <3>1. r \in SyncRequest
      BY DEF TypeOK
    <3> QED
      BY <3>1 DEF SyncRequest, SyncControls
  <2>3. control' \in [Device -> Seq(SyncControls)]
    BY <1>1, <2>1, <2>2, QueueAppend
  <2> QED
    BY <1>1, <1>7, <2>3 DEF IpcSyncFilesQueue
<1>8. ASSUME NEW n \in Device,
             \/ Pasteboard(n) \/ BackendSetRaced(n) \/ IpcSyncFilesRequest(n)
             \/ \E m \in Device : PeerLoops(n, m) \/ Drop(n, m)
             \/ \E m \in Device : IpcUnpair(n, m) \/ IpcUnpairFails(n, m)
             \/ IpcPauseFails(n) \/ IpcResumeFails(n)
             \/ \E files \in BOOLEAN : UserCopy(n, files)
      PROVE  UNCHANGED <<latest, current, control>>
  BY <1>8 DEF Pasteboard, BackendPoll, BackendCommand, PeerLoops, Connect,
     SendLatest, Subscribe, PeerLoopBail, Drop, Hangup, IpcUnpair,
     IpcUnpairFails, IpcPauseFails, IpcResumeFails, IpcFails, UserCopy,
     BackendSetRaced, IpcSyncFilesRequest
<1>9. CASE UNCHANGED vars
  BY <1>2, <1>9 DEF vars
<1>10. CASE Next
  <2>1. PICK n \in Device :
          \/ MainLoop(n)
          \/ Pasteboard(n)
          \/ \E m \in Device : PeerLoops(n, m)
          \/ IpcSyncFilesQueue(n)
          \/ Start(n)
          \/ Environment(n)
    BY <1>10 DEF Next
  <2>2. CASE Environment(n)
    BY <1>2, <1>5, <1>6, <1>8, <2>2 DEF Environment
  <2> QED
    BY <1>2, <1>3, <1>4, <1>7, <1>8, <2>1, <2>2
<1> QED
  BY <1>9, <1>10

\* A new connection is sent what is held, unless someone paused or resumed.
LEMMA LatestAlways == Spec => []LatestInv
<1>1. Init => LatestInv
  <2>1. ASSUME Init
        PROVE  latest = current /\ control \in [Device -> Seq(SyncControls)]
    BY <2>1, EmptySeq DEF Init
  <2> QED
    BY <2>1 DEF LatestInv
<1> QED
  BY <1>1, LatestStep, TypeCorrect, PTL DEF Spec

\* The first write of a clipboard comes before its device's first event.
LEMMA ClipStep ==
  TypeOK /\ ForeignInv /\ PlainInv /\ ClipInv /\ [Next]_vars => ClipInv'
<1> SUFFICES ASSUME TypeOK, ForeignInv, PlainInv, ClipInv, [Next]_vars,
                    NEW d \in Device
             PROVE  /\ clip'[d] = None => /\ TakesFrom(d, {})' /\ starting'[d] = None
                                          /\ \A e \in created' : e.origin # d
                    /\ spent'["copyFiles"] = 0 /\ clip'[d] # None => ~clip'[d].files
  BY DEF ClipInv
<1>1. \/ clip'[d] = clip[d]
      \/ \E files \in BOOLEAN : UserCopy(d, files)
      \/ BackendSetRaced(d)
      \/ \E p \in PublishedContent : clip'[d] = p
  <2>1. CASE BackendCommand(d)
    <3>1. /\ commands[d] # <<>> /\ commands[d] \in Seq(Command)
          /\ SetsIn(commands[d], PublishedContent)
          /\ clip'[d] = IF Head(commands[d]).op = "Set"
                          THEN Head(commands[d]).payload ELSE clip[d]
      BY <2>1 DEF BackendCommand, ForeignInv, TypeOK
    <3> QED
      BY <3>1, SetsTail
  <2>2. CASE \/ \E m \in Device : IncomingAccepted(d, m)
             \/ ControlResume(d) \/ ControlSyncFiles(d) \/ Crash(d)
    BY <2>2 DEF IncomingAccepted, ControlResume, ControlSyncFiles, Crash
  <2> QED
    BY <2>1, <2>2, ClipboardSteps
<1>2. ASSUME NEW files \in BOOLEAN, UserCopy(d, files)
      PROVE  clip'[d] = NextContent(d, files)
  BY <1>2 DEF UserCopy, TypeOK
<1>3. ASSUME BackendSetRaced(d)
      PROVE  clip'[d] = NextContent(d, FALSE)
  BY <1>3 DEF BackendSetRaced, TypeOK
<1>4. \A files \in BOOLEAN : NextContent(d, files) # None
  BY NextContentType, NoneAssumption
<1>5. None \notin PublishedContent
  BY NoneAssumption DEF PublishedContent, TypeOK, Event
<1>6. ASSUME clip'[d] = None
      PROVE  /\ TakesFrom(d, {})' /\ starting'[d] = None
             /\ \A e \in created' : e.origin # d
  <2>1. /\ clip'[d] = clip[d]
        /\ ~ \E files \in BOOLEAN : UserCopy(d, files)
    BY <1>1, <1>2, <1>3, <1>4, <1>5, <1>6
  <2>2. /\ TakesFrom(d, {}) /\ starting[d] = None
        /\ \A e \in created : e.origin # d
    BY <1>6, <2>1 DEF ClipInv
  <2>3. TakesFrom(d, {})'
    <3> DEFINE W == {}
    <3>1. /\ TakesFrom(d, W)
          /\ \A files \in BOOLEAN :
               UserCopy(d, files) => NextContent(d, files) \in W
      BY <2>1, <2>2
    <3> HIDE DEF W
    <3>2. TakesFrom(d, W)'
      BY <3>1, TakesStep
    <3> QED
      BY <3>2 DEF W
  <2>4. ~LocalChangePublished(d)
    <3>1. changes[d] = <<>>
      BY <2>2, EmptySeq DEF TakesFrom
    <3> QED
      BY <3>1 DEF LocalChangePublished, LocalChange
  <2>5. ~ControlSyncFiles(d)
    <3>1. control[d] # <<>> => Head(control[d]) \in ControlsOf({})
      BY <2>2, HeadTailProperties DEF TakesFrom
    <3> QED
      BY <3>1 DEF ControlSyncFiles, ControlsOf, FilesOf
  <2>6. ~StartPublishing(d)
    BY <2>2 DEF StartPublishing
  <2>7. ASSUME NEW e \in created' \ created
        PROVE  e.origin # d
    <3>1. PICK n \in Device :
            \/ LocalChangePublished(n)
            \/ ControlSyncFiles(n)
            \/ StartPublishing(n)
      BY <2>7, WhoMakesEvents
    <3>2. e.origin = n
      BY <2>7, <3>1 DEF LocalChangePublished, ControlSyncFiles, StartPublishing,
         Publish, NewEvent
    <3> QED
      BY <2>4, <2>5, <2>6, <3>1, <3>2
  <2>8. starting'[d] = None
    BY <1>6, <2>1, <2>2, StartingStep
  <2> QED
    BY <2>2, <2>3, <2>7, <2>8
<1>7. ASSUME spent'["copyFiles"] = 0, clip'[d] # None
      PROVE  ~clip'[d].files
  <2>1. spent["copyFiles"] = 0
    BY <1>7, SpentStep DEF EnvironmentKind
  <2>2. CASE clip'[d] = clip[d]
    BY <1>7, <2>1, <2>2 DEF ClipInv
  <2>3. ASSUME NEW files \in BOOLEAN, UserCopy(d, files)
        PROVE  ~clip'[d].files
    <3>1. CASE files = TRUE
      <4>1. spent' = [spent EXCEPT !["copyFiles"] = @ + 1]
        BY <2>3, <3>1 DEF UserCopy, Spend
      <4>2. spent'["copyFiles"] = 1
        BY <2>1, <4>1 DEF TypeOK, EnvironmentKind
      <4> QED
        BY <1>7, <4>2
    <3>2. CASE files = FALSE
      <4>1. clip'[d] = NextContent(d, FALSE)
        BY <1>2, <2>3, <3>2
      <4> QED
        BY <4>1 DEF NextContent
    <3> QED
      BY <3>1, <3>2
  <2>4. CASE BackendSetRaced(d)
    BY <1>3, <2>4 DEF NextContent
  <2>5. CASE \E p \in PublishedContent : clip'[d] = p
    BY <2>1, <2>5 DEF PublishedContent, PlainInv
  <2> QED
    BY <1>1, <2>2, <2>3, <2>4, <2>5
<1> QED
  BY <1>6, <1>7

\* An empty clipboard has published nothing.
LEMMA ClipAlways == Spec => []ClipInv
<1>1. Init => ClipInv
  <2>1. ASSUME Init
        PROVE  /\ created = {}
               /\ \A n \in Device :
                    TakesFrom(n, {}) /\ clip[n] = None /\ starting[n] = None
    BY <2>1, TakesInit DEF Init
  <2> QED
    BY <2>1 DEF ClipInv
<1> QED
  BY <1>1, ClipStep, ForeignAlways, PlainAlways, TypeCorrect, PTL DEF Spec

\* Nobody paused or resumed, and not both were files copied and daemons
\* restarted: the premise of AgreeWhenQuiet on what happened.
Calm ==
  /\ spent["pause"] = 0 /\ spent["pauseFails"] = 0 /\ spent["resume"] = 0
  /\ spent["crash"] = 0 \/ spent["copyFiles"] = 0

\* The event x replaces y, or is y.
Follows(x, y) == x = y \/ Beats(x, y)

\* What n holds to be current is e, or replaced it.
Holds(n, e) == current[n] # None /\ Follows(current[n], e)

\* A daemon in its main loop holds nothing that was replaced by an event of its
\* own or by one it has handled.
BehindInv ==
  Calm => \A n \in Device, e \in created :
            (e.origin = n /\ InMainLoop(n)) \/ Seen(n, e.id) => Holds(n, e)

\* The event e is between n's publishing it and m's main loop.
OnTheWay(n, m, e) == \E i \in 1..Len(chan[n][m]) : chan[n][m][i] = e

\* What n has published is on its way to m, or m holds what it was replaced by.
Delivered(n, m) ==
  current[n] # None /\ current[n].origin = n =>
    OnTheWay(n, m, current[n]) \/ Holds(m, current[n])

\* So it is over every connection whose peer_loop has read `latest`, unless it
\* missed an event before it subscribed.
DeliveredInv ==
  Calm => \A n, m \in Device :
            /\ link[n][m] \in {"gap", "live"}
            /\ m \in cfg[n].peers /\ n \in cfg[m].peers
            /\ <<n, m>> \notin missed
            => Delivered(n, m)

\* There are two devices, and each finds the other.
TwoLinked == \A n, m \in Device : n # m => Linked(n, m) /\ Device = {n, m}

\* What the agreement of two devices rests on.
AgreeInv == ClockInv /\ ChainInv /\ LinkInv /\ DownInv /\ IdInv /\ LatestInv

\* What has happened once is not undone.
LEMMA CalmStep == TypeOK /\ [Next]_vars /\ Calm' => Calm
BY SpentStep DEF Calm, EnvironmentKind

\* A new event replaces all its device has made or holds.
LEMMA NewHolds ==
  ASSUME ClockInv, ChainInv, TwoLinked, NEW d \in Device, NEW payload \in Payload,
         NEW x \in created, x.origin = d \/ Holds(d, x)
  PROVE  Beats(NewEvent(d, increment(cfg[d].clock, d), payload), x)
<1> DEFINE clock == increment(cfg[d].clock, d)
           e == NewEvent(d, clock, payload)
<1>1. TypeOK
  BY DEF ClockInv
<1>2. cfg[d].clock \in VV /\ clock \in VV
  BY <1>1, IncrementFacts DEF TypeOK, Config
<1>3. e \in Event /\ e.clock = clock /\ e.origin = d
  BY <1>1, <1>2, NewEventType DEF NewEvent
<1>4. ASSUME NEW y \in created, Leq(y.clock, cfg[d].clock)
      PROVE  Beats(e, y)
  <2>1. y.clock \in VV
    BY <1>1 DEF TypeOK, Event
  <2>2. relation(clock, y.clock) = "After"
    BY <1>2, <1>4, <2>1, IncrementComesAfter
  <2> QED
    BY <1>3, <2>2 DEF Beats
<1>5. SUFFICES Beats(e, x)
  OBVIOUS
<1> HIDE DEF e, clock
<1>6. CASE x.origin = d
  BY <1>4, <1>6 DEF ChainInv
<1>7. CASE x.origin # d /\ Holds(d, x)
  <2> DEFINE y == current[d]
  <2>1. y \in created /\ Leq(y.clock, cfg[d].clock)
    BY <1>1, <1>7 DEF Holds, TypeOK, ClockInv, CurrentCovered
  <2>2. Beats(e, y) /\ (y = x \/ Beats(y, x))
    BY <1>4, <1>7, <2>1 DEF Holds, Follows
  <2>3. x \in Event /\ y \in Event /\ x.origin \in Device /\ y.origin \in Device
    BY <1>1, <2>1 DEF TypeOK, Event
  <2>4. y.origin = d \/ y.origin = x.origin
    BY <1>7, <2>3 DEF TwoLinked
  <2> HIDE DEF y
  <2> QED
    BY <1>3, <1>7, <2>2, <2>3, <2>4, BeatsTransitive
<1> QED
  BY <1>6, <1>7

\* Accepting an event leaves nothing held that it or an event held replaced.
LEMMA AcceptedHolds ==
  ASSUME ClockInv, ChainInv, TwoLinked, NEW d \in Device, NEW m \in Device,
         IncomingAccepted(d, m), NEW x \in created,
         x = Head(chan[m][d]) \/ Holds(d, x)
  PROVE  Holds(d, x)'
<1> DEFINE e == Head(chan[m][d])
           y == current[d]
<1>1. TypeOK
  BY DEF ClockInv
<1>2. e \in created
  BY <1>1, ChannelTail DEF TypeOK, IncomingAccepted, Incoming
<1>3. /\ Wins(d, e) => current'[d] = e
      /\ ~Wins(d, e) => current'[d] = y
  BY <1>1 DEF IncomingAccepted, TypeOK
<1>4. \A z \in created : z # None
  BY <1>1, NoneAssumption DEF TypeOK
<1>5. y # None => y \in created
  BY <1>1 DEF TypeOK
<1>6. Wins(d, e) <=> y = None \/ Beats(e, y)
  BY DEF Wins
<1>7. Holds(d, x) <=> y # None /\ (y = x \/ Beats(y, x))
  BY DEF Holds, Follows
<1>8. Holds(d, x)' <=> current'[d] # None /\ (current'[d] = x \/ Beats(current'[d], x))
  BY DEF Holds, Follows
<1> HIDE DEF e, y
<1>9. x = e \/ Holds(d, x)
  BY DEF e
<1>10. CASE Wins(d, e)
  <2>1. CASE x = e
    BY <1>2, <1>3, <1>4, <1>8, <1>10, <2>1
  <2>2. CASE x # e /\ Holds(d, x)
    <3>1. y \in created /\ Beats(e, y) /\ (y = x \/ Beats(y, x))
      BY <1>5, <1>6, <1>7, <1>10, <2>2
    <3>2. CASE y = x
      BY <1>2, <1>3, <1>4, <1>8, <1>10, <3>1, <3>2
    <3>3. CASE Beats(y, x)
      <4>1. /\ x \in Event /\ y \in Event /\ e \in Event
            /\ x.origin \in Device /\ y.origin \in Device /\ e.origin \in Device
        BY <1>1, <1>2, <3>1 DEF TypeOK, Event
      <4>2. e.origin = x.origin => Leq(e.clock, x.clock) \/ Leq(x.clock, e.clock)
        BY <1>2 DEF ChainInv
      <4>3. e.origin = y.origin \/ y.origin = x.origin \/ e.origin = x.origin
        BY <4>1 DEF TwoLinked
      <4>4. Beats(e, x)
        BY <3>1, <3>3, <4>1, <4>2, <4>3, BeatsTransitive
      <4> QED
        BY <1>2, <1>3, <1>4, <1>8, <1>10, <4>4
    <3> QED
      BY <3>1, <3>2, <3>3
  <2> QED
    BY <1>9, <2>1, <2>2
<1>11. CASE ~Wins(d, e)
  <2>1. y # None /\ y \in created /\ ~Beats(e, y)
    BY <1>5, <1>6, <1>11
  <2>2. y = e \/ Beats(y, e)
    BY <1>1, <1>2, <2>1, OneFollows
  <2> QED
    BY <1>3, <1>7, <1>8, <1>9, <1>11, <2>1, <2>2
<1> QED
  BY <1>10, <1>11

\* A running daemon goes on holding what replaced an event.
LEMMA HoldsStep ==
  ASSUME AgreeInv, TwoLinked, [Next]_vars, Calm', NEW d \in Device, up'[d],
         NEW x \in created, Holds(d, x)
  PROVE  Holds(d, x)'
<1>1. TypeOK /\ ClockSaved /\ Calm
  BY CalmStep DEF AgreeInv, ClockInv
<1>2. CASE current'[d] = current[d]
  BY <1>2 DEF Holds, Follows
<1>3. CASE LocalChangePublished(d) \/ ControlSyncFiles(d) \/ StartPublishing(d)
  <2>1. PICK payload \in Payload :
          LET e == NewEvent(d, increment(cfg[d].clock, d), payload)
          IN /\ created' = created \cup {e}
             /\ current'[d] = e
    BY <1>1, <1>3, PublishingSteps
  <2>2. Beats(current'[d], x)
    BY <2>1, NewHolds DEF AgreeInv
  <2>3. current'[d] # None
    <3>1. TypeOK' /\ current'[d] \in created'
      BY <1>1, <2>1, TypeStep
    <3> QED
      BY <3>1, NoneAssumption DEF TypeOK
  <2> QED
    BY <2>2, <2>3 DEF Holds, Follows
<1>4. CASE \E m \in Device : IncomingAccepted(d, m)
  BY <1>4, AcceptedHolds DEF AgreeInv
<1>5. CASE ControlResume(d)
  <2>1. control[d] \in Seq(SyncControls) /\ control[d] # <<>>
    BY <1>1, <1>5 DEF AgreeInv, LatestInv, Calm, ControlResume
  <2>2. Head(control[d]) \in SyncControls
    BY <2>1, HeadTailProperties
  <2> QED
    BY <1>5, <2>2 DEF ControlResume, SyncControls
<1>6. CASE Crash(d)
  BY <1>1, <1>6 DEF Crash, TypeOK
<1>7. CASE StartLoads(d) \/ StartPaused(d)
  BY <1>2, <1>7 DEF StartLoads, StartPaused
<1> QED
  BY <1>1, <1>2, <1>3, <1>4, <1>5, <1>6, <1>7, HoldingSteps

\* An event that a daemon makes or handles is what it holds, or was replaced by
\* that.
LEMMA BehindStep ==
  ASSUME AgreeInv, AgreeInv', ClipInv, NeverPaused, TwoLinked, BehindInv, [Next]_vars
  PROVE  BehindInv'
<1> SUFFICES ASSUME Calm', NEW d \in Device, NEW x \in created',
                    (x.origin = d /\ InMainLoop(d)') \/ Seen(d, x.id)'
             PROVE  Holds(d, x)'
  BY DEF BehindInv
<1>1. TypeOK /\ TypeOK' /\ ClockSaved /\ Calm
  BY CalmStep DEF AgreeInv, ClockInv
<1>2. InMainLoop(d)' /\ up'[d]
  <2>1. InMainLoop(d)'
    BY EmptySeq DEF AgreeInv, DownInv, Seen
  <2> QED
    BY <2>1 DEF InMainLoop
<1>3. x.id \in Nat
  BY <1>1 DEF TypeOK, Event
\* It is enough to look at events that were there before, and handled before or
\* d's own.
<1>4. ASSUME x \in created, (x.origin = d /\ InMainLoop(d)) \/ Seen(d, x.id)
      PROVE  Holds(d, x)'
  <2>1. Holds(d, x)
    BY <1>1, <1>4 DEF BehindInv
  <2> QED
    BY <1>2, <1>4, <2>1, HoldsStep
<1>5. CASE /\ seen'[d] = seen[d] /\ up'[d] = up[d] /\ starting'[d] = starting[d]
           /\ \A e \in created' \ created : e.origin # d
  <2>1. (x.origin = d /\ InMainLoop(d)) \/ Seen(d, x.id)
    BY <1>5 DEF Seen, InMainLoop
  <2>2. ASSUME x \notin created
        PROVE  FALSE
    <3>1. Seen(d, x.id)
      BY <1>5, <2>1, <2>2
    <3>2. PICK n \in Device :
            \/ LocalChangePublished(n)
            \/ ControlSyncFiles(n)
            \/ StartPublishing(n)
      BY <2>2, WhoMakesEvents
    <3>3. PICK payload \in Payload :
            created' = created \cup {NewEvent(n, increment(cfg[n].clock, n), payload)}
      BY <1>1, <3>2, PublishingSteps
    <3>4. x.id = Cardinality(created) + 1
      BY <2>2, <3>3 DEF NewEvent
    <3>5. x.id <= Cardinality(created)
      BY <3>1 DEF AgreeInv, IdInv, Seen
    <3>6. Cardinality(created) \in Nat
      BY <1>1, FS_CardinalityType DEF TypeOK
    <3> QED
      BY <3>4, <3>5, <3>6
  <2> QED
    BY <1>4, <2>1, <2>2
<1>6. CASE LocalChangePublished(d) \/ ControlSyncFiles(d) \/ StartPublishing(d)
  <2>1. PICK payload \in Payload :
          LET e == NewEvent(d, increment(cfg[d].clock, d), payload)
          IN /\ created' = created \cup {e}
             /\ current'[d] = e
             /\ remember(d, e.id)
    BY <1>1, <1>6, PublishingSteps
  <2> DEFINE e == NewEvent(d, increment(cfg[d].clock, d), payload)
  <2>2. /\ created' = created \cup {e}
        /\ current'[d] = e
        /\ remember(d, e.id)
    BY <2>1
  <2>3. \A y \in created : y.origin = d \/ Holds(d, y) => Beats(e, y)
    BY NewHolds DEF AgreeInv
  <2> HIDE DEF e
  <2>4. e \in created' /\ e.id \in Nat /\ e # None
    BY <1>1, <2>2, NoneAssumption DEF TypeOK, Event
  <2>5. x = e \/ Beats(e, x)
    <3>1. CASE x.origin = d
      BY <2>2, <2>3, <3>1
    <3>2. CASE Seen(d, x.id)' /\ x # e
      <4>1. x.id # e.id
        BY <2>4, <3>2 DEF AgreeInv, IdInv
      <4>2. x \in created /\ Seen(d, x.id)
        BY <1>1, <1>3, <2>2, <2>4, <3>2, <4>1, RememberSeen
      <4>3. Holds(d, x)
        BY <1>1, <4>2 DEF BehindInv
      <4> QED
        BY <2>3, <4>2, <4>3
    <3> QED
      BY <3>1, <3>2
  <2> QED
    BY <2>2, <2>4, <2>5 DEF Holds, Follows
<1>7. ASSUME NEW m \in Device, IncomingAccepted(d, m)
      PROVE  Holds(d, x)'
  <2> DEFINE e == Head(chan[m][d])
  <2>1. e \in created
    BY <1>1, <1>7, ChannelTail DEF TypeOK, IncomingAccepted, Incoming
  <2>2. created' = created /\ remember(d, e.id) /\ InMainLoop(d)
    BY <1>7 DEF IncomingAccepted, Incoming
  <2>3. ASSUME x = e
        PROVE  Holds(d, x)'
    BY <1>7, <2>1, <2>3, AcceptedHolds DEF AgreeInv
  <2> HIDE DEF e
  <2>4. e.id \in Nat
    BY <1>1, <2>1 DEF TypeOK, Event
  <2>5. x # e => (x.origin = d /\ InMainLoop(d)) \/ Seen(d, x.id)
    <3>1. CASE x.origin = d
      BY <2>2, <3>1
    <3>2. CASE Seen(d, x.id)' /\ x # e
      <4>1. x.id # e.id
        BY <2>1, <2>2, <3>2 DEF AgreeInv, IdInv
      <4> QED
        BY <1>1, <1>3, <2>2, <2>4, <3>2, <4>1, RememberSeen
    <3> QED
      BY <3>1, <3>2
  <2> QED
    BY <1>4, <2>2, <2>3, <2>5
<1>8. CASE ControlResume(d)
  BY <1>4, <1>8 DEF ControlResume, Seen
<1>9. CASE Crash(d)
  BY <1>1, <1>2, <1>9 DEF Crash, TypeOK
\* A daemon that enters its main loop without publishing has nothing of its own
\* out there: its clipboard was never written.
<1>10. CASE StartLoads(d)
  <2>1. created' = created /\ seen'[d] = <<>>
    BY <1>10 DEF StartLoads, AgreeInv, DownInv, InMainLoop
  <2>2. x.origin = d
    BY <2>1, EmptySeq DEF Seen
  <2>3. spent["copyFiles"] = 0
    BY <1>1, <1>10 DEF AgreeInv, DownInv, Calm, StartLoads, InMainLoop
  <2>4. clip[d] = None
    <3>1. starting'[d] = InitialPayload(d) /\ starting'[d] = None
      BY <1>1, <1>2, <1>10 DEF StartLoads, TypeOK, InMainLoop
    <3>2. clip[d] # None => ~clip[d].files
      BY <2>3 DEF ClipInv
    <3> QED
      BY <3>1, <3>2 DEF InitialPayload
  <2> QED
    BY <2>1, <2>2, <2>4 DEF ClipInv
<1>11. CASE \E m \in Device : IncomingAccepted(d, m)
  BY <1>7, <1>11
<1>12. ~StartPaused(d)
  BY <1>1 DEF StartPaused, NeverPaused, Calm
<1> QED
  BY <1>1, <1>5, <1>6, <1>8, <1>9, <1>10, <1>11, <1>12, HoldingSteps

\* The bus takes nothing off a channel.
LEMMA SentOnKeeps ==
  ASSUME TypeOK, NEW d \in Device, NEW e, NEW source,
         NEW n \in Device, NEW m \in Device, NEW x, OnTheWay(n, m, x),
         chan'[n] = SentOn(d, e, source), d = n
  PROVE  OnTheWay(n, m, x)'
<1> DEFINE s == chan[n][m]
<1>1. s \in Seq(created)
  BY DEF TypeOK
<1>2. chan'[n][m] = s \/ chan'[n][m] = Append(s, e)
  BY DEF SentOn
<1>3. PICK i \in 1..Len(s) : s[i] = x
  BY DEF OnTheWay
<1> HIDE DEF s
<1>4. CASE chan'[n][m] = s
  BY <1>3, <1>4 DEF OnTheWay
<1>5. CASE chan'[n][m] = Append(s, e)
  <2> DEFINE S == created \cup {e}
  <2>1. s \in Seq(S) /\ e \in S
    BY <1>1, SeqMonotonic
  <2> HIDE DEF S
  <2>2. /\ Len(Append(s, e)) = Len(s) + 1 /\ Append(s, e)[i] = s[i]
        /\ Len(s) \in Nat
    BY <1>3, <2>1, AppendProperties, LenProperties
  <2>3. i \in 1..Len(chan'[n][m]) /\ chan'[n][m][i] = x
    BY <1>3, <1>5, <2>2
  <2> QED
    BY <2>3 DEF OnTheWay
<1> QED
  BY <1>2, <1>4, <1>5

\* What a step does to what is on its way from n to m, if its loop has read
\* `latest` after it.
LEMMA PairSteps ==
  ASSUME TypeOK, [Next]_vars, NEW n \in Device, NEW m \in Device, n # m,
         link'[n][m] \in {"gap", "live"}
  PROVE  \/ SendLatest(n, m)
         \/ /\ link[n][m] \in {"gap", "live"}
            /\ <<n, m>> \in missed => <<n, m>> \in missed'
            /\ \/ \A x : OnTheWay(n, m, x) => OnTheWay(n, m, x)'
               \/ IncomingDropped(m, n) \/ IncomingAccepted(m, n)
<1> DEFINE Subscribing == link[n][m] \in {"gap", "live"}
           NoneLost == \A x : OnTheWay(n, m, x) => OnTheWay(n, m, x)'
           Misses == <<n, m>> \in missed => <<n, m>> \in missed'
           Kept == Subscribing /\ Misses /\ NoneLost
<1>1. ASSUME chan'[n][m] = chan[n][m]
      PROVE  NoneLost
  BY <1>1 DEF OnTheWay
<1>2. ASSUME link'[n][m] = link[n][m], chan'[n][m] = chan[n][m], missed' = missed
      PROVE  Kept
  BY <1>1, <1>2
<1>3. ASSUME NEW d \in Device, NEW source,
             link' = [link EXCEPT ![d] = LinksAfter(d, source)]
      PROVE  Subscribing
  <2>1. link'[n][m] = link[n][m] \/ link'[n][m] = "closing"
    BY <1>3 DEF LinksAfter, TypeOK
  <2> QED
    BY <2>1
<1>4. ASSUME NEW d \in Device, NEW payload, Publish(d, payload)
      PROVE  Kept
  <2>1. PICK e : chan' = [chan EXCEPT ![d] = SentOn(d, e, d)]
    BY <1>4 DEF Publish
  <2>2. CASE n = d
    <3>1. chan'[n] = SentOn(d, e, d)
      BY <2>1, <2>2 DEF TypeOK
    <3>2. NoneLost
      BY <2>2, <3>1, SentOnKeeps
    <3> QED
      BY <1>3, <1>4, <3>2 DEF Publish
  <2>3. CASE n # d
    <3>1. chan'[n][m] = chan[n][m]
      BY <2>1, <2>3 DEF TypeOK
    <3> QED
      BY <1>1, <1>3, <1>4, <3>1 DEF Publish
  <2> QED
    BY <2>2, <2>3
<1>5. ASSUME NEW d \in Device, NEW c \in Device, IncomingAccepted(d, c)
      PROVE  Kept \/ (IncomingAccepted(m, n) /\ Subscribing /\ Misses)
  <2>1. PICK e : chan' = [chan EXCEPT ![c][d] = Tail(@), ![d] = SentOn(d, e, c)]
    BY <1>5 DEF IncomingAccepted
  <2>2. Subscribing /\ Misses
    BY <1>3, <1>5 DEF IncomingAccepted
  <2>3. CASE d = n
    <3>1. chan'[n] = SentOn(d, e, c)
      BY <2>1, <2>3 DEF TypeOK
    <3>2. NoneLost
      BY <2>3, <3>1, SentOnKeeps
    <3> QED
      BY <2>2, <3>2
  <2>4. CASE d # n /\ (c # n \/ d # m)
    <3>1. chan'[n][m] = chan[n][m]
      BY <2>1, <2>4 DEF TypeOK
    <3> QED
      BY <1>1, <2>2, <3>1
  <2>5. CASE c = n /\ d = m
    BY <1>5, <2>2, <2>5
  <2> HIDE DEF Kept
  <2> QED
    BY <2>3, <2>4, <2>5
<1>6. ASSUME NEW d \in Device, NEW c \in Device, IncomingDropped(d, c)
      PROVE  Kept \/ (IncomingDropped(m, n) /\ Subscribing /\ Misses)
  <2>1. /\ chan' = [chan EXCEPT ![c][d] = Tail(@)]
        /\ link' = link /\ missed' = missed
    BY <1>6 DEF IncomingDropped
  <2>2. CASE c # n \/ d # m
    <3>1. chan'[n][m] = chan[n][m]
      BY <2>1, <2>2 DEF TypeOK
    <3> QED
      BY <1>2, <2>1, <3>1
  <2>3. CASE c = n /\ d = m
    BY <1>6, <2>1, <2>3
  <2> HIDE DEF Kept
  <2> QED
    BY <2>2, <2>3
<1>7. ASSUME NEW d \in Device,
             \/ LocalChangeDropped(d) \/ LocalChangeFiles(d)
             \/ ControlPause(d) \/ ControlResume(d)
             \/ Pasteboard(d) \/ IpcSyncFilesQueue(d) \/ Start(d)
             \/ \E files \in BOOLEAN : UserCopy(d, files)
             \/ BackendSetRaced(d) \/ IpcSyncFilesRequest(d)
             \/ IpcPause(d) \/ IpcPauseFails(d) \/ IpcResume(d) \/ IpcResumeFails(d)
             \/ \E c \in Device : IpcUnpairFails(d, c)
      PROVE  Kept
  <2>1. UNCHANGED <<link, chan>> /\ missed \subseteq missed'
    BY <1>7 DEF LocalChangeDropped, LocalChangeFiles, ControlPause, ControlResume,
       Pasteboard, BackendPoll, BackendCommand, IpcSyncFilesQueue, Start,
       StartLoads, StartPaused, StartPublishing, UserCopy, BackendSetRaced,
       IpcPause, IpcPauseFails, IpcResume, IpcResumeFails, IpcUnpairFails,
       IpcFails, IpcSyncFilesRequest
  <2> QED
    BY <1>1, <2>1
<1>8. ASSUME NEW d \in Device, NEW c \in Device, Hangup(d, c)
      PROVE  Kept
  <2>1. /\ link' = [link EXCEPT ![d][c] = "down", ![c][d] = "down"]
        /\ missed' = missed
    BY <1>8 DEF Hangup
  <2>2. ~(d = n /\ c = m) /\ ~(d = m /\ c = n)
    BY <2>1 DEF TypeOK
  <2>3. link'[n][m] = link[n][m]
    BY <2>1, <2>2 DEF TypeOK
  <2>4. chan'[n][m] = chan[n][m]
    <3>1. PICK i, j : chan' = [chan EXCEPT ![d][c] = SubSeq(@, 1, i),
                                           ![c][d] = SubSeq(@, 1, j)]
      BY <1>8 DEF Hangup
    <3>2. CASE n # d /\ n # c
      BY <3>1, <3>2 DEF TypeOK
    <3>3. CASE n = d /\ m # c
      BY <3>1, <3>3 DEF TypeOK
    <3>4. CASE n = c /\ m # d
      BY <3>1, <3>4 DEF TypeOK
    <3> QED
      BY <2>2, <3>2, <3>3, <3>4
  <2> QED
    BY <1>2, <2>1, <2>3, <2>4
<1>9. ASSUME NEW d \in Device, NEW c \in Device, SendLatest(d, c)
      PROVE  Kept \/ SendLatest(n, m)
  <2>1. CASE d = n /\ c = m
    BY <1>9, <2>1
  <2>2. CASE ~(d = n /\ c = m)
    <3>1. /\ link' = [link EXCEPT ![d][c] = "gap"] /\ missed' = missed
          /\ \/ chan' = chan
             \/ chan' = [chan EXCEPT ![d][c] = Append(@, latest[d])]
      BY <1>9 DEF SendLatest
    <3>2. link'[n][m] = link[n][m]
      BY <2>2, <3>1 DEF TypeOK
    <3>3. chan'[n][m] = chan[n][m]
      <4>1. CASE chan' = [chan EXCEPT ![d][c] = Append(@, latest[d])]
        BY <2>2, <4>1 DEF TypeOK
      <4> QED
        BY <3>1, <4>1
    <3> QED
      BY <1>2, <3>1, <3>2, <3>3
  <2> HIDE DEF Kept
  <2> QED
    BY <2>1, <2>2
<1>10. ASSUME NEW d \in Device, NEW c \in Device, Subscribe(d, c)
       PROVE  Kept
  <2>1. /\ link[d][c] = "gap" /\ link' = [link EXCEPT ![d][c] = "live"]
        /\ chan' = chan /\ missed' = missed
    BY <1>10 DEF Subscribe
  <2>2. Subscribing
    <3>1. (d = n /\ c = m) \/ link'[n][m] = link[n][m]
      BY <2>1 DEF TypeOK
    <3> QED
      BY <2>1, <3>1
  <2> QED
    BY <1>1, <2>1, <2>2
<1>11. ASSUME NEW d \in Device, NEW c \in Device, Connect(d, c)
       PROVE  Kept
  <2>1. /\ link' = [link EXCEPT ![d][c] = "hello", ![c][d] = "hello"]
        /\ missed' = missed \ {<<d, c>>, <<c, d>>}
        /\ chan' = chan
    BY <1>11 DEF Connect
  <2>2. ~(d = n /\ c = m) /\ ~(d = m /\ c = n)
    BY <2>1 DEF TypeOK
  <2>3. link'[n][m] = link[n][m]
    BY <2>1, <2>2 DEF TypeOK
  <2>4. Misses
    BY <2>1, <2>2
  <2> QED
    BY <1>1, <2>1, <2>3, <2>4
<1>12. ASSUME NEW d \in Device, NEW c \in Device, IpcUnpair(d, c)
       PROVE  Kept
  <2>1. /\ link' = [link EXCEPT ![d][c] = IF @ = "live" THEN "closing" ELSE @]
        /\ chan' = chan /\ missed' = missed
    BY <1>12 DEF IpcUnpair
  <2>2. link'[n][m] = link[n][m] \/ link'[n][m] = "closing"
    BY <2>1 DEF TypeOK
  <2> QED
    BY <1>2, <2>1, <2>2
<1>13. ASSUME NEW d \in Device, Crash(d)
       PROVE  Kept
  <2>1. /\ link' = [a \in Device |-> [b \in Device |->
                      IF d \in {a, b} THEN "down" ELSE link[a][b]]]
        /\ missed' = missed
    BY <1>13 DEF Crash
  <2>2. d # n /\ d # m /\ link'[n][m] = link[n][m]
    BY <2>1
  <2>3. chan'[n][m] = chan[n][m]
    BY <1>13, <2>2 DEF Crash
  <2> QED
    BY <1>2, <2>1, <2>2, <2>3
<1>14. ASSUME UNCHANGED vars
       PROVE  Kept
  BY <1>2, <1>14 DEF vars
<1> DEFINE Taken == /\ IncomingDropped(m, n) \/ IncomingAccepted(m, n)
                    /\ Subscribing /\ Misses
<1>15. ASSUME Kept \/ Taken \/ SendLatest(n, m)
       PROVE  \/ SendLatest(n, m)
              \/ /\ link[n][m] \in {"gap", "live"}
                 /\ <<n, m>> \in missed => <<n, m>> \in missed'
                 /\ \/ \A x : OnTheWay(n, m, x) => OnTheWay(n, m, x)'
                    \/ IncomingDropped(m, n) \/ IncomingAccepted(m, n)
  BY <1>15
<1>16. ASSUME NEW d \in Device, NEW c \in Device,
              IncomingDropped(d, c) \/ IncomingAccepted(d, c)
       PROVE  Kept \/ Taken
  BY <1>5, <1>6, <1>16
<1> HIDE DEF Kept, Taken
<1>17. ASSUME NEW d \in Device, MainLoop(d)
       PROVE  Kept \/ Taken
  BY <1>4, <1>7, <1>16, <1>17 DEF MainLoop, LocalChangePublished, ControlSyncFiles
<1>18. ASSUME NEW d \in Device, Environment(d)
       PROVE  Kept
  BY <1>7, <1>8, <1>12, <1>13, <1>18 DEF Environment, Drop
<1>19. ASSUME NEW d \in Device, \E c \in Device : PeerLoops(d, c)
       PROVE  Kept \/ SendLatest(n, m)
  BY <1>8, <1>9, <1>10, <1>11, <1>19 DEF PeerLoops, PeerLoopBail
<1>20. ASSUME Next
       PROVE  Kept \/ Taken \/ SendLatest(n, m)
  <2>1. PICK d \in Device :
          \/ MainLoop(d)
          \/ Pasteboard(d)
          \/ \E c \in Device : PeerLoops(d, c)
          \/ IpcSyncFilesQueue(d)
          \/ Start(d)
          \/ Environment(d)
    BY <1>20 DEF Next
  <2> QED
    BY <1>7, <1>17, <1>18, <1>19, <2>1
<1>21. Kept \/ Taken \/ SendLatest(n, m)
  BY <1>14, <1>20
<1> QED
  BY <1>15, <1>21

\* What arrives at m is held, or was replaced by what m holds.
LEMMA ArrivesStep ==
  ASSUME AgreeInv, TwoLinked, NeverPaused, BehindInv, [Next]_vars, Calm',
         NEW n \in Device, NEW m \in Device, n # m, n \in cfg[m].peers,
         IncomingDropped(m, n) \/ IncomingAccepted(m, n),
         NEW x \in created, x.origin = n, OnTheWay(n, m, x)
  PROVE  OnTheWay(n, m, x)' \/ Holds(m, x)'
<1> DEFINE s == chan[n][m]
<1>1. TypeOK /\ ClockSaved /\ Calm
  BY CalmStep DEF AgreeInv, ClockInv
<1>2. s \in Seq(created) /\ s # <<>> /\ Len(s) \in Nat
  BY <1>1, LenProperties DEF TypeOK, IncomingDropped, IncomingAccepted, Incoming
<1>3. CASE x = Head(s)
  <2>1. CASE IncomingAccepted(m, n)
    BY <1>3, <2>1, AcceptedHolds DEF AgreeInv
  <2>2. CASE IncomingDropped(m, n)
    <3>1. Seen(m, x.id)
      BY <1>1, <1>3, <2>2 DEF IncomingDropped, Accepts, NeverPaused, Calm, AgreeInv,
         ClockInv, EventsValid
    <3>2. Holds(m, x)
      BY <1>1, <3>1 DEF BehindInv
    <3> QED
      BY <2>2, <3>2 DEF IncomingDropped, Holds, Follows
  <2> QED
    BY <2>1, <2>2
<1>4. CASE x # Head(s)
  <2>1. PICK i \in 1..Len(s) : s[i] = x
    BY DEF OnTheWay
  <2>2. chan'[n][m] = Tail(s)
    <3>1. CASE IncomingDropped(m, n)
      BY <1>1, <3>1 DEF IncomingDropped, TypeOK
    <3>2. CASE IncomingAccepted(m, n)
      <4>1. PICK f : chan' = [chan EXCEPT ![n][m] = Tail(@), ![m] = f]
        BY <3>2 DEF IncomingAccepted
      <4> QED
        BY <1>1, <4>1 DEF TypeOK
    <3> QED
      BY <3>1, <3>2
  <2> HIDE DEF s
  <2>4. i # 1
    BY <1>2, <1>4, <2>1, HeadTailProperties
  <2>5. /\ Len(Tail(s)) = Len(s) - 1
        /\ i - 1 \in 1..Len(s) - 1 /\ Tail(s)[i - 1] = s[i]
    BY <1>2, <2>1, <2>4, HeadTailProperties
  <2>6. chan'[n][m] = Tail(s) => OnTheWay(n, m, x)'
    BY <2>1, <2>5 DEF OnTheWay
  <2> QED
    BY <2>2, <2>6
<1> QED
  BY <1>3, <1>4

\* What a device publishes goes to every subscribed loop, and what a new loop
\* reads in `latest` is what the device holds.
LEMMA DeliveredStep ==
  ASSUME AgreeInv, AgreeInv', TwoLinked, NeverPaused, BehindInv, DeliveredInv,
         [Next]_vars
  PROVE  DeliveredInv'
<1> SUFFICES ASSUME Calm', NEW n \in Device, NEW m \in Device,
                    link'[n][m] \in {"gap", "live"},
                    m \in cfg'[n].peers, n \in cfg'[m].peers,
                    <<n, m>> \notin missed',
                    NEW x, x = current'[n], x # None, x.origin = n
             PROVE  OnTheWay(n, m, x)' \/ Holds(m, x)'
  BY DEF DeliveredInv, Delivered, OnTheWay, Holds
<1>1. TypeOK /\ TypeOK' /\ ClockSaved /\ Calm
  BY CalmStep DEF AgreeInv, ClockInv
<1>2. n # m /\ up'[n] /\ up'[m]
  BY DEF AgreeInv, LinkInv
<1>3. m \in cfg[n].peers /\ n \in cfg[m].peers
  <2>1. ~StartLoads(n) /\ ~StartLoads(m)
    <3>1. ~StartLoads(n)
      BY DEF StartLoads, AgreeInv, LinkInv
    <3>2. ~StartLoads(m)
      BY DEF StartLoads, AgreeInv, LinkInv
    <3> QED
      BY <3>1, <3>2
  <2> QED
    BY <1>1, <2>1, PeersStep
\* The loop has just read what n holds, ...
<1>5. ASSUME SendLatest(n, m)
      PROVE  OnTheWay(n, m, x)'
  <2> DEFINE s == chan[n][m]
  <2>1. current[n] = x /\ latest = current
    BY <1>1, <1>5 DEF SendLatest, AgreeInv, LatestInv, Calm
  <2>2. s \in Seq(created) /\ x \in created
    BY <1>1, <2>1 DEF TypeOK
  <2>3. chan' = [chan EXCEPT ![n][m] = Append(@, x)]
    BY <1>5, <2>1 DEF SendLatest
  <2>4. chan'[n][m] = Append(s, x)
    BY <1>1, <2>3 DEF TypeOK
  <2> HIDE DEF s
  <2>5. /\ Len(Append(s, x)) = Len(s) + 1 /\ Append(s, x)[Len(s) + 1] = x
        /\ Len(s) \in Nat
    BY <2>2, AppendProperties, LenProperties
  <2>6. Len(s) + 1 \in 1..Len(chan'[n][m]) /\ chan'[n][m][Len(s) + 1] = x
    BY <2>4, <2>5
  <2> QED
    BY <2>6 DEF OnTheWay
\* ... or had read what was there before.
<1>6. ASSUME link[n][m] \in {"gap", "live"},
             <<n, m>> \in missed => <<n, m>> \in missed',
             \/ \A y : OnTheWay(n, m, y) => OnTheWay(n, m, y)'
             \/ IncomingDropped(m, n) \/ IncomingAccepted(m, n)
      PROVE  OnTheWay(n, m, x)' \/ Holds(m, x)'
  <2>1. <<n, m>> \notin missed /\ up[n] /\ up[m]
    BY <1>6 DEF AgreeInv, LinkInv
  <2>2. ASSUME current'[n] = current[n]
        PROVE  OnTheWay(n, m, x)' \/ Holds(m, x)'
    <3>1. x = current[n] /\ x \in created
      BY <1>1, <2>2 DEF TypeOK
    <3>2. OnTheWay(n, m, x) \/ Holds(m, x)
      BY <1>1, <1>3, <1>6, <2>1, <3>1 DEF DeliveredInv, Delivered
    <3>3. ASSUME Holds(m, x)
          PROVE  Holds(m, x)'
      BY <1>1, <1>2, <3>1, <3>3, HoldsStep
    <3>4. ASSUME OnTheWay(n, m, x)
          PROVE  OnTheWay(n, m, x)' \/ Holds(m, x)'
      BY <1>1, <1>2, <1>3, <1>6, <3>1, <3>4, ArrivesStep
    <3> QED
      BY <3>2, <3>3, <3>4
  <2>3. ASSUME LocalChangePublished(n) \/ ControlSyncFiles(n)
        PROVE  OnTheWay(n, m, x)'
    <3>1. PICK payload : Publish(n, payload)
      BY <2>3 DEF LocalChangePublished, ControlSyncFiles
    <3>2. PICK e : /\ chan' = [chan EXCEPT ![n] = SentOn(n, e, n)]
                   /\ current' = [current EXCEPT ![n] = e]
                   /\ missed' = missed \cup MissedBy(n, n)
      BY <3>1 DEF Publish
    <3>3. link[n][m] = "live"
      BY <1>2, <1>6, <3>2 DEF MissedBy
    <3> DEFINE s == chan[n][m]
    <3>4. e = x
      BY <1>1, <3>2 DEF TypeOK
    <3>5. chan'[n] = SentOn(n, x, n)
      BY <1>1, <3>2, <3>4 DEF TypeOK
    <3>6. chan'[n][m] = Append(s, x)
      BY <1>2, <1>3, <3>3, <3>5 DEF SentOn, Receives
    <3>7. s \in Seq(created)
      BY <1>1 DEF TypeOK
    <3> HIDE DEF s
    <3> DEFINE S == created \cup {x}
    <3>8. s \in Seq(S) /\ x \in S
      BY <3>7, SeqMonotonic
    <3> HIDE DEF S
    <3>9. /\ Len(Append(s, x)) = Len(s) + 1 /\ Append(s, x)[Len(s) + 1] = x
          /\ Len(s) \in Nat
      BY <3>8, AppendProperties, LenProperties
    <3>10. Len(s) + 1 \in 1..Len(chan'[n][m]) /\ chan'[n][m][Len(s) + 1] = x
      BY <3>6, <3>9
    <3> QED
      BY <3>10 DEF OnTheWay
  <2>4. ASSUME NEW k \in Device, IncomingAccepted(n, k)
        PROVE  current'[n] = current[n]
    <3> DEFINE e == Head(chan[k][n])
    <3>1. current' = current \/ current' = [current EXCEPT ![n] = e]
      BY <2>4 DEF IncomingAccepted
    <3>2. e.origin \in cfg[n].peers
      BY <2>4 DEF IncomingAccepted, Accepts
    <3> HIDE DEF e
    <3>3. current'[n] = current[n] \/ x = e
      BY <1>1, <3>1 DEF TypeOK
    <3> QED
      BY <3>2, <3>3 DEF AgreeInv, LinkInv
  <2>5. ~StartPublishing(n)
    BY <1>6 DEF StartPublishing, MissedAtStart
  <2>6. ~StartLoads(n) /\ ~Crash(n) /\ ~ControlResume(n)
    <3>1. ~Crash(n)
      BY <1>1, <1>2 DEF Crash, TypeOK
    <3>2. ~ControlResume(n)
      BY <1>1 DEF ControlResume, TypeOK
    <3> QED
      BY <2>1, <3>1, <3>2 DEF StartLoads
  <2>7. StartPaused(n) => current'[n] = current[n]
    BY DEF StartPaused
  <2> QED
    BY <1>1, <2>2, <2>3, <2>4, <2>5, <2>6, <2>7, HoldingSteps
<1>7. \/ SendLatest(n, m)
      \/ /\ link[n][m] \in {"gap", "live"}
         /\ <<n, m>> \in missed => <<n, m>> \in missed'
         /\ \/ \A y : OnTheWay(n, m, y) => OnTheWay(n, m, y)'
            \/ IncomingDropped(m, n) \/ IncomingAccepted(m, n)
  BY <1>1, <1>2, PairSteps
<1> QED
  BY <1>5, <1>6, <1>7

\* Two devices that trust each other and have exchanged all they sent hold the
\* same event, however copies, losses, crashes, starts, reconnections and unpair
\* requests whose save fails interleaved: what each published has reached the
\* other or was replaced there, and of two events of two devices only one
\* replaces the other.  The exceptions are those AgreeWhenQuiet names: an event
\* that a peer_loop past reading `latest` was not sent (the one a daemon starts
\* with among them), a pause, saved or not, a resume, and copied files together
\* with a restart.  Of three devices it is not true.
THEOREM TwoDevicesAgree == TwoLinked => (Spec => []AgreeWhenQuiet)
<1> SUFFICES ASSUME TwoLinked
             PROVE  Spec => []AgreeWhenQuiet
  OBVIOUS
<1>1. Init => BehindInv /\ DeliveredInv
  BY DEF Init, BehindInv, DeliveredInv, Delivered
<1>2. AgreeInv /\ AgreeInv' /\ ClipInv /\ NeverPaused /\ BehindInv /\ DeliveredInv
      /\ [Next]_vars => BehindInv' /\ DeliveredInv'
  BY BehindStep, DeliveredStep
<1>3. AgreeInv /\ BehindInv /\ DeliveredInv => AgreeWhenQuiet
  <2> SUFFICES ASSUME AgreeInv, BehindInv, DeliveredInv, NetworkQuiet, missed = {},
                      Calm, NEW n \in Device, NEW m \in Device, n # m
               PROVE  current[n] = current[m]
    BY DEF AgreeWhenQuiet, Calm
  <2>1. TypeOK
    BY DEF AgreeInv, ClockInv
  <2>2. ASSUME NEW a \in Device, NEW b \in Device, a # b, current[a] # None
        PROVE  Holds(b, current[a])
    <3>1. /\ link[a][b] = "live" /\ chan[a][b] = <<>>
          /\ b \in cfg[a].peers /\ a \in cfg[b].peers
      BY <2>2 DEF NetworkQuiet, TwoLinked
    <3>2. current[a] \in created /\ InMainLoop(b)
      BY <2>1, <2>2, <3>1 DEF TypeOK, AgreeInv, LinkInv, NetworkQuiet, InMainLoop
    <3>3. current[a].origin \in {a, b}
      BY <2>1, <2>2, <3>2 DEF TypeOK, Event, TwoLinked
    <3>4. CASE current[a].origin = a
      <4>1. ~OnTheWay(a, b, current[a])
        BY <3>1, EmptySeq DEF OnTheWay
      <4> QED
        BY <2>2, <3>1, <3>4, <4>1 DEF DeliveredInv, Delivered
    <3>5. CASE current[a].origin = b
      BY <3>2, <3>5 DEF BehindInv
    <3> QED
      BY <3>3, <3>4, <3>5
  <2>3. CASE current[n] = None \/ current[m] = None
    BY <2>2, <2>3 DEF Holds
  <2>4. CASE current[n] # None /\ current[m] # None
    <3> DEFINE x == current[n]
               y == current[m]
    <3>1. Follows(y, x) /\ Follows(x, y)
      BY <2>2, <2>4 DEF Holds
    <3>2. x \in Event /\ y \in Event
      BY <2>1, <2>4 DEF TypeOK
    <3> HIDE DEF x, y
    <3>3. x = y
      BY <3>1, <3>2, BeatsAsymmetric DEF Follows, Event
    <3> QED
      BY <3>3 DEF x, y
  <2> QED
    BY <2>3, <2>4
<1> HIDE DEF AgreeInv
<1>4. Spec => []AgreeInv
  BY ClocksCorrect, ChainAlways, LinkAlways, DownAlways, IdAlways, LatestAlways,
     PTL DEF AgreeInv
<1> QED
  BY <1>1, <1>2, <1>3, <1>4, ClipAlways, NeverPausedAlways, PTL DEF Spec

=============================================================================
