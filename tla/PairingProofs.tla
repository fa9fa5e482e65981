----------------------------- MODULE PairingProofs -----------------------------
(***************************************************************************)
(* Proofs about Pairing: for any number of devices, windows, connections   *)
(* and daemons, who is trusted was confirmed by both users over one        *)
(* connection; and without daemons trust is mutual, but with a device that *)
(* went away before it heard the answer.                                   *)
(*                                                                         *)
(* The trust is in three places - config.json, what each open window has   *)
(* loaded of it, and the daemons' copies - and each is written back from   *)
(* another; so all three are confirmed. A confirmation lasts because an    *)
(* answer is given once: a window is asked about the one connection it     *)
(* has, which it either made or took, and nobody takes a connection twice. *)
(***************************************************************************)
EXTENDS Pairing, SequenceTheorems, TLAPS

\* Both users have answered yes over a connection of n and m.
ConfirmedIn(all, n, m) ==
  \E s \in DOMAIN all :
    {all[s].from, all[s].to} = {n, m} /\ all[s].said[n] = "yes" /\ all[s].said[m] = "yes"

\* What n trusts, wherever that is written.
TrustedBy(n) ==
  config[n].peers \cup (IF process[n] = None THEN {} ELSE process[n].loaded.peers)
                  \cup (IF daemon[n] = None THEN {} ELSE daemon[n].peers)

\* A connection is between two devices; who has not taken it has not answered.
StreamSound(stream) ==
  /\ stream.from # stream.to
  /\ ~stream.accepted => stream.said[stream.to] = None

\* A window past its first stage has a connection, its own, and has not answered
\* before it was asked.
ProcessSound(n, p, all) ==
  p # None /\ p.stage # "open" =>
    /\ p.stream \in DOMAIN all
    /\ \/ all[p.stream].from = n
       \/ all[p.stream].to = n /\ all[p.stream].accepted
    /\ p.stage # "waits" => all[p.stream].said[n] = None

PairInv ==
  /\ TypeOK
  /\ \A s \in DOMAIN streams : StreamSound(streams[s])
  /\ \A n \in Device : ProcessSound(n, process[n], streams)
  /\ \A n \in Device : \A m \in TrustedBy(n) : ConfirmedIn(streams, n, m)

----------------------------------------------------------------------------
(* What a step of one device does, and why that keeps the invariant *)

\* What n may do to the connections: make one, take one, answer once.
GrowsBy(n, before, after) ==
  /\ DOMAIN before \subseteq DOMAIN after
  /\ \A s \in DOMAIN before :
       /\ after[s].from = before[s].from /\ after[s].to = before[s].to
       /\ before[s].accepted => after[s].accepted
       /\ \A d \in Device :
            d # n \/ before[s].said[d] # None => after[s].said[d] = before[s].said[d]

StepOf(n) ==
  /\ streams' \in Seq(Stream) /\ Len(streams') <= MaxStreams
  /\ GrowsBy(n, streams, streams')
  /\ \A s \in DOMAIN streams' : StreamSound(streams'[s])
  /\ \E p \in Process \cup {None} :
       process' = [process EXCEPT ![n] = p] /\ ProcessSound(n, p, streams')
  /\ \E c \in Config : config' = [config EXCEPT ![n] = c]
  /\ \E c \in Config \cup {None} : daemon' = [daemon EXCEPT ![n] = c]
  /\ \A m \in TrustedBy(n)' : m \in TrustedBy(n) \/ ConfirmedIn(streams', n, m)
  /\ spent' \in [UserKind -> Nat]

LEMMA ConfirmedLasts ==
  ASSUME NEW before, NEW after, NEW k \in Device, NEW n \in Device, NEW m \in Device,
         GrowsBy(k, before, after), ConfirmedIn(before, n, m)
  PROVE  ConfirmedIn(after, n, m)
<1>1. PICK s \in DOMAIN before :
        {before[s].from, before[s].to} = {n, m} /\ before[s].said[n] = "yes" /\ before[s].said[m] = "yes"
  BY DEF ConfirmedIn
<1>2. s \in DOMAIN after /\ after[s].from = before[s].from /\ after[s].to = before[s].to
  BY DEF GrowsBy
<1>3. after[s].said[n] = "yes" /\ after[s].said[m] = "yes"
  BY <1>1, NoneAssumption DEF GrowsBy
<1> QED
  BY <1>1, <1>2, <1>3 DEF ConfirmedIn

LEMMA OthersSound ==
  ASSUME NEW before, NEW after, NEW n \in Device, NEW d \in Device, d # n, NEW p,
         GrowsBy(n, before, after), ProcessSound(d, p, before)
  PROVE  ProcessSound(d, p, after)
<1> SUFFICES ASSUME p # None, p.stage # "open"
             PROVE  /\ p.stream \in DOMAIN after
                    /\ \/ after[p.stream].from = d
                       \/ after[p.stream].to = d /\ after[p.stream].accepted
                    /\ p.stage # "waits" => after[p.stream].said[d] = None
  BY DEF ProcessSound
<1> QED
  BY DEF ProcessSound, GrowsBy

LEMMA StepSound ==
  ASSUME PairInv, NEW n \in Device, StepOf(n)
  PROVE  PairInv'
<1>1. /\ config \in [Device -> Config] /\ process \in [Device -> Process \cup {None}]
      /\ daemon \in [Device -> Config \cup {None}]
  BY DEF PairInv, TypeOK
<1>2. TypeOK'
  BY <1>1 DEF StepOf, TypeOK
<1>3. \A s \in DOMAIN streams' : StreamSound(streams'[s])
  BY DEF StepOf
<1>4. ASSUME NEW d \in Device
      PROVE  ProcessSound(d, process'[d], streams')
  <2>1. CASE d = n
    BY <1>1, <2>1 DEF StepOf
  <2>2. CASE d # n
    <3>1. process'[d] = process[d]
      BY <1>1, <2>2 DEF StepOf
    <3>2. GrowsBy(n, streams, streams') /\ ProcessSound(d, process[d], streams)
      BY DEF StepOf, PairInv
    <3> QED
      BY <2>2, <3>1, <3>2, OthersSound
  <2> QED
    BY <2>1, <2>2
<1>5. ASSUME NEW d \in Device, NEW m \in TrustedBy(d)'
      PROVE  ConfirmedIn(streams', d, m)
  <2>1. CASE m \in TrustedBy(d)
    <3>1. m \in Device
      BY <1>1, <2>1 DEF TrustedBy, Config, Process
    <3>2. ConfirmedIn(streams, d, m) /\ GrowsBy(n, streams, streams')
      BY <2>1 DEF PairInv, StepOf
    <3> QED
      BY <3>1, <3>2, ConfirmedLasts
  <2>2. CASE m \notin TrustedBy(d)
    <3>1. d = n
      <4> SUFFICES ASSUME d # n PROVE FALSE
        OBVIOUS
      <4>1. config'[d] = config[d] /\ process'[d] = process[d] /\ daemon'[d] = daemon[d]
        BY <1>1 DEF StepOf
      <4> QED
        BY <2>2, <4>1 DEF TrustedBy
    <3> QED
      BY <2>2, <3>1 DEF StepOf
  <2> QED
    BY <2>1, <2>2
<1> QED
  BY <1>2, <1>3, <1>4, <1>5 DEF PairInv

----------------------------------------------------------------------------
(* The steps *)

LEMMA Typed ==
  ASSUME PairInv
  PROVE  /\ config \in [Device -> Config] /\ process \in [Device -> Process \cup {None}]
         /\ daemon \in [Device -> Config \cup {None}] /\ streams \in Seq(Stream)
         /\ Len(streams) \in Nat /\ Len(streams) <= MaxStreams /\ MaxStreams \in Nat
         /\ DOMAIN streams = 1..Len(streams)
         /\ \A s \in DOMAIN streams : streams[s] \in Stream
         /\ spent \in [UserKind -> Nat]
         /\ \A kind \in UserKind : Spend(kind) => spent' \in [UserKind -> Nat]
<1>1. /\ config \in [Device -> Config] /\ process \in [Device -> Process \cup {None}]
      /\ daemon \in [Device -> Config \cup {None}] /\ streams \in Seq(Stream)
      /\ Len(streams) <= MaxStreams /\ MaxStreams \in Nat
      /\ spent \in [UserKind -> Nat]
  BY MaxStreamsAssumption DEF PairInv, TypeOK
<1>2. /\ Len(streams) \in Nat /\ DOMAIN streams = 1..Len(streams)
      /\ \A s \in DOMAIN streams : streams[s] \in Stream
  BY <1>1, LenProperties, ElementOfSeq
<1>3. \A kind \in UserKind : Spend(kind) => spent' \in [UserKind -> Nat]
  BY <1>1 DEF Spend
<1> QED
  BY <1>1, <1>2, <1>3

\* A step that leaves the connections alone.
LEMMA SameStreams ==
  ASSUME PairInv, UNCHANGED streams, NEW n
  PROVE  /\ streams' \in Seq(Stream) /\ Len(streams') <= MaxStreams
         /\ GrowsBy(n, streams, streams')
         /\ \A s \in DOMAIN streams' : StreamSound(streams'[s])
BY DEF PairInv, TypeOK, GrowsBy

\* What is unchanged is what it was with the value of n in its place.
LEMMA Itself ==
  ASSUME PairInv, NEW n \in Device
  PROVE  /\ config = [config EXCEPT ![n] = config[n]] /\ config[n] \in Config
         /\ process = [process EXCEPT ![n] = process[n]] /\ process[n] \in Process \cup {None}
         /\ daemon = [daemon EXCEPT ![n] = daemon[n]] /\ daemon[n] \in Config \cup {None}
         /\ ProcessSound(n, process[n], streams)
BY Typed DEF PairInv

LEMMA OpenStep ==
  ASSUME PairInv, NEW n \in Device, Open(n)
  PROVE  StepOf(n)
<1> DEFINE p == [stage |-> "open", loaded |-> config[n], stream |-> 0]
<1>1. process' = [process EXCEPT ![n] = p] /\ UNCHANGED <<config, daemon, streams>>
  BY DEF Open
<1>2. p \in Process
  BY Itself DEF Process
<1>3. ProcessSound(n, p, streams')
  BY DEF ProcessSound
<1>4. \A m \in TrustedBy(n)' : m \in TrustedBy(n)
  BY <1>1, Typed DEF TrustedBy
<1>5. spent' \in [UserKind -> Nat]
  BY Typed DEF Open, UserKind
<1> HIDE DEF p
<1> QED
  BY <1>1, <1>2, <1>3, <1>4, <1>5, Itself, SameStreams DEF StepOf

LEMMA DaemonStep ==
  ASSUME PairInv, NEW n \in Device, Daemon(n)
  PROVE  StepOf(n)
<1>1. UNCHANGED <<process, streams>> /\ spent' \in [UserKind -> Nat]
  BY Typed DEF Daemon, DaemonStarts, DaemonStops, Copies, Unpair, DaemonSaves, UserKind
<1>2. /\ \E c \in Config : config' = [config EXCEPT ![n] = c]
      /\ \E c \in Config \cup {None} : daemon' = [daemon EXCEPT ![n] = c]
      /\ \A m \in TrustedBy(n)' : m \in TrustedBy(n)
  <2>1. CASE DaemonStarts(n)
    BY <1>1, <2>1, Itself, Typed DEF DaemonStarts, TrustedBy
  <2>2. CASE DaemonStops(n)
    BY <1>1, <2>2, Itself, Typed DEF DaemonStops, TrustedBy
  <2>3. CASE Copies(n)
    <3> DEFINE c == [daemon[n] EXCEPT !.clock = @ + 1]
    <3>1. c \in Config /\ c.peers = daemon[n].peers /\ daemon[n] # None
      BY <2>3, Itself DEF Copies, Config
    <3>2. daemon' = [daemon EXCEPT ![n] = c] /\ config' = [config EXCEPT ![n] = c]
      BY <2>3 DEF Copies, DaemonSaves
    <3> HIDE DEF c
    <3> QED
      BY <1>1, <3>1, <3>2, Typed DEF TrustedBy
  <2>4. CASE \E m \in Device : Unpair(n, m)
    <3> PICK m \in Device : Unpair(n, m)
      BY <2>4
    <3> DEFINE c == [daemon[n] EXCEPT !.peers = @ \ {m}]
    <3>1. c \in Config /\ c.peers \subseteq daemon[n].peers /\ daemon[n] # None
      BY Itself DEF Unpair, Config
    <3>2. daemon' = [daemon EXCEPT ![n] = c] /\ config' = [config EXCEPT ![n] = c]
      BY DEF Unpair, DaemonSaves
    <3> HIDE DEF c
    <3> QED
      BY <1>1, <3>1, <3>2, Typed DEF TrustedBy
  <2> QED
    BY <2>1, <2>2, <2>3, <2>4 DEF Daemon
<1> QED
  BY <1>1, <1>2, Itself, SameStreams DEF StepOf

\* Connections that are changed in no more than what GrowsBy allows.
LEMMA ChangedStreams ==
  ASSUME PairInv, NEW n \in Device,
         streams' \in [DOMAIN streams -> Stream],
         \A s \in DOMAIN streams :
           /\ streams'[s].from = streams[s].from /\ streams'[s].to = streams[s].to
           /\ streams[s].accepted => streams'[s].accepted
           /\ \A d \in Device :
                d # n \/ streams[s].said[d] # None => streams'[s].said[d] = streams[s].said[d]
           /\ ~streams'[s].accepted => streams'[s].said[streams[s].to] = streams[s].said[streams[s].to]
  PROVE  /\ streams' \in Seq(Stream) /\ Len(streams') <= MaxStreams
         /\ GrowsBy(n, streams, streams')
         /\ \A s \in DOMAIN streams' : StreamSound(streams'[s])
<1>1. DOMAIN streams = 1..Len(streams) /\ Len(streams) \in Nat /\ Len(streams) <= MaxStreams
  BY Typed
<1>2. streams' \in Seq(Stream) /\ Len(streams') = Len(streams)
  BY <1>1, IsASeq, LenProperties
<1>3. DOMAIN streams' = DOMAIN streams
  OBVIOUS
<1>4. GrowsBy(n, streams, streams')
  BY <1>3 DEF GrowsBy
<1>5. ASSUME NEW s \in DOMAIN streams'
      PROVE  StreamSound(streams'[s])
  <2>1. StreamSound(streams[s])
    BY <1>3 DEF PairInv
  <2> QED
    BY <1>3, <2>1 DEF StreamSound
<1> QED
  BY <1>1, <1>2, <1>4, <1>5

LEMMA ConnectStep ==
  ASSUME PairInv, NEW n \in Device, NEW m \in Device, Connect(n, m)
  PROVE  StepOf(n)
<1> DEFINE new == [from |-> n, to |-> m, accepted |-> FALSE, messages |-> 1,
                   said |-> [d \in Device |-> None], closed |-> {}, gaveUp |-> {}]
           k == Len(streams) + 1
           p == [process[n] EXCEPT !.stage = "handshake", !.stream = k]
<1>1. /\ process[n] # None /\ n < m /\ Len(streams) < MaxStreams
      /\ streams' = Append(streams, new)
      /\ UNCHANGED <<config, daemon, spent>>
  BY DEF Connect, At
<1>2. process' = [process EXCEPT ![n] = p]
  BY Typed DEF Connect, Reaches
<1>3. new \in Stream /\ StreamSound(new) /\ new.from = n /\ new.said[n] = None
  BY <1>1, DeviceAssumption DEF Stream, StreamSound
<1>4. k \in 1..MaxStreams
  BY <1>1, Typed
<1>5. p \in Process /\ p.stream = k /\ p.stage = "handshake" /\ p.loaded = process[n].loaded
  BY <1>1, <1>4, Typed DEF Process
<1> HIDE DEF new, p
<1>6. /\ streams' \in Seq(Stream) /\ Len(streams') = k
      /\ \A s \in 1..Len(streams) : streams'[s] = streams[s]
      /\ streams'[k] = new
  BY <1>1, <1>3, Typed, AppendProperties
<1>7. DOMAIN streams' = 1..k
  BY <1>6, LenProperties
<1>8. GrowsBy(n, streams, streams')
  BY <1>6, <1>7, Typed DEF GrowsBy
<1>9. ASSUME NEW s \in DOMAIN streams'
      PROVE  StreamSound(streams'[s])
  <2>1. s \in 1..Len(streams) \/ s = k
    BY <1>7, Typed
  <2> QED
    BY <1>3, <1>6, <2>1, Typed DEF PairInv
<1>10. ProcessSound(n, p, streams')
  BY <1>3, <1>4, <1>5, <1>6, <1>7, Typed DEF ProcessSound
<1>11. \A d \in TrustedBy(n)' : d \in TrustedBy(n)
  BY <1>1, <1>2, <1>5, Typed DEF TrustedBy
<1>12. Len(streams') <= MaxStreams /\ spent' \in [UserKind -> Nat]
  BY <1>1, <1>4, <1>6, Typed
<1> HIDE DEF k
<1> QED
  BY <1>1, <1>2, <1>5, <1>6, <1>8, <1>9, <1>10, <1>11, <1>12, Itself DEF StepOf

LEMMA AcceptStep ==
  ASSUME PairInv, NEW n \in Device, NEW s \in 1..MaxStreams, Accept(n, s)
  PROVE  StepOf(n)
<1> DEFINE p == [process[n] EXCEPT !.stage = "handshake", !.stream = s]
           t == [streams[s] EXCEPT !.accepted = TRUE, !.messages = 2]
<1>1. /\ process[n] # None /\ s \in DOMAIN streams
      /\ streams[s].to = n /\ ~streams[s].accepted
      /\ UNCHANGED <<config, daemon, spent>>
  BY DEF Accept, At
<1>2. process' = [process EXCEPT ![n] = p]
  BY Typed DEF Accept, Reaches
<1>3. streams' = [streams EXCEPT ![s] = t]
  BY DEF Accept
<1>4. /\ t \in Stream /\ t.accepted = TRUE /\ t.from = streams[s].from /\ t.to = streams[s].to
      /\ t.said = streams[s].said
  <2> DEFINE u == [streams[s] EXCEPT !.accepted = TRUE]
  <2>1. streams[s] \in Stream
    BY <1>1, Typed
  <2>2. /\ u \in Stream /\ u.accepted = TRUE /\ u.from = streams[s].from
        /\ u.to = streams[s].to /\ u.said = streams[s].said
    BY <2>1 DEF Stream
  <2>3. t = [u EXCEPT !.messages = 2]
    OBVIOUS
  <2> HIDE DEF u, t
  <2> QED
    BY <2>2, <2>3 DEF Stream
<1>5. p \in Process /\ p.stream = s /\ p.stage = "handshake" /\ p.loaded = process[n].loaded
  BY <1>1, Typed DEF Process
<1> HIDE DEF t, p
<1>6. /\ streams' \in [DOMAIN streams -> Stream] /\ streams'[s] = t
      /\ \A q \in DOMAIN streams : q # s => streams'[q] = streams[q]
  BY <1>1, <1>3, <1>4, Typed
<1>7. /\ streams' \in Seq(Stream) /\ Len(streams') <= MaxStreams
      /\ GrowsBy(n, streams, streams')
      /\ \A q \in DOMAIN streams' : StreamSound(streams'[q])
  BY <1>4, <1>6, ChangedStreams
<1>8. streams[s].said[n] = None
  BY <1>1 DEF PairInv, StreamSound
<1>9. ProcessSound(n, p, streams')
  BY <1>1, <1>4, <1>5, <1>6, <1>8 DEF ProcessSound
<1>10. \A d \in TrustedBy(n)' : d \in TrustedBy(n)
  BY <1>1, <1>2, <1>5, Typed DEF TrustedBy
<1> QED
  BY <1>1, <1>2, <1>5, <1>7, <1>9, <1>10, Typed, Itself DEF StepOf

\* The other end of the connection a window has.
LEMMA OwnStream ==
  ASSUME PairInv, NEW n \in Device, process[n] # None, process[n].stage # "open"
  PROVE  /\ process[n] \in Process /\ process[n].stream \in DOMAIN streams
         /\ StreamOf(n) = streams[process[n].stream] /\ StreamOf(n) \in Stream
         /\ Other(n) \in Device /\ Other(n) # n
         /\ {StreamOf(n).from, StreamOf(n).to} = {n, Other(n)}
         /\ StreamOf(n).from = n \/ (StreamOf(n).to = n /\ StreamOf(n).accepted)
         /\ process[n].stage # "waits" => StreamOf(n).said[n] = None
<1>1. ProcessSound(n, process[n], streams) /\ process[n] \in Process
  BY Typed, Itself
<1>2. process[n].stream \in DOMAIN streams /\ StreamOf(n) = streams[process[n].stream]
  BY <1>1 DEF ProcessSound, StreamOf
<1>3. /\ StreamOf(n).from = n \/ (StreamOf(n).to = n /\ StreamOf(n).accepted)
      /\ process[n].stage # "waits" => StreamOf(n).said[n] = None
  BY <1>1, <1>2 DEF ProcessSound
<1>4. StreamOf(n) \in Stream /\ StreamSound(StreamOf(n))
  BY <1>2, Typed DEF PairInv
<1>5. Other(n) \in Device /\ Other(n) # n /\ {StreamOf(n).from, StreamOf(n).to} = {n, Other(n)}
  BY <1>3, <1>4 DEF Other, Stream, StreamSound
<1> QED
  BY <1>1, <1>2, <1>3, <1>4, <1>5

LEMMA AskedStep ==
  ASSUME PairInv, NEW n \in Device, Asked(n)
  PROVE  StepOf(n)
<1> DEFINE s == process[n].stream
           p == [process[n] EXCEPT !.stage = "asked", !.stream = s]
           t == [streams[s] EXCEPT !.messages = 3]
<1>1. /\ process[n] # None /\ process[n].stage = "handshake"
      /\ UNCHANGED <<config, daemon, spent>>
  BY DEF Asked, At
<1>2. process' = [process EXCEPT ![n] = p] /\ streams' = [streams EXCEPT ![s] = t]
  BY Typed DEF Asked, Reaches
<1>3. /\ process[n] \in Process /\ s \in DOMAIN streams /\ streams[s] \in Stream
      /\ streams[s].from = n \/ (streams[s].to = n /\ streams[s].accepted)
      /\ streams[s].said[n] = None
  BY <1>1, OwnStream
<1>4. /\ t \in Stream /\ t.accepted = streams[s].accepted /\ t.from = streams[s].from
      /\ t.to = streams[s].to /\ t.said = streams[s].said
  BY <1>3 DEF Stream
<1>5. p \in Process /\ p.stream = s /\ p.stage = "asked" /\ p.loaded = process[n].loaded
  BY <1>3 DEF Process
<1> HIDE DEF t, p, s
<1>6. /\ streams' \in [DOMAIN streams -> Stream] /\ streams'[s] = t
      /\ \A q \in DOMAIN streams : q # s => streams'[q] = streams[q]
  BY <1>2, <1>3, <1>4, Typed
<1>7. /\ streams' \in Seq(Stream) /\ Len(streams') <= MaxStreams
      /\ GrowsBy(n, streams, streams')
      /\ \A q \in DOMAIN streams' : StreamSound(streams'[q])
  BY <1>4, <1>6, ChangedStreams
<1>8. ProcessSound(n, p, streams')
  BY <1>3, <1>4, <1>5, <1>6 DEF ProcessSound
<1>9. \A d \in TrustedBy(n)' : d \in TrustedBy(n)
  BY <1>1, <1>2, <1>5, Typed DEF TrustedBy
<1> QED
  BY <1>1, <1>2, <1>5, <1>7, <1>8, <1>9, Typed, Itself DEF StepOf

LEMMA AnswersStep ==
  ASSUME PairInv, NEW n \in Device, NEW answer \in {"yes", "no"}, Answers(n, answer)
  PROVE  StepOf(n)
<1> DEFINE s == process[n].stream
           p == [process[n] EXCEPT !.stage = "waits", !.stream = s]
           t == [streams[s] EXCEPT !.said = [@ EXCEPT ![n] = answer]]
<1>1. /\ process[n] # None /\ process[n].stage = "asked"
      /\ UNCHANGED <<config, daemon, spent>>
  BY DEF Answers, At
<1>2. process' = [process EXCEPT ![n] = p] /\ streams' = [streams EXCEPT ![s] = t]
  BY Typed DEF Answers, Reaches
<1>3. /\ process[n] \in Process /\ s \in DOMAIN streams /\ streams[s] \in Stream
      /\ streams[s].from = n \/ (streams[s].to = n /\ streams[s].accepted)
      /\ streams[s].said[n] = None
  BY <1>1, OwnStream
<1>4. /\ t \in Stream /\ t.accepted = streams[s].accepted /\ t.from = streams[s].from
      /\ t.to = streams[s].to
      /\ \A d \in Device : d # n => t.said[d] = streams[s].said[d]
  BY <1>3 DEF Stream
<1>5. p \in Process /\ p.stream = s /\ p.stage = "waits" /\ p.loaded = process[n].loaded
  BY <1>3 DEF Process
<1> HIDE DEF t, p, s
<1>6. /\ streams' \in [DOMAIN streams -> Stream] /\ streams'[s] = t
      /\ \A q \in DOMAIN streams : q # s => streams'[q] = streams[q]
  BY <1>2, <1>3, <1>4, Typed
<1>7. streams[s].to \in Device /\ (~t.accepted => streams[s].to # n)
  <2>1. StreamSound(streams[s])
    BY <1>3 DEF PairInv
  <2> QED
    BY <1>3, <1>4, <2>1 DEF StreamSound, Stream
<1>8. /\ streams' \in Seq(Stream) /\ Len(streams') <= MaxStreams
      /\ GrowsBy(n, streams, streams')
      /\ \A q \in DOMAIN streams' : StreamSound(streams'[q])
  BY <1>3, <1>4, <1>6, <1>7, ChangedStreams
<1>9. ProcessSound(n, p, streams')
  BY <1>3, <1>4, <1>5, <1>6 DEF ProcessSound
<1>10. \A d \in TrustedBy(n)' : d \in TrustedBy(n)
  BY <1>1, <1>2, <1>5, Typed DEF TrustedBy
<1> QED
  BY <1>1, <1>2, <1>5, <1>8, <1>9, <1>10, Typed, Itself DEF StepOf

\* The other's answer was there: if both are yes, the new peer is confirmed.
LEMMA CompletesStep ==
  ASSUME PairInv, NEW n \in Device, Completes(n)
  PROVE  StepOf(n)
<1> DEFINE s == process[n].stream
           t == [streams[s] EXCEPT !.closed = @ \cup {n}]
           saved == [process[n].loaded EXCEPT !.peers = @ \cup {Other(n)}]
           c == IF Agreed(n) THEN saved ELSE config[n]
<1>1. process[n] # None /\ process[n].stage = "waits" /\ UNCHANGED <<daemon, spent>>
  BY DEF Completes, At
<1>2. process' = [process EXCEPT ![n] = None] /\ streams' = [streams EXCEPT ![s] = t]
  BY DEF Completes
<1>3. config' = [config EXCEPT ![n] = c]
  BY Itself DEF Completes
<1>4. /\ process[n] \in Process /\ s \in DOMAIN streams /\ streams[s] \in Stream
      /\ StreamOf(n) = streams[s] /\ Other(n) \in Device
      /\ {streams[s].from, streams[s].to} = {n, Other(n)}
  BY <1>1, OwnStream
<1>5. /\ t \in Stream /\ t.accepted = streams[s].accepted /\ t.from = streams[s].from
      /\ t.to = streams[s].to /\ t.said = streams[s].said
  BY <1>4 DEF Stream
<1>6. saved \in Config /\ saved.peers = process[n].loaded.peers \cup {Other(n)}
  BY <1>4 DEF Process, Config
<1> HIDE DEF saved
<1>7. c \in Config
  BY <1>6, Itself
<1>8. c = config[n] \/ (Agreed(n) /\ c = saved)
  OBVIOUS
<1> HIDE DEF t, s, c
<1>9. /\ streams' \in [DOMAIN streams -> Stream] /\ streams'[s] = t
      /\ \A q \in DOMAIN streams : q # s => streams'[q] = streams[q]
  BY <1>2, <1>4, <1>5, Typed
<1>10. /\ streams' \in Seq(Stream) /\ Len(streams') <= MaxStreams
       /\ GrowsBy(n, streams, streams')
       /\ \A q \in DOMAIN streams' : StreamSound(streams'[q])
  BY <1>5, <1>9, ChangedStreams
<1>11. ProcessSound(n, None, streams')
  BY DEF ProcessSound
<1>12. Agreed(n) => ConfirmedIn(streams', n, Other(n))
  BY <1>4, <1>5, <1>9 DEF Agreed, ConfirmedIn
<1>13. ASSUME NEW m \in TrustedBy(n)'
       PROVE  m \in TrustedBy(n) \/ ConfirmedIn(streams', n, m)
  <2>1. process'[n] = None /\ daemon'[n] = daemon[n] /\ config'[n] = c
    BY <1>1, <1>2, <1>3, Typed
  <2>2. m \in c.peers \/ m \in (IF daemon[n] = None THEN {} ELSE daemon[n].peers)
    BY <2>1 DEF TrustedBy
  <2>3. CASE m \in c.peers /\ Agreed(n) /\ c = saved
    BY <1>1, <1>6, <1>12, <2>3 DEF TrustedBy
  <2> QED
    BY <1>8, <2>2, <2>3 DEF TrustedBy
<1> QED
  BY <1>1, <1>2, <1>3, <1>7, <1>10, <1>11, <1>13, Typed, Itself DEF StepOf

\* A window that closes says nothing any more.
LEMMA EndsStep ==
  ASSUME PairInv, NEW n \in Device, Fails(n) \/ GivesUp(n)
  PROVE  StepOf(n)
<1> DEFINE Closes(s) == s = process[n].stream \/ (streams[s].to = n /\ ~streams[s].accepted)
           closed(s) == [streams[s] EXCEPT
                           !.closed = @ \cup {n},
                           !.gaveUp = IF streams[s].said[n] # None THEN @ \cup {n} ELSE @]
<1>1. Ends(n) /\ UNCHANGED <<config, daemon, spent>>
  BY DEF Fails, GivesUp
<1>2. /\ process' = [process EXCEPT ![n] = None]
      /\ streams' = [s \in DOMAIN streams |-> IF Closes(s) THEN closed(s) ELSE streams[s]]
  BY <1>1 DEF Ends
<1>3. ASSUME NEW s \in DOMAIN streams
      PROVE  /\ closed(s) \in Stream /\ closed(s).from = streams[s].from
             /\ closed(s).to = streams[s].to /\ closed(s).accepted = streams[s].accepted
             /\ closed(s).said = streams[s].said
  <2>1. streams[s] \in Stream
    BY Typed
  <2> QED
    BY <2>1 DEF Stream
<1> HIDE DEF Closes, closed
<1>4. /\ streams' \in [DOMAIN streams -> Stream]
      /\ \A s \in DOMAIN streams : streams'[s] = closed(s) \/ streams'[s] = streams[s]
  BY <1>2, <1>3, Typed
<1>5. ASSUME NEW s \in DOMAIN streams
      PROVE  /\ streams'[s].from = streams[s].from /\ streams'[s].to = streams[s].to
             /\ streams'[s].accepted = streams[s].accepted /\ streams'[s].said = streams[s].said
  BY <1>3, <1>4
<1>6. /\ streams' \in Seq(Stream) /\ Len(streams') <= MaxStreams
      /\ GrowsBy(n, streams, streams')
      /\ \A q \in DOMAIN streams' : StreamSound(streams'[q])
  BY <1>4, <1>5, ChangedStreams
<1>7. ProcessSound(n, None, streams')
  BY DEF ProcessSound
<1>8. \A m \in TrustedBy(n)' : m \in TrustedBy(n)
  BY <1>1, <1>2, Typed DEF TrustedBy
<1> QED
  BY <1>1, <1>2, <1>6, <1>7, <1>8, Typed, Itself DEF StepOf

----------------------------------------------------------------------------
(* The theorems *)

LEMMA PairInit == Init => PairInv
<1> SUFFICES ASSUME Init PROVE PairInv
  OBVIOUS
<1>1. streams = <<>> /\ streams \in Seq(Stream) /\ Len(streams) = 0 /\ DOMAIN streams = {}
  BY EmptySeq, LenProperties DEF Init
<1>2. TypeOK
  BY <1>1, MaxStreamsAssumption DEF Init, TypeOK, Config
<1>3. \A n \in Device : ProcessSound(n, process[n], streams) /\ TrustedBy(n) = {}
  BY DEF Init, ProcessSound, TrustedBy
<1> QED
  BY <1>1, <1>2, <1>3 DEF PairInv

LEMMA PairStep == PairInv /\ [Next]_vars => PairInv'
<1> SUFFICES ASSUME PairInv, [Next]_vars PROVE PairInv'
  OBVIOUS
<1>1. CASE UNCHANGED vars
  BY <1>1 DEF vars, PairInv, TypeOK, TrustedBy
<1>2. ASSUME NEW n \in Device, Pair(n) \/ Daemon(n)
      PROVE  StepOf(n)
  BY <1>2, OpenStep, ConnectStep, AcceptStep, AskedStep, AnswersStep, CompletesStep, EndsStep,
     DaemonStep DEF Pair
<1> QED
  BY <1>1, <1>2, StepSound DEF Next

THEOREM TrustIsConfirmed == Spec => []PairInv
BY PairInit, PairStep, PTL DEF Spec

\* config.json, the windows, the daemons' copies and the connections have their types.
THEOREM TypeCorrect == Spec => []TypeOK
<1>1. PairInv => TypeOK
  BY DEF PairInv
<1> QED
  BY <1>1, TrustIsConfirmed, PTL

\* Whom a device trusts was confirmed by both users, over one connection.
THEOREM TrustedWereConfirmed == Spec => []PairedByBoth
<1>1. PairInv => PairedByBoth
  <2> SUFFICES ASSUME PairInv, NEW n \in Device, NEW m \in config[n].peers
               PROVE  \E s \in Between(n, m) :
                        streams[s].said[n] = "yes" /\ streams[s].said[m] = "yes"
    BY DEF PairedByBoth
  <2>1. ConfirmedIn(streams, n, m)
    BY DEF PairInv, TrustedBy
  <2> QED
    BY <2>1 DEF ConfirmedIn, Between
<1> QED
  BY <1>1, TrustIsConfirmed, PTL

----------------------------------------------------------------------------
(* Mutual trust *)

\* n waits for the other's answer in s, went away having given its own, or has
\* heard the other's and saved it if both agree.
Settled(n, m, s) ==
  \/ process[n] # None /\ process[n].stage = "waits" /\ process[n].stream = s
  \/ n \in streams[s].gaveUp
  \/ /\ streams[s].said[m] # None
     /\ streams[s].said[n] = "yes" /\ streams[s].said[m] = "yes" => m \in config[n].peers

\* Unless a daemon ran, which would save a copy of its own, a window that saves
\* adds to what is there; and who has answered has settled.
MutualInv ==
  spent["daemon"] = 0 =>
    /\ \A n \in Device :
         /\ daemon[n] = None
         /\ process[n] # None => process[n].loaded.peers = config[n].peers
    /\ \A n, m \in Device : \A s \in Between(n, m) :
         streams[s].said[n] # None => Settled(n, m, s)

\* What the step of n does to what others have settled.
AddsBy(n) ==
  /\ daemon' = daemon
  /\ config[n].peers \subseteq config'[n].peers
  /\ process'[n] # None => process'[n].loaded.peers = config'[n].peers
  /\ \A s \in DOMAIN streams : streams[s].gaveUp \subseteq streams'[s].gaveUp
  /\ \A s \in DOMAIN streams' \ DOMAIN streams : \A d \in Device : streams'[s].said[d] = None

LEMMA SettledStep ==
  ASSUME PairInv, MutualInv, NEW n \in Device, StepOf(n), AddsBy(n), spent["daemon"] = 0,
         \A m \in Device, s \in DOMAIN streams :
           {streams[s].from, streams[s].to} = {n, m} /\ streams'[s].said[n] # None
             => Settled(n, m, s)'
  PROVE  MutualInv'
<1>1. /\ config \in [Device -> Config] /\ process \in [Device -> Process \cup {None}]
      /\ daemon \in [Device -> Config \cup {None}]
  BY Typed
<1>2. ASSUME NEW d \in Device, d # n
      PROVE  config'[d] = config[d] /\ process'[d] = process[d]
  BY <1>1, <1>2 DEF StepOf
<1>3. ASSUME NEW d \in Device
      PROVE  /\ daemon'[d] = None
             /\ process'[d] # None => process'[d].loaded.peers = config'[d].peers
  BY <1>2 DEF MutualInv, AddsBy
<1>4. ASSUME NEW d \in Device, NEW m \in Device, NEW s \in Between(d, m)',
             streams'[s].said[d] # None
      PROVE  Settled(d, m, s)'
  <2>1. s \in DOMAIN streams
    BY <1>4 DEF AddsBy, Between
  <2>2. /\ streams'[s].from = streams[s].from /\ streams'[s].to = streams[s].to
        /\ \A c \in Device :
             c # n \/ streams[s].said[c] # None => streams'[s].said[c] = streams[s].said[c]
    BY <2>1 DEF StepOf, GrowsBy
  <2>3. {streams[s].from, streams[s].to} = {d, m}
    BY <1>4, <2>2 DEF Between
  <2>4. CASE d = n
    BY <1>4, <2>1, <2>3, <2>4
  <2>5. CASE d # n
    <3>1. streams'[s].said[d] = streams[s].said[d]
      BY <2>2, <2>5
    <3>2. s \in Between(d, m)
      BY <2>1, <2>3 DEF Between
    <3>3. Settled(d, m, s)
      BY <1>4, <3>1, <3>2 DEF MutualInv
    <3>4. streams[s].gaveUp \subseteq streams'[s].gaveUp
      BY <2>1 DEF AddsBy
    <3> QED
      BY <1>2, <2>2, <2>5, <3>1, <3>3, <3>4 DEF Settled
  <2> QED
    BY <2>4, <2>5
<1> QED
  BY <1>3, <1>4 DEF MutualInv

\* What n had settled stays so, unless it was waiting.
LEMMA StaysSettled ==
  ASSUME PairInv, MutualInv, NEW n \in Device, StepOf(n), AddsBy(n), spent["daemon"] = 0,
         NEW m \in Device, NEW s \in DOMAIN streams,
         {streams[s].from, streams[s].to} = {n, m},
         process[n] # None /\ process[n].stage = "waits" => process[n].stream # s,
         streams'[s].said[n] = streams[s].said[n], streams[s].said[n] # None
  PROVE  Settled(n, m, s)'
<1>1. s \in Between(n, m)
  BY DEF Between
<1>2. Settled(n, m, s)
  BY <1>1 DEF MutualInv
<1>3. m # n
  BY DEF PairInv, StreamSound
<1>4. streams'[s].said[m] = streams[s].said[m]
  BY <1>3 DEF StepOf, GrowsBy
<1> QED
  BY <1>2, <1>4 DEF Settled, AddsBy

\* Each step of a window settles what its user has said; without daemons nothing
\* else is done.
LEMMA MutualStep == PairInv /\ MutualInv /\ [Next]_vars => MutualInv'
<1> SUFFICES ASSUME PairInv, MutualInv, [Next]_vars, spent'["daemon"] = 0
             PROVE  MutualInv'
  BY DEF MutualInv
<1>1. CASE UNCHANGED vars
  BY <1>1 DEF vars, MutualInv, Between, Settled
<1>2. ASSUME NEW n \in Device, Pair(n) \/ Daemon(n)
      PROVE  MutualInv'
  <2>1. StepOf(n)
    BY <1>2, OpenStep, ConnectStep, AcceptStep, AskedStep, AnswersStep, CompletesStep, EndsStep,
       DaemonStep DEF Pair
  <2>2. spent \in [UserKind -> Nat] /\ "daemon" \in UserKind
    BY Typed DEF UserKind
  <2>3. spent["daemon"] = 0
    <3>1. ASSUME NEW kind \in UserKind, Spend(kind)
          PROVE  spent["daemon"] = 0
      BY <2>2, <3>1 DEF Spend
    <3>2. CASE UNCHANGED spent
      BY <3>2
    <3> QED
      BY <1>2, <3>1, <3>2 DEF Pair, Open, Connect, Accept, Asked, Answers, Completes, Fails,
         GivesUp, Daemon, DaemonStarts, DaemonStops, Copies, Unpair, DaemonSaves, UserKind
  <2>4. daemon[n] = None /\ (process[n] # None => process[n].loaded.peers = config[n].peers)
    BY <2>3 DEF MutualInv
  <2>5. ~Daemon(n)
    BY <2>2, <2>4 DEF Daemon, DaemonStarts, DaemonStops, Copies, Unpair, Spend
  <2> DEFINE Waiting(s) == /\ process[n] # None /\ process[n].stage = "waits"
                           /\ process[n].stream = s
  <2>6. ASSUME AddsBy(n),
               \A m \in Device, s \in DOMAIN streams :
                 /\ {streams[s].from, streams[s].to} = {n, m}
                 /\ streams'[s].said[n] # None
                 /\ Waiting(s) \/ streams'[s].said[n] # streams[s].said[n]
                 => Settled(n, m, s)'
        PROVE  MutualInv'
    <3>1. ASSUME NEW m \in Device, NEW s \in DOMAIN streams,
                 {streams[s].from, streams[s].to} = {n, m}, streams'[s].said[n] # None
          PROVE  Settled(n, m, s)'
      <4>1. CASE Waiting(s) \/ streams'[s].said[n] # streams[s].said[n]
        BY <2>6, <3>1, <4>1
      <4>2. CASE ~Waiting(s) /\ streams'[s].said[n] = streams[s].said[n]
        BY <2>1, <2>3, <2>6, <3>1, <4>2, StaysSettled
      <4> QED
        BY <4>1, <4>2
    <3> QED
      BY <2>1, <2>3, <2>6, <3>1, SettledStep
  \* A window opens, finds or takes a connection, or is asked: nothing is said.
  <2>7. CASE Open(n)
    <3>1. UNCHANGED <<config, daemon, streams>> /\ process[n] = None
      BY <2>7 DEF Open
    <3>2. process'[n].loaded = config[n]
      BY <2>7, Typed DEF Open
    <3>3. AddsBy(n)
      BY <2>3, <3>1, <3>2 DEF AddsBy
    <3> QED
      BY <2>6, <3>1, <3>3
  <2>8. CASE \E m \in Device : Connect(n, m)
    <3>1. PICK m \in Device : Connect(n, m)
      BY <2>8
    <3> DEFINE new == [from |-> n, to |-> m, accepted |-> FALSE, messages |-> 1,
                       said |-> [d \in Device |-> None], closed |-> {}, gaveUp |-> {}]
    <3>2. /\ UNCHANGED <<config, daemon, spent>> /\ process[n] # None /\ process[n].stage # "waits"
          /\ streams' = Append(streams, new)
      BY <3>1 DEF Connect, At
    <3>3. process'[n].loaded = process[n].loaded
      BY <3>1, <3>2, Typed DEF Connect, Reaches, Process
    <3>4. new \in Stream /\ \A d \in Device : new.said[d] = None
      BY DEF Stream
    <3> HIDE DEF new
    <3>5. /\ \A s \in DOMAIN streams : streams'[s] = streams[s]
          /\ \A s \in DOMAIN streams' \ DOMAIN streams : streams'[s] = new
      BY <3>2, <3>4, Typed, AppendProperties, LenProperties
    <3>6. AddsBy(n)
      BY <2>4, <3>2, <3>3, <3>4, <3>5 DEF AddsBy
    <3> QED
      BY <2>6, <3>2, <3>5, <3>6
  <2>9. CASE \E s \in 1..MaxStreams : Accept(n, s)
    <3>1. PICK s \in 1..MaxStreams : Accept(n, s)
      BY <2>9
    <3>2. /\ UNCHANGED <<config, daemon, spent>> /\ process[n] # None /\ process[n].stage # "waits"
          /\ streams' = [streams EXCEPT ![s].accepted = TRUE, ![s].messages = 2]
      BY <3>1 DEF Accept, At
    <3>3. process'[n].loaded = process[n].loaded
      BY <3>1, <3>2, Typed DEF Accept, Reaches, Process
    <3>4. /\ DOMAIN streams' = DOMAIN streams
          /\ \A q \in DOMAIN streams : /\ streams'[q].said = streams[q].said
                                       /\ streams'[q].gaveUp = streams[q].gaveUp
      BY <3>2, Typed DEF Stream
    <3>5. AddsBy(n)
      BY <2>4, <3>2, <3>3, <3>4 DEF AddsBy
    <3> QED
      BY <2>6, <3>2, <3>4, <3>5
  <2>10. CASE Asked(n)
    <3>1. /\ UNCHANGED <<config, daemon, spent>> /\ process[n] # None /\ process[n].stage # "waits"
          /\ streams' = [streams EXCEPT ![process[n].stream].messages = 3]
      BY <2>10 DEF Asked, At
    <3>2. process'[n].loaded = process[n].loaded
      BY <2>10, <3>1, Typed DEF Asked, Reaches, Process
    <3>3. /\ DOMAIN streams' = DOMAIN streams
          /\ \A q \in DOMAIN streams : /\ streams'[q].said = streams[q].said
                                       /\ streams'[q].gaveUp = streams[q].gaveUp
      BY <3>1, Typed DEF Stream
    <3>4. AddsBy(n)
      BY <2>4, <3>1, <3>2, <3>3 DEF AddsBy
    <3> QED
      BY <2>6, <3>1, <3>3, <3>4
  \* An answer is given in the stream in which the other's is waited for then.
  <2>11. CASE \E answer \in {"yes", "no"} : Answers(n, answer)
    <3>1. PICK answer \in {"yes", "no"} : Answers(n, answer)
      BY <2>11
    <3>2. /\ UNCHANGED <<config, daemon, spent>> /\ process[n] # None /\ process[n].stage # "waits"
          /\ streams' = [streams EXCEPT ![process[n].stream].said[n] = answer]
          /\ process[n].stage # "open"
      BY <3>1 DEF Answers, At
    <3>3. /\ process'[n].loaded = process[n].loaded /\ process'[n].stage = "waits"
          /\ process'[n].stream = process[n].stream /\ process'[n] # None
      <4>1. process[n] \in Process
        BY <3>2, OwnStream
      <4>2. process' = [process EXCEPT ![n] =
                          [process[n] EXCEPT !.stage = "waits", !.stream = process[n].stream]]
        BY <3>1, Typed DEF Answers, Reaches
      <4>3. process'[n] \in Process
        BY <4>1, <4>2, Typed DEF Process
      <4> QED
        BY <4>1, <4>2, <4>3, Typed, NoProcessAssumption DEF Process
    <3>4. /\ DOMAIN streams' = DOMAIN streams
          /\ \A q \in DOMAIN streams : /\ q # process[n].stream => streams'[q] = streams[q]
                                       /\ streams'[q].gaveUp = streams[q].gaveUp
      BY <3>2, Typed DEF Stream
    <3>5. AddsBy(n)
      BY <2>4, <3>2, <3>3, <3>4 DEF AddsBy
    <3>6. ASSUME NEW m \in Device, NEW s \in DOMAIN streams,
                 streams'[s].said[n] # streams[s].said[n]
          PROVE  Settled(n, m, s)'
      BY <3>3, <3>4, <3>6 DEF Settled
    <3>7. ~\E s \in DOMAIN streams : Waiting(s)
      BY <3>2
    <3> HIDE DEF Waiting
    <3> QED
      BY <2>6, <3>5, <3>6, <3>7
  \* The other's answer was there, and is kept with one's own.
  <2>12. CASE Completes(n)
    <3>1. /\ UNCHANGED <<daemon, spent>> /\ process[n] # None /\ process[n].stage = "waits"
          /\ process' = [process EXCEPT ![n] = None]
          /\ streams' = [streams EXCEPT ![process[n].stream].closed = @ \cup {n}]
          /\ StreamOf(n).said[Other(n)] # None
          /\ config' = IF Agreed(n)
                       THEN [config EXCEPT ![n] = [process[n].loaded EXCEPT !.peers = @ \cup {Other(n)}]]
                       ELSE config
      BY <2>12 DEF Completes, At
    <3>2. /\ process[n] \in Process /\ StreamOf(n) = streams[process[n].stream]
          /\ {StreamOf(n).from, StreamOf(n).to} = {n, Other(n)} /\ Other(n) # n
      BY <3>1, OwnStream
    <3>3. process'[n] = None
      BY <3>1, Typed
    <3>4. /\ DOMAIN streams' = DOMAIN streams
          /\ \A q \in DOMAIN streams : /\ streams'[q].said = streams[q].said
                                       /\ streams'[q].gaveUp = streams[q].gaveUp
      BY <3>1, Typed DEF Stream
    <3>5. /\ config[n].peers \subseteq config'[n].peers
          /\ Agreed(n) => Other(n) \in config'[n].peers
      BY <2>4, <3>1, <3>2, Typed DEF Config, Process
    <3>6. AddsBy(n)
      BY <3>1, <3>3, <3>4, <3>5 DEF AddsBy
    <3>7. ASSUME NEW m \in Device, NEW s \in DOMAIN streams,
                 {streams[s].from, streams[s].to} = {n, m}, Waiting(s)
          PROVE  Settled(n, m, s)'
      <4>1. m = Other(n) /\ StreamOf(n) = streams[s]
        BY <3>2, <3>7
      <4> QED
        BY <3>1, <3>4, <3>5, <4>1 DEF Settled, Agreed
    <3> QED
      BY <2>6, <3>4, <3>6, <3>7
  \* Who goes away is counted, if it has answered.
  <2>13. CASE Fails(n) \/ GivesUp(n)
    <3>1. Ends(n) /\ UNCHANGED <<config, daemon, spent>>
      BY <2>13 DEF Fails, GivesUp
    <3>2. process'[n] = None /\ DOMAIN streams' = DOMAIN streams
      BY <3>1, Typed DEF Ends
    <3>3. ASSUME NEW s \in DOMAIN streams
          PROVE  /\ streams'[s].said = streams[s].said
                 /\ streams[s].gaveUp \subseteq streams'[s].gaveUp
                 /\ Waiting(s) /\ streams[s].said[n] # None => n \in streams'[s].gaveUp
      BY <3>1, Typed DEF Ends, Stream
    <3>4. AddsBy(n)
      BY <3>1, <3>2, <3>3 DEF AddsBy
    <3>5. ASSUME NEW m \in Device, NEW s \in DOMAIN streams, Waiting(s),
                 streams'[s].said[n] # None
          PROVE  Settled(n, m, s)'
      BY <3>3, <3>5 DEF Settled
    <3> QED
      BY <2>6, <3>3, <3>4, <3>5
  <2> QED
    BY <1>2, <2>5, <2>7, <2>8, <2>9, <2>10, <2>11, <2>12, <2>13 DEF Pair
<1> QED
  BY <1>1, <1>2 DEF Next

\* Trust is mutual once both windows are closed, unless the other gave up having
\* said yes, or a daemon ran beside a window.
THEOREM PairedTrustEachOther == Spec => []TrustIsMutual
<1>1. Init => MutualInv
  BY DEF Init, MutualInv, Between
<1>2. PairInv /\ MutualInv => TrustIsMutual
  <2> SUFFICES ASSUME PairInv, MutualInv, NEW n \in Device, NEW m \in Device,
                      m \in config[n].peers, process[n] = None, process[m] = None,
                      spent["daemon"] <= 0
               PROVE  \/ n \in config[m].peers
                      \/ \E s \in Between(n, m) : m \in streams[s].gaveUp
    BY Typed DEF TrustIsMutual, UserKind
  <2>1. spent["daemon"] = 0
    BY Typed DEF UserKind
  <2>2. PICK s \in DOMAIN streams :
          /\ {streams[s].from, streams[s].to} = {n, m}
          /\ streams[s].said[n] = "yes" /\ streams[s].said[m] = "yes"
    BY DEF PairInv, TrustedBy, ConfirmedIn
  <2>3. s \in Between(n, m) /\ s \in Between(m, n)
    BY <2>2 DEF Between
  <2>4. Settled(m, n, s)
    BY <2>1, <2>2, <2>3, NoneAssumption DEF MutualInv
  <2> QED
    BY <2>2, <2>3, <2>4 DEF Settled
<1> QED
  BY <1>1, <1>2, MutualStep, TrustIsConfirmed, PTL DEF Spec

=============================================================================
