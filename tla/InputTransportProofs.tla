------------------------- MODULE InputTransportProofs -------------------------
(***************************************************************************)
(* Proofs about InputTransport: for every size of the replay window and of *)
(* the queue, and however datagrams are lost, repeated and reordered and   *)
(* processes start again, no message is handed over twice while a session  *)
(* lasts, nothing waits for a session that is there, and, as long as no    *)
(* session ends, nothing is refused but duplicates and what comes when the *)
(* window has moved past it.                                               *)
(*                                                                         *)
(* The window tells sequence numbers apart, not messages.  So the          *)
(* invariant has to say that a message has one number: it is sent once, by *)
(* the handler that took it from the loop or by the one that flushed the   *)
(* queue, and what waits in the queue has not been sent.  Then a message   *)
(* that was handed over is on its way only under a number the window       *)
(* refuses, whatever moved the window on since.  That nothing else is      *)
(* refused needs the converse: a number is given to one message, and what  *)
(* the window marks was handed over (see "What is refused").               *)
(***************************************************************************)
EXTENDS InputTransport, SequenceTheorems, TLAPS

Typed == TypeOK /\ sessions \in [Device -> Session \cup {None}]

IsData(x, d) == x.kind = "data" /\ x.from = d

\* Messages are numbered as they are sent.
Numbered ==
  /\ \A x \in net : x.kind = "data" => x.message <= spent["send"]
  /\ \A d \in Device : \A m \in handed[d] : m <= spent["send"]
  /\ \A d \in Device : \A i \in 1..Len(pending[d]) : pending[d][i] <= spent["send"]

\* What waits is there once, and has not been sent.
Waits ==
  \A d \in Device : \A i \in 1..Len(pending[d]) :
    /\ pending[d][i] \notin handed[Peer(d)]
    /\ \A x \in net : IsData(x, d) => x.message # pending[d][i]
    /\ \A j \in 1..Len(pending[d]) : pending[d][i] = pending[d][j] => i = j

\* A message is sent under one number.
SentOnce ==
  \A d \in Device : \A x, y \in net :
    IsData(x, d) /\ IsData(y, d) /\ x.message = y.message => x.sequence = y.sequence

\* The window refuses what has been handed over.
Refuses ==
  \A d \in Device : \A x \in net :
    IsData(x, Peer(d)) /\ x.message \in handed[d] => ~Accepts(sessions[d], x.sequence)

WindowInv == Typed /\ Numbered /\ Waits /\ SentOnce /\ Refuses /\ PendingOnlyWithoutSession

----------------------------------------------------------------------------
(* Steps, by what they do to the messages *)

\* A message that is sent in this step for the first time: the next one, or one
\* that waited and does not any more.
Fresh(d, m) ==
  \/ m = spent["send"] + 1 /\ spent'["send"] = m
  \/ \E i \in 1..Len(pending[d]) : m = pending[d][i] /\ pending'[d] = <<>>

SessionKept(d) ==
  \/ handed'[d] = {}
  \/ /\ handed'[d] = handed[d]
     /\ \A n \in Nat : Accepts(sessions'[d], n) => Accepts(sessions[d], n)

LEMMA PeerOfPeer ==
  ASSUME NEW d \in Device
  PROVE  Peer(d) \in Device /\ Peer(Peer(d)) = d /\ Peer(d) # d
BY DEF Device, Peer

LEMMA TypedFacts ==
  ASSUME Typed
  PROVE  /\ spent["send"] \in Nat /\ spent["fail"] \in Nat
         /\ \A x \in net : x \in Hello \/ x \in Data
         /\ \A x \in net : x.kind = "data" => x \in Data /\ x.message \in Nat /\ x.sequence \in Nat
         /\ \A d \in Device : pending[d] \in Seq(Nat) /\ Len(pending[d]) \in Nat
         /\ \A d \in Device : \A i \in 1..Len(pending[d]) : pending[d][i] \in Nat
         /\ \A d \in Device : handed[d] \subseteq Nat
<1>1. spent["send"] \in Nat /\ spent["fail"] \in Nat
  BY DEF Typed, TypeOK, EnvironmentKind
<1>2. \A x \in net : x \in Hello \/ x \in Data
  BY DEF Typed, TypeOK
<1>3. \A x \in net : x.kind = "data" => x \in Data /\ x.message \in Nat /\ x.sequence \in Nat
  BY <1>2 DEF Hello, Data
<1>4. \A d \in Device : pending[d] \in Seq(Nat) /\ handed[d] \subseteq Nat
  BY DEF Typed, TypeOK
<1>5. ASSUME NEW d \in Device
      PROVE  Len(pending[d]) \in Nat /\ \A i \in 1..Len(pending[d]) : pending[d][i] \in Nat
  BY <1>4, ElementOfSeq, LenProperties
<1> QED
  BY <1>1, <1>2, <1>3, <1>4, <1>5

LEMMA FreshIs ==
  ASSUME WindowInv, NEW d \in Device, NEW m, Fresh(d, m)
  PROVE  /\ m \notin handed[Peer(d)]
         /\ \A x \in net : IsData(x, d) => x.message # m
<1>1. CASE m = spent["send"] + 1 /\ spent'["send"] = m
  <2>1. ~(spent["send"] + 1 <= spent["send"])
    BY TypedFacts DEF WindowInv
  <2> QED
    BY <1>1, <2>1, PeerOfPeer DEF WindowInv, Numbered, IsData
<1>2. CASE \E i \in 1..Len(pending[d]) : m = pending[d][i] /\ pending'[d] = <<>>
  BY <1>2 DEF WindowInv, Waits
<1> QED
  BY <1>1, <1>2 DEF Fresh

\* Data of one device is sent, or none; sessions stay as they are or end.
LEMMA SendsStep ==
  ASSUME WindowInv, NEW d \in Device, NEW sent,
         \A x \in sent : x \in Data /\ x.from = d /\ Fresh(d, x.message),
         \A x, y \in sent : x.message = y.message => x.sequence = y.sequence,
         \A x \in net' : x \in net \/ x \in Hello \/ x \in sent,
         \A e \in Device : SessionKept(e) /\ (pending'[e] = pending[e] \/ pending'[e] = <<>>),
         spent'["send"] \in Nat, spent'["send"] >= spent["send"]
  PROVE  Numbered' /\ Waits' /\ SentOnce' /\ Refuses'
<1>1. /\ Numbered /\ Waits /\ SentOnce /\ Refuses /\ Typed
  BY DEF WindowInv
<1>2. \A x \in Hello : x.kind # "data"
  BY DEF Hello
<1>3. \A x \in sent : x.kind = "data" /\ IsData(x, d) /\ x.message \in Nat /\ x.sequence \in Nat
  BY DEF Data, IsData
<1>4. \A x \in sent : /\ x.message \notin handed[Peer(d)]
                      /\ \A y \in net : IsData(y, d) => y.message # x.message
  BY FreshIs
<1>5. \A e \in Device : handed'[e] \subseteq handed[e]
  BY DEF SessionKept
<1>6. \A e \in Device : Len(pending'[e]) = 0 \/ pending'[e] = pending[e]
  OBVIOUS
<1>7. Numbered'
  <2>1. ASSUME NEW x \in net', x.kind = "data" PROVE x.message <= spent'["send"]
    <3>1. CASE x \in net
      BY <1>1, <2>1, <3>1, TypedFacts DEF Numbered
    <3>2. CASE x \in sent
      <4>1. CASE x.message = spent["send"] + 1 /\ spent'["send"] = x.message
        BY <4>1
      <4>2. CASE \E i \in 1..Len(pending[d]) : x.message = pending[d][i]
        BY <1>1, <4>2, TypedFacts DEF Numbered
      <4> QED
        BY <3>2, <4>1, <4>2 DEF Fresh
    <3> QED
      BY <1>2, <2>1, <3>1, <3>2
  <2>2. \A e \in Device : \A m \in handed'[e] : m <= spent'["send"]
    BY <1>1, <1>5, TypedFacts DEF Numbered
  <2>3. \A e \in Device : \A i \in 1..Len(pending'[e]) : pending'[e][i] <= spent'["send"]
    BY <1>1, <1>6, TypedFacts DEF Numbered
  <2> QED
    BY <2>1, <2>2, <2>3 DEF Numbered
<1>8. Waits'
  <2> SUFFICES ASSUME NEW e \in Device, NEW i \in 1..Len(pending'[e])
               PROVE  /\ pending'[e][i] \notin handed'[Peer(e)]
                      /\ \A x \in net' : IsData(x, e) => x.message # pending'[e][i]
                      /\ \A j \in 1..Len(pending'[e]) : pending'[e][i] = pending'[e][j] => i = j
    BY DEF Waits
  <2>1. pending'[e] = pending[e] /\ i \in 1..Len(pending[e])
    BY <1>6
  <2>2. pending'[e][i] \notin handed'[Peer(e)]
    BY <1>1, <1>5, <2>1, PeerOfPeer DEF Waits
  <2>3. ASSUME NEW x \in net', IsData(x, e) PROVE x.message # pending'[e][i]
    <3>1. CASE x \in net
      BY <1>1, <2>1, <2>3, <3>1 DEF Waits
    <3>2. CASE x \in sent
      <4>1. e = d
        BY <2>3, <3>2 DEF IsData
      <4>2. CASE x.message = spent["send"] + 1
        BY <1>1, <2>1, <4>2, TypedFacts DEF Numbered
      <4>3. CASE pending'[d] = <<>>
        BY <1>6, <2>1, <4>1, <4>3, EmptySeq, LenProperties
      <4> QED
        BY <3>2, <4>2, <4>3 DEF Fresh
    <3> QED
      BY <1>2, <2>3, <3>1, <3>2 DEF IsData
  <2>4. \A j \in 1..Len(pending'[e]) : pending'[e][i] = pending'[e][j] => i = j
    BY <1>1, <2>1 DEF Waits
  <2> QED
    BY <2>2, <2>3, <2>4
<1>9. SentOnce'
  <2> SUFFICES ASSUME NEW e \in Device, NEW x \in net', NEW y \in net',
                      IsData(x, e), IsData(y, e), x.message = y.message
               PROVE  x.sequence = y.sequence
    BY DEF SentOnce
  <2>1. (x \in net \/ x \in sent) /\ (y \in net \/ y \in sent)
    BY <1>2 DEF IsData
  <2>2. x \in sent \/ y \in sent => e = d
    BY DEF IsData
  <2> QED
    BY <1>1, <1>4, <2>1, <2>2 DEF SentOnce
<1>10. Refuses'
  <2> SUFFICES ASSUME NEW e \in Device, NEW x \in net', IsData(x, Peer(e)), x.message \in handed'[e]
               PROVE  ~Accepts(sessions'[e], x.sequence)
    BY DEF Refuses
  <2>1. /\ handed'[e] = handed[e]
        /\ \A n \in Nat : Accepts(sessions'[e], n) => Accepts(sessions[e], n)
    BY DEF SessionKept
  <2>2. x \in net
    <3>1. x \in sent => Peer(e) = d /\ Peer(d) = e
      BY PeerOfPeer DEF IsData
    <3> QED
      BY <1>2, <1>4, <2>1, <3>1 DEF IsData
  <2>3. x.sequence \in Nat
    BY <1>1, <2>2, TypedFacts DEF IsData
  <2> QED
    BY <1>1, <2>1, <2>2, <2>3 DEF Refuses
<1> QED
  BY <1>7, <1>8, <1>9, <1>10

----------------------------------------------------------------------------
(* What the handlers are made of *)

LEMMA SpendGrows ==
  ASSUME Typed, NEW kinds, UNCHANGED spent \/ Spend(kinds)
  PROVE  /\ spent' \in [EnvironmentKind -> Nat]
         /\ spent'["send"] \in Nat /\ spent'["send"] >= spent["send"]
         /\ spent'["fail"] \in Nat /\ spent'["fail"] >= spent["fail"]
         /\ Spend(kinds) /\ "send" \in kinds => spent'["send"] = spent["send"] + 1
         /\ Spend(kinds) /\ "fail" \in kinds => spent'["fail"] > 0
<1>1. spent \in [EnvironmentKind -> Nat] /\ "send" \in EnvironmentKind /\ "fail" \in EnvironmentKind
  BY DEF Typed, TypeOK, EnvironmentKind
<1>2. CASE spent' = spent /\ ~Spend(kinds)
  BY <1>1, <1>2
<1>3. CASE Spend(kinds)
  <2>1. /\ spent' = [k \in EnvironmentKind |-> IF k \in kinds THEN spent[k] + 1 ELSE spent[k]]
    BY <1>3 DEF Spend
  <2> QED
    BY <1>1, <2>1
<1> QED
  BY <1>2, <1>3

LEMMA HelloOfTyped ==
  ASSUME Typed, NEW d \in Device, NEW response \in BOOLEAN
  PROVE  HelloOf(d, response) \in Hello
BY DEF Typed, TypeOK, HelloOf, Hello

LEMMA DataOfTyped ==
  ASSUME Typed, NEW d \in Device, NEW session \in Session, NEW i \in Nat, NEW message \in Nat
  PROVE  /\ DataOf(d, session, i, message) \in Data
         /\ DataOf(d, session, i, message).from = d
         /\ DataOf(d, session, i, message).message = message
         /\ DataOf(d, session, i, message).sequence = session.send_sequence + i
BY DEF Typed, TypeOK, DataOf, Data, Session

LEMMA SameWindow ==
  ASSUME NEW s, NEW t, s.receive_highest = t.receive_highest, s.receive_window = t.receive_window
  PROVE  \A n \in Nat : Accepts(s, n) => Accepts(t, n)
BY DEF Accepts

\* Nothing waits for a session in the new state, for one of three reasons.
LEMMA NothingWaits ==
  ASSUME WindowInv, spent'["fail"] \in Nat, spent'["fail"] >= spent["fail"],
         \A d \in Device :
           \/ sessions'[d] = None \/ pending'[d] = <<>> \/ spent'["fail"] > 0
           \/ pending'[d] = pending[d] /\ (sessions'[d] # None => sessions[d] # None)
  PROVE  PendingOnlyWithoutSession'
BY TypedFacts DEF WindowInv, PendingOnlyWithoutSession

\* Steps that leave sessions and queues alone.
LEMMA NetStep ==
  ASSUME WindowInv, \A x \in net' : x \in net \/ x \in Hello,
         UNCHANGED <<incarnation, sessions, pending, handed>>,
         spent' \in [EnvironmentKind -> Nat],
         spent'["send"] \in Nat, spent'["send"] >= spent["send"],
         spent'["fail"] \in Nat, spent'["fail"] >= spent["fail"],
         host' \in [Device -> Nat], trusted' \in [Device -> BOOLEAN],
         announced' \in [Device -> Seq(Nat)], addresses' \in [Device -> Nat \cup {None}],
         UNCHANGED <<seen_handshakes, got>>
  PROVE  WindowInv'
<1>1. Numbered' /\ Waits' /\ SentOnce' /\ Refuses'
  <2>1. \A e \in Device : SessionKept(e)
    BY DEF SessionKept
  <2>2. 1 \in Device
    BY DEF Device
  <2> DEFINE none == {}
  <2>3. /\ \A x \in none : x \in Data /\ x.from = 1 /\ Fresh(1, x.message)
        /\ \A x, y \in none : x.message = y.message => x.sequence = y.sequence
    OBVIOUS
  <2> HIDE DEF none
  <2>4. \A x \in net' : x \in net \/ x \in Hello \/ x \in none
    OBVIOUS
  <2> QED
    BY <2>1, <2>2, <2>3, <2>4, SendsStep
<1>2. PendingOnlyWithoutSession'
  BY NothingWaits
<1>3. Typed'
  BY TypedFacts DEF WindowInv, Typed, TypeOK
<1> QED
  BY <1>1, <1>2, <1>3 DEF WindowInv

LEMMA ResolveStep ==
  ASSUME WindowInv, NEW d \in Device,
         \/ Resolve(d) \/ ResolveFails(d) \/ HelloTickFails(d) \/ Unpair(d) \/ Roam(d)
  PROVE  WindowInv'
<1>1. Typed
  BY DEF WindowInv
<1>2. UNCHANGED <<incarnation, sessions, pending, handed, seen_handshakes, got>>
  BY DEF Resolve, ResolveFails, HelloTickFails, Unpair, Roam, Resolved, world, received
<1>3. spent' = spent \/ Spend({"fail"}) \/ Spend({"unpair"}) \/ Spend({"roam"})
  BY DEF Resolve, ResolveFails, HelloTickFails, Unpair, Roam
<1>4. host' \in [Device -> Nat] /\ trusted' \in [Device -> BOOLEAN]
  <2>1. host \in [Device -> Nat] /\ trusted \in [Device -> BOOLEAN]
    BY <1>1 DEF Typed, TypeOK
  <2>2. /\ host' = host \/ host' = [host EXCEPT ![d] = @ + 1]
        /\ trusted' = trusted \/ trusted' = [trusted EXCEPT ![d] = FALSE]
    BY DEF Resolve, ResolveFails, HelloTickFails, Unpair, Roam, Resolved, world
  <2>3. host' \in [Device -> Nat]
    BY <2>1, <2>2
  <2>4. trusted' \in [Device -> BOOLEAN]
    BY <2>1, <2>2
  <2> QED
    BY <2>3, <2>4
<1>5. announced' \in [Device -> Seq(Nat)] /\ addresses' \in [Device -> Nat \cup {None}]
  <2>1. /\ announced \in [Device -> Seq(Nat)] /\ addresses \in [Device -> Nat \cup {None}]
        /\ host \in [Device -> Nat]
    BY <1>1 DEF Typed, TypeOK
  <2>2. CASE Resolve(d) \/ ResolveFails(d)
    <3>1. announced[d] # <<>> /\ announced' = [announced EXCEPT ![d] = Tail(@)]
      BY <2>2 DEF Resolve, ResolveFails, Resolved
    <3>2. Tail(announced[d]) \in Seq(Nat) /\ Head(announced[d]) \in Nat
      BY <2>1, <3>1, HeadTailProperties
    <3> QED
      BY <2>1, <2>2, <3>1, <3>2 DEF Resolve, ResolveFails
  <2>3. CASE HelloTickFails(d) \/ Unpair(d)
    BY <2>1, <2>3 DEF HelloTickFails, Unpair, world
  <2>4. CASE Roam(d)
    <3>1. host'[d] \in Nat /\ Peer(d) \in Device
      BY <1>4, PeerOfPeer
    <3>2. Append(announced[Peer(d)], host'[d]) \in Seq(Nat)
      BY <2>1, <3>1, AppendProperties
    <3> QED
      BY <2>1, <2>4, <3>1, <3>2 DEF Roam
  <2> QED
    BY <2>2, <2>3, <2>4
<1>6. \A x \in net' : x \in net \/ x \in Hello
  <2>1. HelloOf(d, FALSE) \in Hello
    BY <1>1, HelloOfTyped
  <2> QED
    BY <2>1
       DEF Resolve, ResolveFails, HelloTickFails, Unpair, Roam, To
<1> QED
  BY <1>1, <1>2, <1>3, <1>4, <1>5, <1>6, SpendGrows, NetStep

LEMMA IgnoredStep ==
  ASSUME WindowInv, NEW d \in Device, NEW x \in net,
         HelloIgnored(d, x) \/ DataIgnored(d, x) \/ DataWithoutSession(d, x) \/ DataRefused(d, x)
  PROVE  WindowInv'
<1>1. Typed
  BY DEF WindowInv
<1>2. UNCHANGED <<incarnation, host, trusted, announced, addresses, sessions, pending, handed,
                  seen_handshakes, got>>
  BY DEF HelloIgnored, DataIgnored, DataWithoutSession, DataRefused, Authentic, TakesAndSends,
         world, received
<1>3. spent' = spent \/ Spend({"duplicate"})
  BY DEF HelloIgnored, DataIgnored, DataWithoutSession, DataRefused, Authentic, TakesAndSends
<1>4. \A y \in net' : y \in net \/ y \in Hello
  <2>1. HelloOf(d, FALSE) \in Hello
    BY <1>1, HelloOfTyped
  <2> QED
    BY <2>1 DEF HelloIgnored, DataIgnored, DataWithoutSession, DataRefused, Authentic, TakesAndSends, To
<1> QED
  BY <1>1, <1>2, <1>3, <1>4, SpendGrows, NetStep DEF Typed, TypeOK

LEMMA LoseStep ==
  ASSUME WindowInv, NEW x \in net, Lose(x)
  PROVE  WindowInv'
<1>1. /\ UNCHANGED <<incarnation, host, trusted, announced, addresses, sessions, pending, handed,
                     seen_handshakes, got>>
      /\ Spend({"lose"}) /\ \A y \in net' : y \in net
  BY DEF Lose, world, received
<1> QED
  BY <1>1, SpendGrows, NetStep DEF WindowInv, Typed, TypeOK

\* What is typed and whose types follow from those of single values.
LEMMA Types ==
  ASSUME Typed
  PROVE  /\ incarnation \in [Device -> Nat] /\ host \in [Device -> Nat]
         /\ trusted \in [Device -> BOOLEAN] /\ announced \in [Device -> Seq(Nat)]
         /\ addresses \in [Device -> Nat \cup {None}]
         /\ sessions \in [Device -> Session \cup {None}]
         /\ pending \in [Device -> Seq(Nat)]
         /\ \A e \in Device : Len(pending[e]) <= MaxPending
         /\ seen_handshakes \in [Device -> SUBSET Nat]
         /\ handed \in [Device -> SUBSET Nat] /\ got \in [Device -> SUBSET Nat]
         /\ \A e \in Device : HelloOf(e, TRUE) \in Hello /\ HelloOf(e, FALSE) \in Hello
         /\ <<>> \in Seq(Nat) /\ Len(<<>>) = 0 /\ MaxPending \in Nat /\ MaxPending # 0
<1>1. \A e \in Device : HelloOf(e, TRUE) \in Hello /\ HelloOf(e, FALSE) \in Hello
  BY HelloOfTyped
<1>2. <<>> \in Seq(Nat) /\ Len(<<>>) = 0 /\ MaxPending \in Nat /\ MaxPending # 0
  BY EmptySeq, LenProperties, MaxPendingAssumption
<1> QED
  BY <1>1, <1>2 DEF Typed, TypeOK

\* Sessions end or are as they were, queues are emptied or are as they were, and
\* only Hellos are sent.
LEMMA QuietStep ==
  ASSUME WindowInv, Typed', \A x \in net' : x \in net \/ x \in Hello,
         \A e \in Device :
           /\ SessionKept(e) /\ (pending'[e] = pending[e] \/ pending'[e] = <<>>)
           /\ \/ sessions'[e] = None \/ pending'[e] = <<>> \/ spent'["fail"] > 0
              \/ pending'[e] = pending[e] /\ (sessions'[e] # None => sessions[e] # None),
         spent'["send"] \in Nat, spent'["send"] >= spent["send"],
         spent'["fail"] \in Nat, spent'["fail"] >= spent["fail"]
  PROVE  WindowInv'
<1> DEFINE none == {}
<1>1. /\ \A x \in none : x \in Data /\ x.from = 1 /\ Fresh(1, x.message)
      /\ \A x, y \in none : x.message = y.message => x.sequence = y.sequence
      /\ 1 \in Device
  BY DEF Device
<1> HIDE DEF none
<1>2. \A x \in net' : x \in net \/ x \in Hello \/ x \in none
  OBVIOUS
<1>3. \A e \in Device : SessionKept(e) /\ (pending'[e] = pending[e] \/ pending'[e] = <<>>)
  OBVIOUS
<1>4. Numbered' /\ Waits' /\ SentOnce' /\ Refuses'
  BY <1>1, <1>2, <1>3, SendsStep
<1>5. PendingOnlyWithoutSession'
  BY NothingWaits
<1> QED
  BY <1>4, <1>5 DEF WindowInv

\* A device that forgets its peer: session, address, and here what waits.
LEMMA ForgetStep ==
  ASSUME WindowInv, NEW d \in Device,
         SendUntrusted(d) \/ HelloTick(d)
  PROVE  WindowInv'
<1>1. Typed
  BY DEF WindowInv
<1>2. UNCHANGED <<incarnation, host, trusted, announced, seen_handshakes, got>>
  BY DEF SendUntrusted, HelloTick, world, received
<1>3. spent' = spent \/ Spend({"send"})
  BY DEF SendUntrusted, HelloTick
<1>4. /\ spent' \in [EnvironmentKind -> Nat]
      /\ spent'["send"] \in Nat /\ spent'["send"] >= spent["send"]
      /\ spent'["fail"] \in Nat /\ spent'["fail"] >= spent["fail"]
  BY <1>1, <1>3, SpendGrows
<1>5. \A x \in net' : x \in net \/ x \in Hello
  BY <1>1, Types DEF SendUntrusted, HelloTick, To
<1>6. \/ UNCHANGED <<addresses, sessions, pending, handed>>
      \/ /\ sessions' = [sessions EXCEPT ![d] = None]
         /\ addresses' = [addresses EXCEPT ![d] = None]
         /\ handed' = [handed EXCEPT ![d] = {}]
         /\ pending' = [pending EXCEPT ![d] = <<>>]
  BY DEF SendUntrusted, HelloTick, Forget
<1>7. /\ sessions' \in [Device -> Session \cup {None}]
      /\ addresses' \in [Device -> Nat \cup {None}] /\ handed' \in [Device -> SUBSET Nat]
      /\ pending' \in [Device -> Seq(Nat)] /\ \A e \in Device : Len(pending'[e]) <= MaxPending
  <2>1. CASE UNCHANGED <<addresses, sessions, pending, handed>>
    BY <1>1, <2>1, Types
  <2>2. CASE /\ sessions' = [sessions EXCEPT ![d] = None]
             /\ addresses' = [addresses EXCEPT ![d] = None]
             /\ handed' = [handed EXCEPT ![d] = {}]
             /\ pending' = [pending EXCEPT ![d] = <<>>]
    <3>1. /\ sessions' \in [Device -> Session \cup {None}]
          /\ addresses' \in [Device -> Nat \cup {None}] /\ handed' \in [Device -> SUBSET Nat]
      BY <1>1, <2>2, Types
    <3>2. pending' \in [Device -> Seq(Nat)] /\ \A e \in Device : Len(pending'[e]) <= MaxPending
      BY <1>1, <2>2, Types
    <3> QED
      BY <3>1, <3>2
  <2> QED
    BY <1>6, <2>1, <2>2
<1>8. Typed'
  BY <1>1, <1>2, <1>4, <1>5, <1>7, Types, TypedFacts DEF Typed, TypeOK
<1>9. \A e \in Device :
        /\ SessionKept(e) /\ (pending'[e] = pending[e] \/ pending'[e] = <<>>)
        /\ \/ sessions'[e] = None \/ pending'[e] = <<>> \/ spent'["fail"] > 0
           \/ pending'[e] = pending[e] /\ (sessions'[e] # None => sessions[e] # None)
  BY <1>1, <1>6, Types DEF SessionKept
<1> QED
  BY <1>4, <1>5, <1>8, <1>9, QuietStep

LEMMA AnotherSessionStep ==
  ASSUME WindowInv, NEW d \in Device, NEW x \in net, DataOfAnotherSession(d, x)
  PROVE  WindowInv'
<1>1. Typed
  BY DEF WindowInv
<1>2. /\ UNCHANGED <<incarnation, host, trusted, announced, seen_handshakes, got, addresses, pending>>
      /\ sessions' = [sessions EXCEPT ![d] = None]
      /\ handed' = [handed EXCEPT ![d] = {}]
      /\ spent' = spent \/ Spend({"duplicate"})
  BY DEF DataOfAnotherSession, TakesAndSends, world, received
<1>3. /\ spent' \in [EnvironmentKind -> Nat]
      /\ spent'["send"] \in Nat /\ spent'["send"] >= spent["send"]
      /\ spent'["fail"] \in Nat /\ spent'["fail"] >= spent["fail"]
  BY <1>1, <1>2, SpendGrows
<1>4. \A y \in net' : y \in net \/ y \in Hello
  BY <1>1, Types DEF DataOfAnotherSession, TakesAndSends, To
<1>5. sessions' \in [Device -> Session \cup {None}] /\ handed' \in [Device -> SUBSET Nat]
  BY <1>1, <1>2, Types
<1>6. Typed'
  BY <1>1, <1>2, <1>3, <1>4, <1>5, Types, TypedFacts DEF Typed, TypeOK
<1>7. \A e \in Device :
        /\ SessionKept(e) /\ (pending'[e] = pending[e] \/ pending'[e] = <<>>)
        /\ \/ sessions'[e] = None \/ pending'[e] = <<>> \/ spent'["fail"] > 0
           \/ pending'[e] = pending[e] /\ (sessions'[e] # None => sessions[e] # None)
  BY <1>1, <1>2, Types DEF SessionKept
<1> QED
  BY <1>3, <1>4, <1>6, <1>7, QuietStep

LEMMA RestartStep ==
  ASSUME WindowInv, NEW d \in Device, Restart(d)
  PROVE  WindowInv'
<1>1. Typed
  BY DEF WindowInv
<1>2. /\ UNCHANGED <<host, trusted, net, got>> /\ Spend({"restart"})
      /\ incarnation' = [incarnation EXCEPT ![d] = @ + 1]
      /\ addresses' = [addresses EXCEPT ![d] = None]
      /\ sessions' = [sessions EXCEPT ![d] = None]
      /\ pending' = [pending EXCEPT ![d] = <<>>]
      /\ seen_handshakes' = [seen_handshakes EXCEPT ![d] = {}]
      /\ handed' = [handed EXCEPT ![d] = {}]
  BY DEF Restart
<1>3. /\ spent' \in [EnvironmentKind -> Nat]
      /\ spent'["send"] \in Nat /\ spent'["send"] >= spent["send"]
      /\ spent'["fail"] \in Nat /\ spent'["fail"] >= spent["fail"]
  BY <1>1, <1>2, SpendGrows
<1>4. announced' \in [Device -> Seq(Nat)]
  <2>1. PICK again \in {<<>>, <<host[d]>>} :
          announced' = [announced EXCEPT ![d] = <<host[Peer(d)]>>, ![Peer(d)] = @ \o again]
    BY DEF Restart
  <2>2. Peer(d) \in Device /\ Peer(d) # d
    BY PeerOfPeer
  <2>3. host[d] \in Nat /\ host[Peer(d)] \in Nat /\ announced[Peer(d)] \in Seq(Nat)
    BY <1>1, <2>2, Types
  <2>4. again \in Seq(Nat) /\ <<host[Peer(d)]>> \in Seq(Nat)
    <3>1. \A n \in Nat : <<n>> \in Seq(Nat)
      OBVIOUS
    <3>2. again = <<>> \/ again = <<host[d]>>
      BY <2>1
    <3> QED
      BY <2>3, <3>1, <3>2, EmptySeq
  <2>5. announced[Peer(d)] \o again \in Seq(Nat)
    BY <2>3, <2>4, ConcatProperties
  <2> QED
    BY <1>1, <2>1, <2>2, <2>4, <2>5, Types
<1>5. /\ incarnation' \in [Device -> Nat] /\ addresses' \in [Device -> Nat \cup {None}]
      /\ sessions' \in [Device -> Session \cup {None}]
      /\ pending' \in [Device -> Seq(Nat)] /\ \A e \in Device : Len(pending'[e]) <= MaxPending
      /\ seen_handshakes' \in [Device -> SUBSET Nat] /\ handed' \in [Device -> SUBSET Nat]
  BY <1>1, <1>2, Types
<1>6. Typed'
  BY <1>1, <1>2, <1>3, <1>4, <1>5, Types, TypedFacts DEF Typed, TypeOK
<1>7. \A e \in Device :
        /\ SessionKept(e) /\ (pending'[e] = pending[e] \/ pending'[e] = <<>>)
        /\ \/ sessions'[e] = None \/ pending'[e] = <<>> \/ spent'["fail"] > 0
           \/ pending'[e] = pending[e] /\ (sessions'[e] # None => sessions[e] # None)
  BY <1>1, <1>2, Types DEF SessionKept
<1> QED
  BY <1>2, <1>3, <1>6, <1>7, QuietStep

----------------------------------------------------------------------------
(* Sending *)

\* The next message leaves over the session, which counts it or, as the send
\* failed, ends.
LEMMA SendDataStep ==
  ASSUME WindowInv, NEW d \in Device, SendData(d) \/ SendFails(d)
  PROVE  WindowInv'
<1>1. Typed
  BY DEF WindowInv
<1>2. /\ UNCHANGED <<incarnation, host, trusted, announced, seen_handshakes, got, pending>>
      /\ sessions[d] # None
      /\ Spend({"send"}) \/ Spend({"send", "fail"})
  BY DEF SendData, SendFails, world, received
<1>3. /\ spent' \in [EnvironmentKind -> Nat]
      /\ spent'["send"] \in Nat /\ spent'["send"] >= spent["send"]
      /\ spent'["fail"] \in Nat /\ spent'["fail"] >= spent["fail"]
      /\ spent'["send"] = Number
  BY <1>1, <1>2, SpendGrows DEF Number
<1>4. sessions[d] \in Session /\ Number \in Nat
  BY <1>1, <1>2, Types, TypedFacts DEF Number
<1> DEFINE sent == {DataOf(d, sessions[d], 1, Number)}
<1>5. \A y \in net' : y \in net \/ y \in sent
  BY DEF SendData, SendFails, To
<1>6. /\ \A y \in sent : y \in Data /\ y.from = d /\ Fresh(d, y.message)
      /\ \A y, z \in sent : y.message = z.message => y.sequence = z.sequence
  BY <1>1, <1>3, <1>4, DataOfTyped DEF Fresh, Number
<1> HIDE DEF sent
<1>7. \/ /\ sessions' = [sessions EXCEPT ![d].send_sequence = @ + 1]
         /\ UNCHANGED <<addresses, handed>>
      \/ /\ sessions' = [sessions EXCEPT ![d] = None]
         /\ addresses' = [addresses EXCEPT ![d] = None]
         /\ handed' = [handed EXCEPT ![d] = {}]
  BY DEF SendData, SendFails, Forget
<1>8. /\ sessions' \in [Device -> Session \cup {None}]
      /\ addresses' \in [Device -> Nat \cup {None}] /\ handed' \in [Device -> SUBSET Nat]
      /\ \A e \in Device : SessionKept(e)
      /\ \A e \in Device : sessions'[e] # None => sessions[e] # None
  <2>1. CASE /\ sessions' = [sessions EXCEPT ![d].send_sequence = @ + 1]
             /\ UNCHANGED <<addresses, handed>>
    <3> DEFINE counted == [sessions[d] EXCEPT !.send_sequence = @ + 1]
    <3>1. /\ counted \in Session
          /\ counted.receive_highest = sessions[d].receive_highest
          /\ counted.receive_window = sessions[d].receive_window
      BY <1>4 DEF Session
    <3>2. sessions' = [sessions EXCEPT ![d] = counted]
      BY <2>1
    <3> HIDE DEF counted
    <3>3. \A n \in Nat : Accepts(counted, n) => Accepts(sessions[d], n)
      BY <3>1, SameWindow
    <3>4. sessions' \in [Device -> Session \cup {None}]
      BY <1>1, <3>1, <3>2, Types
    <3>5. ASSUME NEW e \in Device
          PROVE  SessionKept(e) /\ (sessions'[e] # None => sessions[e] # None)
      <4>1. sessions'[e] = IF e = d THEN counted ELSE sessions[e]
        BY <1>1, <3>2, Types
      <4> QED
        BY <1>2, <2>1, <3>3, <4>1 DEF SessionKept
    <3> QED
      BY <1>1, <2>1, <3>4, <3>5, Types
  <2>2. CASE /\ sessions' = [sessions EXCEPT ![d] = None]
             /\ addresses' = [addresses EXCEPT ![d] = None]
             /\ handed' = [handed EXCEPT ![d] = {}]
    BY <1>1, <2>2, Types DEF SessionKept
  <2> QED
    BY <1>7, <2>1, <2>2
<1>9. Typed'
  <2>1. \A y \in net' : y \in Hello \/ y \in Data
    BY <1>1, <1>5, <1>6, TypedFacts
  <2> QED
    BY <1>1, <1>2, <1>3, <1>8, <2>1, Types DEF Typed, TypeOK
<1>10. Numbered' /\ Waits' /\ SentOnce' /\ Refuses'
  <2>1. \A y \in net' : y \in net \/ y \in Hello \/ y \in sent
    BY <1>5
  <2>2. \A e \in Device : SessionKept(e) /\ (pending'[e] = pending[e] \/ pending'[e] = <<>>)
    BY <1>2, <1>8
  <2> QED
    BY <1>3, <1>6, <2>1, <2>2, SendsStep
<1>11. PendingOnlyWithoutSession'
  BY <1>2, <1>3, <1>8, NothingWaits
<1> QED
  BY <1>9, <1>10, <1>11 DEF WindowInv

\* The queue holds what it held, but for its head if it was full, and the message.
LEMMA QueuedIs ==
  ASSUME NEW q \in Seq(Nat), Len(q) <= MaxPending, NEW m \in Nat
  PROVE  /\ Queued(q, m) \in Seq(Nat) /\ Len(Queued(q, m)) <= MaxPending
         /\ \E k \in {0, 1} :
              /\ k <= Len(q) /\ Len(Queued(q, m)) = Len(q) - k + 1
              /\ \A i \in 1..Len(Queued(q, m)) :
                   Queued(q, m)[i] = IF i = Len(q) - k + 1 THEN m ELSE q[i + k]
<1>1. MaxPending \in Nat /\ MaxPending # 0 /\ Len(q) \in Nat
  BY MaxPendingAssumption, LenProperties
<1>2. CASE Len(q) = MaxPending
  <2> DEFINE t == Tail(q)
  <2>1. /\ t \in Seq(Nat) /\ Len(t) = Len(q) - 1
        /\ \A i \in 1..Len(t) : t[i] = q[i + 1]
    <3>1. q # <<>>
      BY <1>1, <1>2, EmptySeq
    <3> QED
      BY <3>1, HeadTailProperties
  <2>2. Queued(q, m) = Append(t, m)
    BY <1>2 DEF Queued
  <2> HIDE DEF t
  <2>3. /\ Append(t, m) \in Seq(Nat) /\ Len(Append(t, m)) = Len(t) + 1
        /\ \A i \in 1..Len(t) : Append(t, m)[i] = t[i]
        /\ Append(t, m)[Len(t) + 1] = m
    BY <2>1, AppendProperties
  <2>4. ASSUME NEW i \in 1..Len(Queued(q, m))
        PROVE  Queued(q, m)[i] = IF i = Len(q) - 1 + 1 THEN m ELSE q[i + 1]
    <3>1. CASE i = Len(t) + 1
      BY <1>1, <2>1, <2>2, <2>3, <3>1
    <3>2. CASE i # Len(t) + 1
      <4>1. i \in 1..Len(t)
        BY <1>1, <2>1, <2>2, <2>3, <3>2
      <4> QED
        BY <1>1, <2>1, <2>2, <2>3, <4>1
    <3> QED
      BY <3>1, <3>2
  <2> QED
    BY <1>1, <1>2, <2>1, <2>2, <2>3, <2>4
<1>3. CASE Len(q) # MaxPending
  <2>1. Queued(q, m) = Append(q, m)
    BY <1>3 DEF Queued
  <2>2. /\ Append(q, m) \in Seq(Nat) /\ Len(Append(q, m)) = Len(q) + 1
        /\ \A i \in 1..Len(q) : Append(q, m)[i] = q[i]
        /\ Append(q, m)[Len(q) + 1] = m
    BY AppendProperties
  <2>3. \A i \in 1..Len(Queued(q, m)) :
          Queued(q, m)[i] = IF i = Len(q) - 0 + 1 THEN m ELSE q[i + 0]
    BY <1>1, <2>1, <2>2
  <2> QED
    BY <1>1, <1>3, <2>1, <2>2, <2>3
<1> QED
  BY <1>2, <1>3

\* The next message waits.
LEMMA SendQueuedStep ==
  ASSUME WindowInv, NEW d \in Device, SendQueued(d) \/ SendQueuedFails(d)
  PROVE  WindowInv'
<1>1. Typed /\ Numbered /\ Waits /\ SentOnce /\ Refuses
  BY DEF WindowInv
<1>2. /\ UNCHANGED <<incarnation, host, trusted, announced, seen_handshakes, got, sessions, handed>>
      /\ sessions[d] = None
      /\ Spend({"send"}) \/ Spend({"send", "fail"})
      /\ pending' = [pending EXCEPT ![d] = Queued(@, Number)]
      /\ addresses' = addresses \/ addresses' = [addresses EXCEPT ![d] = None]
  BY DEF SendQueued, SendQueuedFails, Queues, world, received
<1>3. /\ spent' \in [EnvironmentKind -> Nat]
      /\ spent'["send"] \in Nat /\ spent'["fail"] \in Nat /\ spent'["fail"] >= spent["fail"]
      /\ spent'["send"] = Number /\ Number \in Nat /\ Number = spent["send"] + 1
      /\ spent["send"] \in Nat
  BY <1>1, <1>2, SpendGrows, TypedFacts DEF Number
<1>4. \A y \in net' : y \in net \/ y \in Hello
  <2>1. HelloOf(d, FALSE) \in Hello
    BY <1>1, HelloOfTyped
  <2>2. CASE SendQueued(d)
    BY <2>1, <2>2 DEF SendQueued, To
  <2>3. CASE SendQueuedFails(d)
    BY <2>3 DEF SendQueuedFails
  <2> QED
    BY <2>2, <2>3
<1>5. \A y \in Hello : y.kind # "data"
  BY DEF Hello
<1> DEFINE q == pending[d]
           r == Queued(pending[d], Number)
<1>6. q \in Seq(Nat) /\ Len(q) \in Nat /\ Len(q) <= MaxPending
  BY <1>1, Types, TypedFacts
<1>7. r \in Seq(Nat) /\ Len(r) <= MaxPending
  BY <1>3, <1>6, QueuedIs
<1>8. PICK k \in {0, 1} :
        /\ k <= Len(q) /\ Len(r) = Len(q) - k + 1
        /\ \A i \in 1..Len(r) : r[i] = IF i = Len(q) - k + 1 THEN Number ELSE q[i + k]
  BY <1>3, <1>6, QueuedIs
<1>9. \A e \in Device : pending'[e] = IF e = d THEN r ELSE pending[e]
  BY <1>1, <1>2, Types
<1> HIDE DEF r
<1>10. Typed'
  <2>1. pending' \in [Device -> Seq(Nat)]
    BY <1>1, <1>2, <1>7, Types DEF r
  <2>2. \A e \in Device : Len(pending'[e]) <= MaxPending
    BY <1>1, <1>7, <1>9, Types
  <2>3. addresses' \in [Device -> Nat \cup {None}]
    BY <1>1, <1>2, Types
  <2>4. \A y \in net' : y \in Hello \/ y \in Data
    BY <1>1, <1>4, TypedFacts
  <2> QED
    BY <1>1, <1>2, <1>3, <2>1, <2>2, <2>3, <2>4, Types DEF Typed, TypeOK
<1>moved. \A i \in 1..Len(r) : i # Len(q) - k + 1 => r[i] = q[i + k] /\ i + k \in 1..Len(q)
  <2> HIDE DEF q
  <2> QED
    BY <1>6, <1>8
<1>last. \A i \in 1..Len(r) : i = Len(q) - k + 1 => r[i] = Number
  BY <1>8
<1>11. \A i \in 1..Len(r) : r[i] = Number \/ \E j \in 1..Len(q) : r[i] = q[j]
  BY <1>moved, <1>last
<1>12. Numbered'
  <2>1. \A x \in net' : x.kind = "data" => x.message <= spent'["send"]
    BY <1>1, <1>3, <1>4, <1>5, TypedFacts DEF Numbered
  <2>2. \A e \in Device : \A m \in handed'[e] : m <= spent'["send"]
    BY <1>1, <1>2, <1>3, TypedFacts DEF Numbered
  <2>3. ASSUME NEW e \in Device, NEW i \in 1..Len(pending'[e])
        PROVE  pending'[e][i] <= spent'["send"]
    <3>1. CASE e = d
      <4>1. pending'[e][i] = Number \/ \E j \in 1..Len(q) : pending'[e][i] = q[j]
        BY <1>9, <1>11, <3>1
      <4>2. \A j \in 1..Len(q) : q[j] \in Nat /\ q[j] <= spent["send"]
        BY <1>1, TypedFacts DEF Numbered
      <4> QED
        BY <1>3, <4>1, <4>2
    <3>2. CASE e # d
      BY <1>1, <1>3, <1>9, <3>2, TypedFacts DEF Numbered
    <3> QED
      BY <3>1, <3>2
  <2> QED
    BY <2>1, <2>2, <2>3 DEF Numbered
<1>13. \A e \in Device : Number \notin handed[e]
  BY <1>1, <1>3, TypedFacts DEF Numbered
<1>14. \A x \in net : x.kind = "data" => x.message # Number
  BY <1>1, <1>3, TypedFacts DEF Numbered
<1>15. \A j \in 1..Len(q) : q[j] # Number
  BY <1>1, <1>3, TypedFacts DEF Numbered
<1>16. Waits'
  <2> SUFFICES ASSUME NEW e \in Device, NEW i \in 1..Len(pending'[e])
               PROVE  /\ pending'[e][i] \notin handed'[Peer(e)]
                      /\ \A x \in net' : IsData(x, e) => x.message # pending'[e][i]
                      /\ \A j \in 1..Len(pending'[e]) : pending'[e][i] = pending'[e][j] => i = j
    BY DEF Waits
  <2>1. CASE e # d
    <3>1. pending'[e] = pending[e]
      BY <1>9, <2>1
    <3> QED
      BY <1>1, <1>2, <1>4, <1>5, <3>1 DEF Waits, IsData
  <2>2. CASE e = d
    <3>1. pending'[e] = r /\ i \in 1..Len(r)
      BY <1>9, <2>2
    <3>2. r[i] \notin handed'[Peer(e)]
      BY <1>1, <1>2, <1>11, <1>13, <2>2, <3>1, PeerOfPeer DEF Waits
    <3>3. \A x \in net' : IsData(x, e) => x.message # r[i]
      BY <1>1, <1>4, <1>5, <1>11, <1>14, <2>2, <3>1 DEF Waits, IsData
    <3>4. ASSUME NEW j \in 1..Len(r), r[i] = r[j] PROVE i = j
      <4>1. CASE i = Len(q) - k + 1 /\ j = Len(q) - k + 1
        BY <4>1
      <4>2. CASE i = Len(q) - k + 1 /\ j # Len(q) - k + 1
        <5>1. r[i] = Number /\ r[j] = q[j + k] /\ j + k \in 1..Len(q)
          BY <1>moved, <1>last, <3>1, <4>2
        <5> QED
          BY <1>15, <3>4, <5>1
      <4>3. CASE i # Len(q) - k + 1 /\ j = Len(q) - k + 1
        <5>1. r[j] = Number /\ r[i] = q[i + k] /\ i + k \in 1..Len(q)
          BY <1>moved, <1>last, <3>1, <4>3
        <5> QED
          BY <1>15, <3>4, <5>1
      <4>4. CASE i # Len(q) - k + 1 /\ j # Len(q) - k + 1
        <5>1. /\ r[i] = q[i + k] /\ i + k \in 1..Len(q)
              /\ r[j] = q[j + k] /\ j + k \in 1..Len(q)
          BY <1>moved, <1>last, <3>1, <4>4
        <5>2. i + k = j + k
          BY <1>1, <3>4, <5>1 DEF Waits
        <5> QED
          BY <5>2
      <4> QED
        BY <4>1, <4>2, <4>3, <4>4
    <3> QED
      BY <3>1, <3>2, <3>3, <3>4
  <2> QED
    BY <2>1, <2>2
<1>17. SentOnce' /\ Refuses'
  BY <1>1, <1>2, <1>4, <1>5, PeerOfPeer DEF SentOnce, Refuses, IsData
<1>18. PendingOnlyWithoutSession'
  BY <1>2, <1>3, <1>9, NothingWaits
<1> QED
  BY <1>10, <1>12, <1>16, <1>17, <1>18 DEF WindowInv

----------------------------------------------------------------------------
(* Hellos taken *)

\* What a Hello that is taken does, whatever fails after.
LEMMA HandshakeIs ==
  ASSUME WindowInv, NEW d \in Device, NEW h \in net, Handshake(d, h)
  PROVE  /\ h.incarnation \in Nat /\ h.at \in Nat
         /\ SessionFor(d, h) \in Session
         /\ Known(d, h) => /\ SessionFor(d, h).receive_highest = sessions[d].receive_highest
                           /\ SessionFor(d, h).receive_window = sessions[d].receive_window
         /\ seen_handshakes' \in [Device -> SUBSET Nat] /\ got' = got
<1>1. Typed
  BY DEF WindowInv
<1>2. h \in Hello
  BY <1>1, TypedFacts DEF Handshake, Data
<1>3. h.incarnation \in Nat /\ h.at \in Nat
  BY <1>2 DEF Hello
<1>4. CASE Known(d, h)
  <2>1. sessions[d] \in Session
    BY <1>1, <1>4, Types DEF Known
  <2>2. SessionFor(d, h) = [sessions[d] EXCEPT !.addr = h.at]
    BY <1>4 DEF SessionFor
  <2>3. /\ SessionFor(d, h) \in Session
        /\ SessionFor(d, h).receive_highest = sessions[d].receive_highest
        /\ SessionFor(d, h).receive_window = sessions[d].receive_window
    BY <1>3, <2>1, <2>2 DEF Session
  <2> QED
    BY <1>1, <1>3, <2>3, Types DEF Handshake
<1>5. CASE ~Known(d, h)
  <2>1. SessionFor(d, h) \in Session
    BY <1>3, <1>5 DEF SessionFor, NewSession, Session
  <2> QED
    BY <1>1, <1>3, <1>5, <2>1, Types DEF Handshake
<1> QED
  BY <1>4, <1>5

\* A session whose window is that of SessionFor keeps what was handed over apart.
LEMMA HandshakeKeeps ==
  ASSUME WindowInv, NEW d \in Device, NEW h \in net, Handshake(d, h),
         NEW session \in Session,
         session.receive_highest = SessionFor(d, h).receive_highest,
         session.receive_window = SessionFor(d, h).receive_window,
         sessions' = [sessions EXCEPT ![d] = session],
         handed' = IF Known(d, h) THEN handed ELSE [handed EXCEPT ![d] = {}]
  PROVE  /\ sessions' \in [Device -> Session \cup {None}]
         /\ handed' \in [Device -> SUBSET Nat]
         /\ \A e \in Device : SessionKept(e)
         /\ \A e \in Device : e # d => sessions'[e] = sessions[e]
<1>1. Typed
  BY DEF WindowInv
<1>2. sessions' \in [Device -> Session \cup {None}] /\ handed' \in [Device -> SUBSET Nat]
  BY <1>1, Types
<1>3. \A e \in Device : sessions'[e] = IF e = d THEN session ELSE sessions[e]
  BY <1>1, Types
<1>4. CASE Known(d, h)
  <2>1. \A n \in Nat : Accepts(session, n) => Accepts(sessions[d], n)
    BY <1>4, HandshakeIs, SameWindow
  <2> QED
    BY <1>2, <1>3, <1>4, <2>1 DEF SessionKept
<1>5. CASE ~Known(d, h)
  <2>1. \A e \in Device : handed'[e] = IF e = d THEN {} ELSE handed[e]
    BY <1>1, <1>5, Types
  <2> QED
    BY <1>2, <1>3, <2>1 DEF SessionKept
<1> QED
  BY <1>4, <1>5

LEMMA HelloAnswerFailsStep ==
  ASSUME WindowInv, NEW d \in Device, NEW h \in net, HelloAnswerFails(d, h)
  PROVE  WindowInv'
<1>1. Typed
  BY DEF WindowInv
<1>2. /\ Handshake(d, h)
      /\ UNCHANGED <<incarnation, host, trusted, announced, addresses, pending>>
      /\ Spend({"fail"}) /\ \A y \in net' : y \in net
  BY DEF HelloAnswerFails, TakesAndFails, world
<1>3. /\ spent' \in [EnvironmentKind -> Nat]
      /\ spent'["send"] \in Nat /\ spent'["send"] >= spent["send"]
      /\ spent'["fail"] \in Nat /\ spent'["fail"] >= spent["fail"] /\ spent'["fail"] > 0
  BY <1>1, <1>2, SpendGrows
<1>4. SessionFor(d, h) \in Session /\ seen_handshakes' \in [Device -> SUBSET Nat] /\ got' = got
  BY <1>2, HandshakeIs
<1>5. /\ sessions' \in [Device -> Session \cup {None}] /\ handed' \in [Device -> SUBSET Nat]
      /\ \A e \in Device : SessionKept(e)
  BY <1>2, <1>4, HandshakeKeeps DEF HelloAnswerFails
<1>6. Typed'
  BY <1>1, <1>2, <1>3, <1>4, <1>5, Types, TypedFacts DEF Typed, TypeOK
<1> QED
  BY <1>2, <1>3, <1>5, <1>6, QuietStep

\* What waited is sent, each under the number its place in the queue gives it.
LEMMA FlushedIs ==
  ASSUME WindowInv, NEW d \in Device, NEW h \in net, Handshake(d, h),
         NEW n \in 0..Len(pending[d]), pending'[d] = <<>>
  PROVE  /\ \A x \in Flushed(d, h, n) : x \in Data /\ x.from = d /\ Fresh(d, x.message)
         /\ \A x, y \in Flushed(d, h, n) : x.message = y.message => x.sequence = y.sequence
<1> DEFINE s == SessionFor(d, h)
<1>1. Typed /\ Waits
  BY DEF WindowInv
<1>2. s \in Session
  BY HandshakeIs
<1> HIDE DEF s
<1>3. \A x \in Flushed(d, h, n) : \E i \in 1..n : x = DataOf(d, s, i, pending[d][i])
  BY DEF Flushed, To, s
<1>4. \A i \in 1..n : i \in Nat /\ i \in 1..Len(pending[d]) /\ pending[d][i] \in Nat
  BY <1>1, TypedFacts
<1>5. ASSUME NEW x \in Flushed(d, h, n)
      PROVE  x \in Data /\ x.from = d /\ Fresh(d, x.message)
  <2>1. PICK i \in 1..n : x = DataOf(d, s, i, pending[d][i])
    BY <1>3
  <2>2. x \in Data /\ x.from = d /\ x.message = pending[d][i]
    BY <1>1, <1>2, <1>4, <2>1, DataOfTyped
  <2> QED
    BY <1>4, <2>2 DEF Fresh
<1>6. ASSUME NEW x \in Flushed(d, h, n), NEW y \in Flushed(d, h, n), x.message = y.message
      PROVE  x.sequence = y.sequence
  <2>1. PICK i \in 1..n : x = DataOf(d, s, i, pending[d][i])
    BY <1>3
  <2>2. PICK j \in 1..n : y = DataOf(d, s, j, pending[d][j])
    BY <1>3
  <2>3. pending[d][i] = pending[d][j]
    BY <1>1, <1>2, <1>4, <1>6, <2>1, <2>2, DataOfTyped
  <2>4. i = j
    BY <1>1, <1>4, <2>3 DEF Waits
  <2> QED
    BY <2>1, <2>2, <2>4
<1> QED
  BY <1>5, <1>6

LEMMA FlushStep ==
  ASSUME WindowInv, NEW d \in Device, NEW h \in net, HelloTaken(d, h) \/ FlushFails(d, h)
  PROVE  WindowInv'
<1>1. Typed
  BY DEF WindowInv
<1>2. /\ Handshake(d, h)
      /\ UNCHANGED <<incarnation, host, trusted, announced>>
      /\ spent' = spent \/ Spend({"duplicate"}) \/ Spend({"fail"})
      /\ pending' = [pending EXCEPT ![d] = <<>>]
  BY DEF HelloTaken, FlushFails, TakesAndSends, TakesAndFails, world
<1>3. /\ spent' \in [EnvironmentKind -> Nat]
      /\ spent'["send"] \in Nat /\ spent'["send"] >= spent["send"]
      /\ spent'["fail"] \in Nat /\ spent'["fail"] >= spent["fail"]
  BY <1>1, <1>2, SpendGrows
<1>4. /\ SessionFor(d, h) \in Session /\ h.at \in Nat
      /\ seen_handshakes' \in [Device -> SUBSET Nat] /\ got' = got
  BY <1>2, HandshakeIs
<1>5. /\ pending' \in [Device -> Seq(Nat)] /\ \A e \in Device : Len(pending'[e]) <= MaxPending
      /\ pending'[d] = <<>> /\ \A e \in Device : e # d => pending'[e] = pending[e]
  BY <1>1, <1>2, Types
<1>6. PICK n \in 0..Len(pending[d]) :
        \A y \in net' : y \in net \/ y \in Answer(d, h) \/ y \in Flushed(d, h, n)
  <2>1. CASE HelloTaken(d, h)
    <3>1. Len(pending[d]) \in 0..Len(pending[d])
      BY <1>1, TypedFacts
    <3>2. \A y \in net' : \/ y \in net \/ y \in Answer(d, h)
                          \/ y \in Flushed(d, h, Len(pending[d]))
      BY <2>1 DEF HelloTaken, TakesAndSends
    <3> QED
      BY <3>1, <3>2
  <2>2. CASE FlushFails(d, h)
    BY <2>2 DEF FlushFails, TakesAndFails
  <2> QED
    BY <2>1, <2>2
<1> DEFINE sent == Flushed(d, h, n)
<1>7. /\ \A x \in sent : x \in Data /\ x.from = d /\ Fresh(d, x.message)
      /\ \A x, y \in sent : x.message = y.message => x.sequence = y.sequence
  BY <1>2, <1>5, FlushedIs
<1> HIDE DEF sent
<1>8. \A y \in net' : y \in net \/ y \in Hello \/ y \in sent
  <2>1. HelloOf(d, TRUE) \in Hello
    BY <1>1, HelloOfTyped
  <2> QED
    BY <1>6, <2>1 DEF sent, Answer, To
<1>9. /\ sessions' \in [Device -> Session \cup {None}] /\ handed' \in [Device -> SUBSET Nat]
      /\ addresses' \in [Device -> Nat \cup {None}]
      /\ \A e \in Device : SessionKept(e)
      /\ \A e \in Device : e # d => sessions'[e] = sessions[e]
  <2>1. CASE HelloTaken(d, h)
    <3> DEFINE session == [SessionFor(d, h) EXCEPT !.send_sequence = @ + Len(pending[d])]
    <3>1. Len(pending[d]) \in Nat
      BY <1>1, TypedFacts
    <3>2. /\ session \in Session
          /\ session.receive_highest = SessionFor(d, h).receive_highest
          /\ session.receive_window = SessionFor(d, h).receive_window
      BY <1>4, <3>1 DEF Session
    <3>3. /\ sessions' = [sessions EXCEPT ![d] = session]
          /\ handed' = IF Known(d, h) THEN handed ELSE [handed EXCEPT ![d] = {}]
          /\ addresses' = [addresses EXCEPT ![d] = h.at]
      BY <2>1 DEF HelloTaken
    <3> HIDE DEF session
    <3>4. /\ sessions' \in [Device -> Session \cup {None}] /\ handed' \in [Device -> SUBSET Nat]
          /\ \A e \in Device : SessionKept(e)
          /\ \A e \in Device : e # d => sessions'[e] = sessions[e]
      BY <1>2, <3>2, <3>3, HandshakeKeeps
    <3> QED
      BY <1>1, <1>4, <3>3, <3>4, Types
  <2>2. CASE FlushFails(d, h)
    <3>1. Forget(d)
      BY <2>2 DEF FlushFails
    <3> QED
      BY <1>1, <3>1, Types DEF Forget, SessionKept
  <2> QED
    BY <2>1, <2>2
<1>10. Typed'
  <2>1. \A y \in net' : y \in Hello \/ y \in Data
    BY <1>1, <1>7, <1>8, TypedFacts
  <2> QED
    BY <1>1, <1>2, <1>3, <1>4, <1>5, <1>9, <2>1, Types DEF Typed, TypeOK
<1>11. Numbered' /\ Waits' /\ SentOnce' /\ Refuses'
  <2>1. \A e \in Device : SessionKept(e) /\ (pending'[e] = pending[e] \/ pending'[e] = <<>>)
    BY <1>5, <1>9
  <2> QED
    BY <1>3, <1>7, <1>8, <2>1, SendsStep
<1>12. PendingOnlyWithoutSession'
  <2>1. \A e \in Device :
          \/ pending'[e] = <<>>
          \/ pending'[e] = pending[e] /\ (sessions'[e] # None => sessions[e] # None)
    BY <1>5, <1>9
  <2> QED
    BY <1>3, <2>1, NothingWaits
<1> QED
  BY <1>10, <1>11, <1>12 DEF WindowInv

----------------------------------------------------------------------------
(* Data handed over *)

\* accept_sequence: a number it has accepted is refused from then on, and so is all
\* it refused before.
LEMMA WindowOnlyCloses ==
  ASSUME NEW s \in Session, NEW n \in Nat, Accepts(s, n)
  PROVE  /\ Accepted(s, n) \in Session
         /\ ~Accepts(Accepted(s, n), n)
         /\ \A m \in Nat : Accepts(Accepted(s, n), m) => Accepts(s, m)
<1> DEFINE window == {w \in s.receive_window : n - w < WindowSize} \cup {n}
           t == Accepted(s, n)
<1>1. /\ s.receive_highest \in Nat /\ s.receive_window \subseteq Nat
      /\ WindowSize \in Nat /\ WindowSize # 0 /\ n # 0
  BY WindowSizeAssumption DEF Session, Accepts
<1>2. CASE n > s.receive_highest
  <2>1. t = [s EXCEPT !.receive_highest = n, !.receive_window = window]
    BY <1>2 DEF Accepted
  <2>2. window \subseteq Nat /\ n \in window
    BY <1>1
  <2>3. t \in Session /\ t.receive_highest = n /\ t.receive_window = window
    <3> HIDE DEF window, t
    <3> QED
      BY <1>1, <2>1, <2>2 DEF Session
  <2>4. ASSUME NEW m \in Nat, Accepts(t, m) PROVE Accepts(s, m)
    <3>1. m # 0 /\ (m > n \/ (n - m < WindowSize /\ m \notin window))
      <4> HIDE DEF window, t
      <4> QED
        BY <2>3, <2>4 DEF Accepts
    <3>2. CASE m > s.receive_highest
      BY <3>1, <3>2 DEF Accepts
    <3>3. CASE ~(m > s.receive_highest)
      <4>1. n - m < WindowSize /\ m \notin window
        BY <1>1, <1>2, <3>1, <3>3
      <4>2. m \notin s.receive_window
        BY <4>1
      <4>3. s.receive_highest - m < WindowSize
        BY <1>1, <1>2, <4>1
      <4> QED
        BY <3>1, <4>2, <4>3 DEF Accepts
    <3> QED
      BY <3>2, <3>3
  <2>5. ~Accepts(t, n)
    <3> HIDE DEF window, t
    <3> QED
      BY <2>2, <2>3 DEF Accepts
  <2> QED
    BY <2>3, <2>4, <2>5
<1>3. CASE ~(n > s.receive_highest)
  <2>1. t = [s EXCEPT !.receive_window = @ \cup {n}]
    BY <1>3 DEF Accepted
  <2>2. /\ t \in Session /\ t.receive_highest = s.receive_highest
        /\ t.receive_window = s.receive_window \cup {n}
    <3> HIDE DEF t
    <3> QED
      BY <1>1, <2>1 DEF Session
  <2>3. \A m \in Nat : Accepts(t, m) => Accepts(s, m)
    <3> HIDE DEF t
    <3> QED
      BY <2>2 DEF Accepts
  <2>4. ~Accepts(t, n)
    <3> HIDE DEF t
    <3> QED
      BY <1>3, <2>2 DEF Accepts
  <2> QED
    BY <2>2, <2>3, <2>4
<1> QED
  BY <1>2, <1>3

LEMMA DataHandedStep ==
  ASSUME WindowInv, NEW d \in Device, NEW x \in net, DataHanded(d, x)
  PROVE  WindowInv'
<1>1. Typed /\ Numbered /\ Waits /\ SentOnce /\ Refuses
  BY DEF WindowInv
<1>2. /\ UNCHANGED <<incarnation, host, trusted, announced, seen_handshakes, addresses, pending>>
      /\ spent' = spent \/ Spend({"duplicate"})
      /\ \A y \in net' : y \in net
      /\ x.kind = "data" /\ x.from = Peer(d) /\ sessions[d] # None
      /\ Accepts(sessions[d], x.sequence)
  BY DEF DataHanded, Authentic, TakesAndSends, Arrived, world, To
<1>3. /\ spent' \in [EnvironmentKind -> Nat]
      /\ spent'["send"] \in Nat /\ spent'["send"] >= spent["send"]
      /\ spent'["fail"] \in Nat /\ spent'["fail"] >= spent["fail"]
  BY <1>1, <1>2, SpendGrows
<1>4. sessions[d] \in Session /\ x.sequence \in Nat /\ x.message \in Nat
  BY <1>1, <1>2, Types, TypedFacts
<1> DEFINE session == Accepted(sessions[d], x.sequence)
<1>5. /\ session \in Session /\ ~Accepts(session, x.sequence)
      /\ \A m \in Nat : Accepts(session, m) => Accepts(sessions[d], m)
  BY <1>2, <1>4, WindowOnlyCloses
<1>6. /\ sessions' = [sessions EXCEPT ![d] = session]
      /\ handed' = [handed EXCEPT ![d] = @ \cup {x.message}]
      /\ got' = [got EXCEPT ![d] = @ \cup {x.message}]
  BY DEF DataHanded
<1> HIDE DEF session
<1>7. /\ sessions' \in [Device -> Session \cup {None}]
      /\ handed' \in [Device -> SUBSET Nat] /\ got' \in [Device -> SUBSET Nat]
  BY <1>1, <1>4, <1>5, <1>6, Types
<1>8. /\ \A e \in Device : sessions'[e] = IF e = d THEN session ELSE sessions[e]
      /\ \A e \in Device :
           handed'[e] = IF e = d THEN handed[e] \cup {x.message} ELSE handed[e]
  BY <1>1, <1>6, Types
<1>9. Typed'
  BY <1>1, <1>2, <1>3, <1>7, Types, TypedFacts DEF Typed, TypeOK
<1>10. Numbered'
  <2>1. \A y \in net' : y.kind = "data" => y.message <= spent'["send"]
    BY <1>1, <1>2, <1>3, TypedFacts DEF Numbered
  <2>2. x.message <= spent'["send"]
    BY <1>1, <1>2, <1>3, TypedFacts DEF Numbered
  <2>3. \A e \in Device : \A m \in handed[e] : m <= spent'["send"]
    BY <1>1, <1>3, TypedFacts DEF Numbered
  <2>4. \A e \in Device : \A i \in 1..Len(pending'[e]) : pending'[e][i] <= spent'["send"]
    <3>1. \A e \in Device : \A i \in 1..Len(pending[e]) :
            pending[e][i] \in Nat /\ pending[e][i] <= spent["send"]
      BY <1>1, TypedFacts DEF Numbered
    <3>2. spent["send"] \in Nat /\ pending' = pending
      BY <1>1, <1>2, TypedFacts
    <3> QED
      BY <1>3, <3>1, <3>2
  <2>5. \A e \in Device : \A m \in handed'[e] : m \in handed[e] \/ m = x.message
    BY <1>8
  <2>6. \A e \in Device : \A m \in handed'[e] : m <= spent'["send"]
    BY <2>2, <2>3, <2>5
  <2> QED
    BY <2>1, <2>4, <2>6 DEF Numbered
<1>11. Waits'
  <2> SUFFICES ASSUME NEW e \in Device, NEW i \in 1..Len(pending[e])
               PROVE  /\ pending[e][i] \notin handed'[Peer(e)]
                      /\ \A y \in net' : IsData(y, e) => y.message # pending[e][i]
                      /\ \A j \in 1..Len(pending[e]) : pending[e][i] = pending[e][j] => i = j
    BY <1>2 DEF Waits
  <2>1. pending[e][i] \notin handed[Peer(e)]
    BY <1>1 DEF Waits
  <2>2. Peer(e) = d => x.message # pending[e][i]
    BY <1>1, <1>2, PeerOfPeer DEF Waits, IsData
  <2>3. pending[e][i] \notin handed'[Peer(e)]
    BY <1>8, <2>1, <2>2, PeerOfPeer
  <2> QED
    BY <1>1, <1>2, <2>3 DEF Waits
<1>12. SentOnce'
  BY <1>1, <1>2 DEF SentOnce
<1>13. Refuses'
  <2> SUFFICES ASSUME NEW e \in Device, NEW y \in net, IsData(y, Peer(e)),
                      y.message \in handed'[e]
               PROVE  ~Accepts(sessions'[e], y.sequence)
    BY <1>2 DEF Refuses
  <2>1. y.sequence \in Nat
    BY <1>1, TypedFacts DEF IsData
  <2>2. CASE e # d
    BY <1>1, <1>8, <2>2 DEF Refuses
  <2>3. CASE e = d /\ y.message \in handed[d]
    BY <1>1, <1>5, <1>8, <2>1, <2>3 DEF Refuses
  <2>4. CASE e = d /\ y.message = x.message
    <3>1. y.sequence = x.sequence
      BY <1>1, <1>2, <2>4, PeerOfPeer DEF SentOnce, IsData
    <3> QED
      BY <1>5, <1>8, <2>4, <3>1
  <2> QED
    BY <1>8, <2>2, <2>3, <2>4
<1>14. PendingOnlyWithoutSession'
  BY <1>2, <1>3, <1>8, NothingWaits
<1> QED
  BY <1>9, <1>10, <1>11, <1>12, <1>13, <1>14 DEF WindowInv

----------------------------------------------------------------------------
(* Theorems *)

LEMMA WindowInit == Init => WindowInv
<1> SUFFICES ASSUME Init PROVE WindowInv
  OBVIOUS
<1>1. /\ <<0>> \in Seq(Nat) /\ <<>> \in Seq(Nat) /\ Len(<<>>) = 0
      /\ MaxPending \in Nat
  BY EmptySeq, MaxPendingAssumption
<1>2. Typed
  BY <1>1 DEF Init, Typed, TypeOK
<1>3. \A d \in Device : pending[d] = <<>> /\ handed[d] = {} /\ sessions[d] = None
  BY DEF Init
<1>4. \A d \in Device : 1..Len(pending[d]) = {}
  BY <1>1, <1>3
<1>5. net = {}
  BY DEF Init
<1>6. Numbered /\ Waits /\ SentOnce /\ Refuses
  BY <1>3, <1>4, <1>5 DEF Numbered, Waits, SentOnce, Refuses
<1>7. PendingOnlyWithoutSession
  BY <1>3 DEF PendingOnlyWithoutSession
<1> QED
  BY <1>2, <1>6, <1>7 DEF WindowInv

LEMMA WindowNext == WindowInv /\ [Next]_vars => WindowInv'
<1> SUFFICES ASSUME WindowInv, [Next]_vars PROVE WindowInv'
  OBVIOUS
<1>1. CASE UNCHANGED vars
  BY <1>1 DEF vars, WindowInv, Typed, TypeOK, Numbered, Waits, SentOnce, Refuses,
              PendingOnlyWithoutSession
<1>2. ASSUME NEW d \in Device, Resolve(d) \/ HelloTick(d) \/ SendsMessage(d)
      PROVE  WindowInv'
  BY <1>2, ResolveStep, ForgetStep, SendDataStep, SendQueuedStep DEF SendsMessage
<1>3. ASSUME NEW d \in Device, Fails(d)
      PROVE  WindowInv'
  BY <1>3, ResolveStep, SendDataStep, SendQueuedStep, HelloAnswerFailsStep, FlushStep DEF Fails
<1>4. ASSUME NEW d \in Device, HelloArrives(d)
      PROVE  WindowInv'
  BY <1>4, IgnoredStep, FlushStep DEF HelloArrives
<1>5. ASSUME NEW d \in Device, DataArrives(d)
      PROVE  WindowInv'
  BY <1>5, IgnoredStep, AnotherSessionStep, DataHandedStep DEF DataArrives
<1>6. ASSUME NEW d \in Device, Restart(d) \/ Roam(d) \/ Unpair(d)
      PROVE  WindowInv'
  BY <1>6, RestartStep, ResolveStep
<1>7. ASSUME NEW x \in net, Lose(x)
      PROVE  WindowInv'
  BY <1>7, LoseStep
<1> QED
  BY <1>1, <1>2, <1>3, <1>4, <1>5, <1>6, <1>7 DEF Next, Environment

\* The invariant: one number for a message, and a window that refuses what it let
\* through.
THEOREM WindowSound == Spec => []WindowInv
<1>1. Init => WindowInv
  BY WindowInit
<1>2. WindowInv /\ [Next]_vars => WindowInv'
  BY WindowNext
<1> QED
  BY <1>1, <1>2, PTL DEF Spec

\* Every variable of the transport keeps its type, and the queue its bound
\* (MAX_PENDING_MESSAGES).
THEOREM TypeCorrect == Spec => []TypeOK
<1>1. WindowInv => TypeOK
  BY DEF WindowInv, Typed
<1> QED
  BY <1>1, WindowSound, PTL

\* Nothing waits for a session that is there (handle_hello flushes, send_message
\* queues only without one), unless a send failed.
THEOREM NothingWaitsForASession == Spec => []PendingOnlyWithoutSession
<1>1. WindowInv => PendingOnlyWithoutSession
  BY DEF WindowInv
<1> QED
  BY <1>1, WindowSound, PTL

\* While a session lasts no message is handed over twice (accept_sequence), whatever
\* the network repeats, reorders or loses.
THEOREM HandedOnce == Spec => OnceWhileSessionLasts
<1> DEFINE Once == \A d \in Device, x \in net : DataHanded(d, x) => x.message \notin handed[d]
<1>1. WindowInv => Once
  <2> SUFFICES ASSUME WindowInv, NEW d \in Device, NEW x \in net, DataHanded(d, x),
                      x.message \in handed[d]
               PROVE  FALSE
    OBVIOUS
  <2>1. IsData(x, Peer(d)) /\ Accepts(sessions[d], x.sequence)
    BY DEF DataHanded, Authentic, TakesAndSends, Arrived, IsData
  <2> QED
    BY <2>1 DEF WindowInv, Refuses
<1>2. WindowInv => [Once]_vars
  BY <1>1
<1> HIDE DEF Once
<1>3. Spec => [][Once]_vars
  BY <1>2, WindowSound, PTL
<1> QED
  BY <1>3 DEF OnceWhileSessionLasts, Once

----------------------------------------------------------------------------
(* What is refused *)

\* Nothing has ended a session or kept a device from making one.
Calm == \A kind \in {"restart", "roam", "unpair", "fail"} : spent[kind] = 0

\* Numbers d has given in its session.
Given(d) == IF sessions[d] = None THEN 0 ELSE sessions[d].send_sequence

\* All sessions and datagrams are of the one incarnation and address there is.
OneOfEach ==
  /\ \A d \in Device : incarnation[d] = 1 /\ host[d] = 0 /\ trusted[d]
  /\ \A d \in Device : sessions[d] # None => sessions[d].peer = 1 /\ sessions[d].addr = 0
  /\ \A x \in net : x.incarnation = 1 /\ x.at = 0 /\ (x.kind = "data" => x.for = 1)

\* What d sends has a number of its own, and what its peer's window marks was handed
\* over.
MarksHanded(d) ==
  /\ \A x \in net : IsData(x, d) => x.sequence \in 1..Given(d)
  /\ \A x, y \in net :
       IsData(x, d) /\ IsData(y, d) /\ x.sequence = y.sequence => x.message = y.message
  /\ sessions[d] # None =>
       /\ \A s \in sessions[d].receive_window : s <= Given(Peer(d))
       /\ \A x \in net :
            IsData(x, Peer(d)) /\ x.sequence \in sessions[d].receive_window
              => x.message \in handed[d]

CalmInv == Calm => OneOfEach /\ \A d \in Device : MarksHanded(d)

LEMMA GivenIs ==
  ASSUME Typed, NEW d \in Device
  PROVE  /\ Given(d) \in Nat
         /\ sessions[d] # None => sessions[d] \in Session
BY DEF Typed, Given, Session

LEMMA CalmBefore ==
  ASSUME Typed, NEW kinds, UNCHANGED spent \/ Spend(kinds), Calm'
  PROVE  Calm /\ (Spend(kinds) => kinds \cap {"restart", "roam", "unpair", "fail"} = {})
<1>1. \A k \in {"restart", "roam", "unpair", "fail"} :
        k \in EnvironmentKind /\ spent[k] \in Nat /\ spent'[k] = 0
  BY DEF Typed, TypeOK, EnvironmentKind, Calm
<1>2. CASE spent' = spent /\ ~Spend(kinds)
  BY <1>1, <1>2 DEF Calm
<1>3. CASE Spend(kinds)
  <2>1. \A k \in EnvironmentKind : spent'[k] = IF k \in kinds THEN spent[k] + 1 ELSE spent[k]
    BY <1>3 DEF Spend
  <2>2. \A k \in {"restart", "roam", "unpair", "fail"} : k \notin kinds /\ spent[k] = 0
    BY <1>1, <2>1
  <2> QED
    BY <2>2 DEF Calm
<1> QED
  BY <1>2, <1>3

\* d sends, or nobody does; windows stay as they are, or begin.
LEMMA GivesStep ==
  ASSUME WindowInv, Typed', OneOfEach, \A e \in Device : MarksHanded(e),
         NEW d \in Device, NEW sent,
         UNCHANGED <<incarnation, host, trusted>>,
         \A x \in net' : x \in net \/ (x \in Hello /\ x.incarnation = 1 /\ x.at = 0) \/ x \in sent,
         \A x \in sent : /\ x \in Data /\ x.from = d /\ x.incarnation = 1 /\ x.at = 0 /\ x.for = 1
                         /\ x.sequence > Given(d) /\ x.sequence <= Given(d)',
         \A x, y \in sent : x.sequence = y.sequence => x.message = y.message,
         Given(d)' >= Given(d),
         \A e \in Device : e # d => sessions'[e] = sessions[e] /\ handed'[e] = handed[e],
         sessions'[d] # None => sessions'[d].peer = 1 /\ sessions'[d].addr = 0,
         sessions'[d] # None =>
           \/ sessions'[d].receive_window = {}
           \/ /\ sessions[d] # None /\ handed'[d] = handed[d]
              /\ sessions'[d].receive_window = sessions[d].receive_window
  PROVE  OneOfEach' /\ \A e \in Device : MarksHanded(e)'
<1>1. Typed
  BY DEF WindowInv
<1>2. \A x \in Hello : x.kind # "data"
  BY DEF Hello
<1>3. \A x \in net' : \A e \in Device : IsData(x, e) => x \in net \/ x \in sent
  BY <1>2 DEF IsData
<1>4. \A x \in sent : IsData(x, d) /\ x.sequence \in Nat
  BY DEF IsData, Data
<1>5. OneOfEach'
  <2>1. \A e \in Device : sessions'[e] # None => sessions'[e].peer = 1 /\ sessions'[e].addr = 0
    BY DEF OneOfEach
  <2>2. \A x \in net' : x.incarnation = 1 /\ x.at = 0 /\ (x.kind = "data" => x.for = 1)
    BY <1>2 DEF OneOfEach
  <2> QED
    BY <2>1, <2>2 DEF OneOfEach
<1>6. \A e \in Device : Given(e) \in Nat /\ Given(e)' \in Nat /\ Given(e)' >= Given(e)
  <2>1. \A e \in Device : Given(e) \in Nat /\ Given(e)' \in Nat
    BY <1>1, GivenIs DEF Typed, Given, Session
  <2>2. \A e \in Device : e # d => Given(e)' = Given(e)
    BY DEF Given
  <2> QED
    BY <2>1, <2>2
<1>7. ASSUME NEW e \in Device
      PROVE  MarksHanded(e)'
  <2>1. MarksHanded(e)
    OBVIOUS
  <2>2. \A x \in net' : IsData(x, e) => x \in net \/ (x \in sent /\ e = d)
    BY <1>3, <1>4 DEF IsData
  <2>3. \A x \in net : IsData(x, e) => x.sequence \in 1..Given(e)
    BY <2>1 DEF MarksHanded
  <2>4. \A x \in net' : IsData(x, e) => x.sequence \in 1..Given(e)'
    <3>1. \A x \in net : IsData(x, e) => x.sequence \in 1..Given(e)'
      BY <1>6, <2>3
    <3>2. \A x \in sent : e = d => x.sequence \in 1..Given(e)'
      BY <1>4, <1>6
    <3> QED
      BY <2>2, <3>1, <3>2
  <2>5. ASSUME NEW x \in net', NEW y \in net', IsData(x, e), IsData(y, e), x.sequence = y.sequence
        PROVE  x.message = y.message
    <3>1. CASE x \in net /\ y \in net
      BY <2>1, <2>5, <3>1 DEF MarksHanded
    <3>2. CASE x \in sent /\ y \in sent
      BY <2>5, <3>2
    <3>3. \A u \in net, v \in sent : IsData(u, e) /\ e = d => u.sequence # v.sequence
      BY <1>4, <1>6, <2>3
    <3> QED
      BY <2>2, <2>5, <3>1, <3>2, <3>3
  <2>6. ASSUME sessions'[e] # None
        PROVE  /\ \A s \in sessions'[e].receive_window : s <= Given(Peer(e))'
               /\ \A x \in net' :
                    IsData(x, Peer(e)) /\ x.sequence \in sessions'[e].receive_window
                      => x.message \in handed'[e]
    <3>1. CASE sessions'[e].receive_window = {}
      BY <3>1
    <3>2. CASE /\ sessions[e] # None /\ handed'[e] = handed[e]
               /\ sessions'[e].receive_window = sessions[e].receive_window
      <4>1. /\ \A s \in sessions[e].receive_window : s <= Given(Peer(e)) /\ s \in Nat
            /\ \A x \in net : IsData(x, Peer(e)) /\ x.sequence \in sessions[e].receive_window
                                => x.message \in handed[e]
        BY <1>1, <2>1, <3>2, GivenIs DEF MarksHanded, Session
      <4>2. Peer(e) \in Device
        BY PeerOfPeer
      <4>3. \A s \in sessions[e].receive_window : s <= Given(Peer(e))'
        BY <1>6, <4>1, <4>2
      <4>4. ASSUME NEW x \in net', IsData(x, Peer(e)), x.sequence \in sessions[e].receive_window
            PROVE  x.message \in handed[e]
        <5>1. CASE x \in net
          BY <4>1, <4>4, <5>1
        <5>2. CASE x \in sent
          <6>1. Peer(e) = d
            BY <4>4, <5>2 DEF IsData
          <6>2. x.sequence > Given(Peer(e)) /\ x.sequence <= Given(Peer(e))
            BY <4>1, <4>4, <5>2, <6>1
          <6> QED
            BY <1>4, <1>6, <4>2, <5>2, <6>2
        <5> QED
          BY <1>3, <4>2, <4>4, <5>1, <5>2
      <4> QED
        BY <3>2, <4>3, <4>4
    <3>3. e # d => sessions'[e] = sessions[e] /\ handed'[e] = handed[e]
      OBVIOUS
    <3> QED
      BY <2>6, <3>1, <3>2, <3>3
  <2> QED
    BY <2>4, <2>5, <2>6 DEF MarksHanded
<1> QED
  BY <1>5, <1>7

LEMMA OwnHello ==
  ASSUME Typed, OneOfEach, NEW d \in Device, NEW response \in BOOLEAN
  PROVE  LET h == HelloOf(d, response)
         IN h \in Hello /\ h.incarnation = 1 /\ h.at = 0
<1>1. HelloOf(d, response).incarnation = 1 /\ HelloOf(d, response).at = 0
  BY DEF HelloOf, OneOfEach
<1> QED
  BY <1>1, HelloOfTyped

\* Hellos are sent, datagrams are lost.
LEMMA CalmQuiet ==
  ASSUME WindowInv, Typed', OneOfEach, \A e \in Device : MarksHanded(e),
         UNCHANGED <<incarnation, host, trusted, sessions, handed>>,
         \A x \in net' : x \in net \/ \E e \in Device, r \in BOOLEAN : x = HelloOf(e, r)
  PROVE  OneOfEach' /\ \A e \in Device : MarksHanded(e)'
<1>1. Typed /\ 1 \in Device
  BY DEF WindowInv, Device
<1>2. \A x \in net' : x \in net \/ (x \in Hello /\ x.incarnation = 1 /\ x.at = 0)
  BY <1>1, OwnHello
<1> DEFINE sent == {}
<1>3. /\ \A x \in sent : /\ x \in Data /\ x.from = 1 /\ x.incarnation = 1 /\ x.at = 0 /\ x.for = 1
                         /\ x.sequence > Given(1) /\ x.sequence <= Given(1)'
      /\ \A x, y \in sent : x.sequence = y.sequence => x.message = y.message
  OBVIOUS
<1> HIDE DEF sent
<1>4. Given(1)' = Given(1) /\ Given(1) \in Nat
  BY <1>1, GivenIs DEF Given
<1>5. \A x \in net' : x \in net \/ (x \in Hello /\ x.incarnation = 1 /\ x.at = 0) \/ x \in sent
  BY <1>2
<1>6. sessions[1] # None => sessions[1].peer = 1 /\ sessions[1].addr = 0
  BY <1>1 DEF OneOfEach
<1>7. Given(1)' >= Given(1)
  BY <1>4
<1> QED
  BY <1>1, <1>3, <1>5, <1>6, <1>7, GivesStep

LEMMA CalmSendData ==
  ASSUME WindowInv, Typed', OneOfEach, \A e \in Device : MarksHanded(e),
         NEW d \in Device, SendData(d)
  PROVE  OneOfEach' /\ \A e \in Device : MarksHanded(e)'
<1>1. Typed
  BY DEF WindowInv
<1>2. /\ UNCHANGED <<incarnation, host, trusted, handed>> /\ sessions[d] # None
      /\ sessions' = [sessions EXCEPT ![d].send_sequence = @ + 1]
      /\ net' = net \cup To(d, sessions[d].addr, {DataOf(d, sessions[d], 1, Number)})
  BY DEF SendData, world
<1>3. sessions[d] \in Session /\ Number \in Nat /\ 1 \in Nat
  BY <1>1, <1>2, GivenIs, TypedFacts DEF Number
<1> DEFINE counted == [sessions[d] EXCEPT !.send_sequence = @ + 1]
<1>4. /\ counted \in Session /\ counted.receive_window = sessions[d].receive_window
      /\ counted.send_sequence = sessions[d].send_sequence + 1
      /\ counted.peer = sessions[d].peer /\ counted.addr = sessions[d].addr
  BY <1>3 DEF Session
<1> HIDE DEF counted
<1>5. sessions' = [sessions EXCEPT ![d] = counted]
  BY <1>2 DEF counted
<1>6. \A e \in Device : sessions'[e] = IF e = d THEN counted ELSE sessions[e]
  BY <1>1, <1>5, Types
<1>7. /\ Given(d) = sessions[d].send_sequence /\ Given(d)' = Given(d) + 1 /\ Given(d) \in Nat
  BY <1>1, <1>2, <1>4, <1>6, GivenIs, NoneAssumption DEF Given
<1>8. sessions[d].peer = 1 /\ sessions[d].addr = 0 /\ incarnation[d] = 1 /\ host[d] = 0
  BY <1>2 DEF OneOfEach
<1> DEFINE sent == {DataOf(d, sessions[d], 1, Number)}
<1>9. \A x \in sent : /\ x \in Data /\ x.from = d /\ x.incarnation = 1 /\ x.at = 0 /\ x.for = 1
                      /\ x.sequence = Given(d) + 1
  <2>1. /\ DataOf(d, sessions[d], 1, Number) \in Data
        /\ DataOf(d, sessions[d], 1, Number).from = d
        /\ DataOf(d, sessions[d], 1, Number).sequence = sessions[d].send_sequence + 1
    BY <1>1, <1>3, DataOfTyped
  <2>2. /\ DataOf(d, sessions[d], 1, Number).incarnation = 1
        /\ DataOf(d, sessions[d], 1, Number).at = 0
        /\ DataOf(d, sessions[d], 1, Number).for = 1
    BY <1>8 DEF DataOf
  <2> QED
    BY <1>7, <2>1, <2>2
<1>10. \A x, y \in sent : x.sequence = y.sequence => x.message = y.message
  OBVIOUS
<1>11. \A x \in net' : x \in net \/ (x \in Hello /\ x.incarnation = 1 /\ x.at = 0) \/ x \in sent
  BY <1>2 DEF To
<1> HIDE DEF sent
<1>12. \A x \in sent : x.sequence > Given(d) /\ x.sequence <= Given(d)'
  BY <1>7, <1>9
<1>13. Given(d)' >= Given(d)
  BY <1>7
<1>14. /\ sessions'[d].peer = 1 /\ sessions'[d].addr = 0
       /\ sessions'[d].receive_window = sessions[d].receive_window
  BY <1>4, <1>6, <1>8
<1>15. \A x \in sent : /\ x \in Data /\ x.from = d /\ x.incarnation = 1 /\ x.at = 0 /\ x.for = 1
                       /\ x.sequence > Given(d) /\ x.sequence <= Given(d)'
  BY <1>9, <1>12
<1>16. \A e \in Device : e # d => sessions'[e] = sessions[e] /\ handed'[e] = handed[e]
  BY <1>2, <1>6
<1>17. /\ sessions'[d] # None => sessions'[d].peer = 1 /\ sessions'[d].addr = 0
       /\ sessions[d] # None /\ handed'[d] = handed[d]
       /\ sessions'[d].receive_window = sessions[d].receive_window
  BY <1>2, <1>14
<1>18. UNCHANGED <<incarnation, host, trusted>>
  BY <1>2
<1> QED
  BY <1>10, <1>11, <1>13, <1>15, <1>16, <1>17, <1>18, GivesStep

LEMMA CalmHello ==
  ASSUME WindowInv, Typed', OneOfEach, \A e \in Device : MarksHanded(e),
         NEW d \in Device, NEW h \in net, HelloTaken(d, h)
  PROVE  OneOfEach' /\ \A e \in Device : MarksHanded(e)'
<1> DEFINE L == Len(pending[d])
           s == SessionFor(d, h)
           kept == [s EXCEPT !.send_sequence = @ + L]
<1>1. Typed
  BY DEF WindowInv
<1>2. /\ Handshake(d, h) /\ UNCHANGED <<incarnation, host, trusted>>
      /\ sessions' = [sessions EXCEPT ![d] = kept]
      /\ handed' = IF Known(d, h) THEN handed ELSE [handed EXCEPT ![d] = {}]
      /\ \A x \in net' : x \in net \/ x \in Answer(d, h) \/ x \in Flushed(d, h, L)
  BY DEF HelloTaken, TakesAndSends, world
<1>3. s \in Session /\ L \in Nat
  BY <1>1, <1>2, HandshakeIs, TypedFacts
<1>4. h.incarnation = 1 /\ h.at = 0 /\ incarnation[d] = 1 /\ host[d] = 0
  BY DEF OneOfEach
<1>5. /\ s.peer = 1 /\ s.addr = 0 /\ s.send_sequence = Given(d)
      /\ IF Known(d, h) THEN sessions[d] # None /\ s.receive_window = sessions[d].receive_window
         ELSE s.receive_window = {}
  <2>1. CASE sessions[d] # None
    <3>1. sessions[d] \in Session /\ sessions[d].peer = 1
      BY <1>1, <2>1, GivenIs DEF OneOfEach
    <3>2. Known(d, h) /\ s = [sessions[d] EXCEPT !.addr = h.at]
      BY <1>4, <2>1, <3>1 DEF Known, SessionFor
    <3> QED
      BY <1>4, <2>1, <3>1, <3>2 DEF Session, Given
  <2>2. CASE sessions[d] = None
    BY <1>4, <2>2 DEF SessionFor, Known, NewSession, Given
  <2> QED
    BY <2>1, <2>2
<1> HIDE DEF s, L
<1>6. /\ kept \in Session /\ kept.receive_window = s.receive_window
      /\ kept.send_sequence = Given(d) + L /\ kept.peer = 1 /\ kept.addr = 0
  BY <1>3, <1>5 DEF Session
<1> HIDE DEF kept
<1>7. \A e \in Device : /\ sessions'[e] = IF e = d THEN kept ELSE sessions[e]
                        /\ e # d => handed'[e] = handed[e]
                        /\ Known(d, h) => handed'[e] = handed[e]
  BY <1>1, <1>2, Types
<1>8. Given(d)' = Given(d) + L /\ Given(d) \in Nat
  BY <1>1, <1>6, <1>7, GivenIs, NoneAssumption DEF Given
<1> DEFINE sent == Flushed(d, h, L)
<1>9. \A x \in sent : \E i \in 1..L : x = DataOf(d, s, i, pending[d][i])
  BY DEF Flushed, To, s
<1>10. ASSUME NEW i \in 1..L
       PROVE  LET x == DataOf(d, s, i, pending[d][i])
              IN /\ x \in Data /\ x.from = d /\ x.incarnation = 1 /\ x.at = 0 /\ x.for = 1
                 /\ x.sequence = Given(d) + i /\ x.message = pending[d][i]
  <2>1. i \in Nat /\ pending[d][i] \in Nat
    BY <1>1, <1>3, TypedFacts DEF L
  <2>2. /\ DataOf(d, s, i, pending[d][i]).incarnation = 1
        /\ DataOf(d, s, i, pending[d][i]).at = 0 /\ DataOf(d, s, i, pending[d][i]).for = 1
    BY <1>4, <1>5 DEF DataOf
  <2>3. /\ DataOf(d, s, i, pending[d][i]) \in Data
        /\ DataOf(d, s, i, pending[d][i]).from = d
        /\ DataOf(d, s, i, pending[d][i]).message = pending[d][i]
        /\ DataOf(d, s, i, pending[d][i]).sequence = s.send_sequence + i
    BY <1>1, <1>3, <2>1, DataOfTyped
  <2> QED
    BY <1>5, <2>2, <2>3
<1>11. \A x \in sent : /\ x \in Data /\ x.from = d /\ x.incarnation = 1 /\ x.at = 0 /\ x.for = 1
                       /\ x.sequence > Given(d) /\ x.sequence <= Given(d)'
  <2>1. ASSUME NEW x \in sent
        PROVE  /\ x \in Data /\ x.from = d /\ x.incarnation = 1 /\ x.at = 0 /\ x.for = 1
               /\ x.sequence > Given(d) /\ x.sequence <= Given(d)'
    <3>1. PICK i \in 1..L : x = DataOf(d, s, i, pending[d][i])
      BY <1>9
    <3>2. Given(d) + i > Given(d) /\ Given(d) + i <= Given(d) + L
      BY <1>3, <1>8
    <3> QED
      BY <1>8, <1>10, <3>1, <3>2
  <2> QED
    BY <2>1
<1>12. ASSUME NEW x \in sent, NEW y \in sent, x.sequence = y.sequence
       PROVE  x.message = y.message
  <2>1. PICK i \in 1..L : x = DataOf(d, s, i, pending[d][i])
    BY <1>9
  <2>2. PICK j \in 1..L : y = DataOf(d, s, j, pending[d][j])
    BY <1>9
  <2>3. Given(d) + i = Given(d) + j
    BY <1>10, <1>12, <2>1, <2>2
  <2>4. i = j
    BY <1>3, <1>8, <2>3
  <2> QED
    BY <2>1, <2>2, <2>4
<1>13. \A x \in net' : x \in net \/ (x \in Hello /\ x.incarnation = 1 /\ x.at = 0) \/ x \in sent
  <2>1. HelloOf(d, TRUE) \in Hello /\ HelloOf(d, TRUE).incarnation = 1 /\ HelloOf(d, TRUE).at = 0
    BY <1>1, OwnHello
  <2>2. \A x \in Answer(d, h) : x = HelloOf(d, TRUE)
    BY DEF Answer, To
  <2> QED
    BY <1>2, <2>1, <2>2
<1> HIDE DEF sent
<1>14. Given(d)' >= Given(d)
  BY <1>3, <1>8
<1>15. sessions'[d].peer = 1 /\ sessions'[d].addr = 0
  BY <1>6, <1>7
<1>16. \/ sessions'[d].receive_window = {}
       \/ /\ sessions[d] # None /\ handed'[d] = handed[d]
          /\ sessions'[d].receive_window = sessions[d].receive_window
  BY <1>5, <1>6, <1>7
<1> QED
  BY <1>2, <1>7, <1>11, <1>12, <1>13, <1>14, <1>15, <1>16, GivesStep

\* A number is marked when its message is handed over.
LEMMA CalmHanded ==
  ASSUME WindowInv, OneOfEach, \A e \in Device : MarksHanded(e),
         NEW d \in Device, NEW x \in net, DataHanded(d, x)
  PROVE  OneOfEach' /\ \A e \in Device : MarksHanded(e)'
<1>1. Typed
  BY DEF WindowInv
<1>2. /\ UNCHANGED <<incarnation, host, trusted>> /\ sessions[d] # None
      /\ IsData(x, Peer(d)) /\ Accepts(sessions[d], x.sequence)
      /\ \A y \in net' : y \in net
      /\ sessions' = [sessions EXCEPT ![d] = Accepted(@, x.sequence)]
      /\ handed' = [handed EXCEPT ![d] = @ \cup {x.message}]
  BY DEF DataHanded, Authentic, TakesAndSends, Arrived, IsData, world
<1> DEFINE s == Accepted(sessions[d], x.sequence)
<1>3. sessions[d] \in Session /\ x.sequence \in Nat
  BY <1>1, <1>2, GivenIs, TypedFacts DEF IsData
<1>4. /\ s.peer = sessions[d].peer /\ s.addr = sessions[d].addr
      /\ s.send_sequence = sessions[d].send_sequence
      /\ s.receive_window \subseteq sessions[d].receive_window \cup {x.sequence}
  BY <1>3 DEF Accepted, Session
<1>5. s \in Session
  BY <1>2, <1>3, WindowOnlyCloses
<1> HIDE DEF s
<1>6. \A e \in Device : /\ sessions'[e] = IF e = d THEN s ELSE sessions[e]
                        /\ handed'[e] = IF e = d THEN handed[e] \cup {x.message} ELSE handed[e]
  BY <1>1, <1>2, Types DEF s
<1>7. \A e \in Device : Given(e)' = Given(e)
  BY <1>2, <1>4, <1>5, <1>6, NoneAssumption DEF Given
<1>8. OneOfEach'
  BY <1>2, <1>4, <1>6 DEF OneOfEach
<1>9. ASSUME NEW e \in Device
      PROVE  MarksHanded(e)'
  <2>1. MarksHanded(e) /\ Peer(e) \in Device
    BY PeerOfPeer
  <2>2. CASE e # d
    BY <1>2, <1>6, <1>7, <2>1, <2>2 DEF MarksHanded
  <2>3. CASE e = d
    <3>1. x.sequence <= Given(Peer(d))
      BY <1>2, <1>3, <2>1, <2>3, PeerOfPeer, GivenIs, <1>1 DEF MarksHanded
    <3>2. \A n \in s.receive_window : n <= Given(Peer(d))
      BY <1>2, <1>4, <2>1, <2>3, <3>1 DEF MarksHanded
    <3>3. ASSUME NEW y \in net', IsData(y, Peer(d)), y.sequence \in s.receive_window
          PROVE  y.message \in handed'[d]
      <4>1. CASE y.sequence = x.sequence
        <5>1. y.message = x.message
          BY <1>2, <2>1, <2>3, <3>3, <4>1 DEF MarksHanded
        <5> QED
          BY <1>6, <5>1
      <4>2. CASE y.sequence \in sessions[d].receive_window
        <5>1. y.message \in handed[d]
          BY <1>2, <2>1, <2>3, <3>3, <4>2 DEF MarksHanded
        <5> QED
          BY <1>6, <5>1
      <4> QED
        BY <1>4, <3>3, <4>1, <4>2
    <3> QED
      BY <1>2, <1>6, <1>7, <2>1, <2>3, <3>2, <3>3 DEF MarksHanded
  <2> QED
    BY <2>2, <2>3
<1> QED
  BY <1>8, <1>9

LEMMA CalmNext ==
  ASSUME WindowInv, CalmInv, [Next]_vars
  PROVE  CalmInv'
<1>1. Typed /\ Typed'
  BY WindowNext DEF WindowInv
<1> SUFFICES ASSUME Calm' PROVE OneOfEach' /\ \A e \in Device : MarksHanded(e)'
  BY DEF CalmInv
<1> DEFINE harm == {"restart", "roam", "unpair", "fail"}
<1>2. ASSUME NEW kinds, UNCHANGED spent \/ Spend(kinds)
      PROVE  /\ OneOfEach /\ \A e \in Device : MarksHanded(e)
             /\ Spend(kinds) => kinds \cap harm = {}
  BY <1>1, <1>2, CalmBefore DEF CalmInv
<1>3. CASE UNCHANGED vars
  <2>1. OneOfEach /\ \A e \in Device : MarksHanded(e)
    BY <1>2, <1>3 DEF vars
  <2>2. UNCHANGED <<incarnation, host, trusted, sessions, handed, net>>
    BY <1>3 DEF vars
  <2> QED
    BY <1>1, <2>1, <2>2, CalmQuiet
<1>4. ASSUME NEW d \in Device, Resolve(d) \/ SendQueued(d) \/ HelloTick(d)
      PROVE  OneOfEach' /\ \A e \in Device : MarksHanded(e)'
  <2>1. UNCHANGED spent \/ Spend({"send"})
    BY <1>4 DEF Resolve, SendQueued, HelloTick
  <2>2. OneOfEach /\ \A e \in Device : MarksHanded(e)
    BY <1>2, <2>1
  <2>3. UNCHANGED <<incarnation, host, trusted, sessions, handed>>
    BY <1>4, <2>2 DEF Resolve, Resolved, SendQueued, Queues, HelloTick, world, OneOfEach
  <2>4. \A x \in net' : x \in net \/ x = HelloOf(d, FALSE)
    <3>1. \/ net' = net
          \/ \E addr : net' = net \cup To(d, addr, {HelloOf(d, FALSE)})
      BY <1>4, <2>2 DEF Resolve, SendQueued, HelloTick, OneOfEach
    <3> QED
      BY <3>1 DEF To
  <2> QED
    BY <1>1, <2>2, <2>3, <2>4, CalmQuiet
<1>5. ASSUME NEW d \in Device, SendUntrusted(d) \/ SendData(d)
      PROVE  OneOfEach' /\ \A e \in Device : MarksHanded(e)'
  <2>1. OneOfEach /\ \A e \in Device : MarksHanded(e)
    BY <1>2, <1>5 DEF SendUntrusted, SendData
  <2>2. SendData(d)
    BY <1>5, <2>1 DEF SendUntrusted, OneOfEach
  <2> QED
    BY <1>1, <2>1, <2>2, CalmSendData
<1>6. ASSUME NEW d \in Device, Fails(d) \/ Restart(d) \/ Roam(d) \/ Unpair(d)
      PROVE  FALSE
  <2>1. \/ Spend({"fail"}) \/ Spend({"send", "fail"}) \/ Spend({"restart"}) \/ Spend({"roam"})
        \/ Spend({"unpair"})
    BY <1>6 DEF Fails, ResolveFails, SendFails, SendQueuedFails, HelloTickFails, HelloAnswerFails,
                FlushFails, TakesAndFails, Restart, Roam, Unpair
  <2> QED
    BY <1>2, <2>1
<1>7. ASSUME NEW d \in Device, NEW x \in net,
             \/ HelloIgnored(d, x) \/ HelloTaken(d, x) \/ DataIgnored(d, x)
             \/ DataWithoutSession(d, x) \/ DataOfAnotherSession(d, x) \/ DataRefused(d, x)
             \/ DataHanded(d, x)
      PROVE  OneOfEach' /\ \A e \in Device : MarksHanded(e)'
  <2>1. UNCHANGED spent \/ Spend({"duplicate"})
    BY <1>7 DEF HelloIgnored, HelloTaken, DataIgnored, DataWithoutSession, DataOfAnotherSession,
                DataRefused, DataHanded, Authentic, TakesAndSends
  <2>2. OneOfEach /\ \A e \in Device : MarksHanded(e)
    BY <1>2, <2>1
  <2>3. ~DataOfAnotherSession(d, x)
    BY <2>2 DEF DataOfAnotherSession, OneOfEach, Decrypts
  <2>4. CASE HelloTaken(d, x)
    BY <1>1, <2>2, <2>4, CalmHello
  <2>5. CASE DataHanded(d, x)
    BY <2>2, <2>5, CalmHanded
  <2>6. CASE \/ HelloIgnored(d, x) \/ DataIgnored(d, x) \/ DataWithoutSession(d, x)
             \/ DataRefused(d, x)
    <3>1. UNCHANGED <<incarnation, host, trusted, sessions, handed>>
      BY <2>6 DEF HelloIgnored, DataIgnored, DataWithoutSession, DataRefused, Authentic,
                  TakesAndSends, world
    <3>2. \A y \in net' : y \in net \/ y = HelloOf(d, FALSE)
      <4>1. \/ TakesAndSends(d, x, {})
            \/ \E addr : TakesAndSends(d, x, To(d, addr, {HelloOf(d, FALSE)}))
        BY <2>6 DEF HelloIgnored, DataIgnored, DataWithoutSession, DataRefused, Authentic
      <4>2. \E q : q \subseteq {HelloOf(d, FALSE)} /\ TakesAndSends(d, x, q)
        BY <4>1 DEF To
      <4>3. PICK q : q \subseteq {HelloOf(d, FALSE)} /\ net' \subseteq net \cup q
        BY <4>2 DEF TakesAndSends
      <4> QED
        BY <4>3
    <3> QED
      BY <1>1, <2>2, <3>1, <3>2, CalmQuiet
  <2> QED
    BY <1>7, <2>3, <2>4, <2>5, <2>6
<1>8. ASSUME NEW x \in net, Lose(x)
      PROVE  OneOfEach' /\ \A e \in Device : MarksHanded(e)'
  <2>1. OneOfEach /\ \A e \in Device : MarksHanded(e)
    BY <1>2, <1>8 DEF Lose
  <2>2. /\ UNCHANGED <<incarnation, host, trusted, sessions, handed>>
        /\ \A y \in net' : y \in net
    BY <1>8 DEF Lose, world
  <2> QED
    BY <1>1, <2>1, <2>2, CalmQuiet
<1>9. ASSUME NEW d \in Device,
             \/ Resolve(d) \/ HelloTick(d) \/ SendsMessage(d) \/ Fails(d)
             \/ HelloArrives(d) \/ DataArrives(d)
      PROVE  OneOfEach' /\ \A e \in Device : MarksHanded(e)'
  BY <1>4, <1>5, <1>6, <1>7, <1>9 DEF SendsMessage, HelloArrives, DataArrives
<1> QED
  BY <1>3, <1>6, <1>8, <1>9 DEF Next, Environment

\* accept_sequence refuses only duplicates and what is a window behind: for every size
\* of the window, and however datagrams are lost, repeated and reordered, as long as
\* nothing has ended a session.
THEOREM OnlyOldIsRefused == Spec => OnlyOldRefused
<1> DEFINE Old == \A d \in Device, x \in net :
                    /\ DataRefused(d, x)
                    /\ \A kind \in {"restart", "roam", "unpair", "fail"} : spent[kind] = 0
                    => \/ x.message \in handed[d]
                       \/ x.sequence + WindowSize <= sessions[d].receive_highest
<1>1. WindowInv /\ CalmInv => Old
  <2> SUFFICES ASSUME WindowInv, CalmInv, NEW d \in Device, NEW x \in net, DataRefused(d, x), Calm
               PROVE  \/ x.message \in handed[d]
                      \/ x.sequence + WindowSize <= sessions[d].receive_highest
    BY DEF Calm
  <2>1. /\ IsData(x, Peer(d)) /\ sessions[d] # None /\ ~Accepts(sessions[d], x.sequence)
    BY DEF DataRefused, Authentic, TakesAndSends, Arrived, IsData
  <2>2. MarksHanded(d) /\ MarksHanded(Peer(d)) /\ Typed
    BY PeerOfPeer DEF CalmInv, WindowInv
  <2>3. /\ sessions[d].receive_highest \in Nat /\ x.sequence \in Nat /\ WindowSize \in Nat
    BY <2>1, <2>2, GivenIs, TypedFacts, WindowSizeAssumption DEF Session, IsData
  <2>4. x.sequence # 0
    BY <2>1, <2>2, PeerOfPeer, GivenIs DEF MarksHanded
  <2>5. CASE x.sequence \in sessions[d].receive_window
    BY <2>1, <2>2, <2>5 DEF MarksHanded
  <2>6. CASE ~(sessions[d].receive_highest - x.sequence < WindowSize)
    BY <2>3, <2>6
  <2> QED
    BY <2>1, <2>4, <2>5, <2>6 DEF Accepts
<1>2. Init => CalmInv
  <2>1. ASSUME Init PROVE OneOfEach /\ \A d \in Device : MarksHanded(d)
    BY <2>1 DEF Init, OneOfEach, MarksHanded
  <2> QED
    BY <2>1 DEF CalmInv
<1>3. WindowInv /\ CalmInv /\ [Next]_vars => CalmInv'
  BY CalmNext
<1>4. WindowInv /\ CalmInv => [Old]_vars
  BY <1>1
<1> HIDE DEF Old
<1>5. Spec => [][Old]_vars
  BY <1>2, <1>3, <1>4, WindowSound, PTL DEF Spec
<1> QED
  BY <1>5 DEF OnlyOldRefused, Old

=============================================================================
