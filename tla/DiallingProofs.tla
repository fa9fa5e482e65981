---------------------------- MODULE DiallingProofs ----------------------------
(***************************************************************************)
(* Proofs about Dialling: for any number of devices and connections, and   *)
(* whatever is lost, restarted, unpaired or refused, `active` is what      *)
(* peer_loops there are, and of each peer there is one at most.            *)
(*                                                                         *)
(* On the dialler's side that is so because a peer has one supervisor,     *)
(* which has one connection; on the acceptor's, because the end of a       *)
(* handshake looks at `active` again. The invariant says both, and that    *)
(* the smaller id dials, so that a device is never both for one peer.      *)
(***************************************************************************)
EXTENDS Dialling, FiniteSetTheorems, TLAPS

\* Connection s has a peer_loop of n for m.
InLoop(c, s, n, m) ==
  /\ c[s] # None
  /\ \/ c[s].from = n /\ c[s].to = m /\ c[s].near \in Loop
     \/ c[s].from = m /\ c[s].to = n /\ c[s].far \in Loop

\* The smaller id dials, and whom it supervises it counts as dialled.
SmallerDials(c, sup, dial) ==
  /\ \A s \in Slot : c[s] # None => c[s].from < c[s].to
  /\ \A d, a \in Device : sup[d][a] # None => d < a /\ a \in dial[d]

\* A near end that is not closed belongs to the supervisor of its pair, ...
NearIsSupervised(c, sup) ==
  \A s \in Slot : \A d, a \in Device :
    c[s] # None /\ c[s].from = d /\ c[s].to = a /\ c[s].near \notin Ended =>
      /\ sup[d][a] # None /\ sup[d][a].slot = s
      /\ sup[d][a].stage = (IF c[s].near = "handshake" THEN "handshake" ELSE "loop")

\* ... which has no other.
SupervisorHasNear(c, sup) ==
  \A d, a \in Device :
    sup[d][a] # None /\ sup[d][a].stage \in {"handshake", "loop"} =>
      \E s \in Slot :
        /\ sup[d][a].slot = s /\ c[s] # None
        /\ c[s].from = d /\ c[s].to = a /\ c[s].near \notin Ended

ActiveIsLoops(c, act) ==
  \A n, m \in Device : m \in act[n] <=> \E s \in Slot : InLoop(c, s, n, m)

OneLoop(c) ==
  \A n, m \in Device : \A s, t \in Slot : InLoop(c, s, n, m) /\ InLoop(c, t, n, m) => s = t

Sound(c, sup, dial, act) ==
  /\ SmallerDials(c, sup, dial)
  /\ NearIsSupervised(c, sup)
  /\ SupervisorHasNear(c, sup)
  /\ ActiveIsLoops(c, act)
  /\ OneLoop(c)

DialInv == TypeOK /\ Sound(slots, supervisor, dialing, active)

Connections == [Slot -> Connection \cup {None}]

\* A slot that is freed had no end that counts.
LEMMA FreedSound ==
  ASSUME NEW c \in Connections, NEW sup, NEW dial, NEW act, Sound(c, sup, dial, act)
  PROVE  Freed(c) \in Connections /\ Sound(Freed(c), sup, dial, act)
<1> DEFINE f == Freed(c)
<1>1. /\ f \in Connections
      /\ \A s \in Slot : \/ f[s] = c[s]
                         \/ /\ f[s] = None /\ c[s] # None
                            /\ c[s].near \in Ended /\ c[s].far \in Ended
  BY DEF Freed, Connections
<1>2. Loop \cap Ended = {}
  BY DEF Loop, Ended
<1> HIDE DEF f
<1>3. \A s \in Slot : \A n, m : InLoop(f, s, n, m) <=> InLoop(c, s, n, m)
  BY <1>1, <1>2 DEF InLoop
<1>4. SmallerDials(f, sup, dial)
  BY <1>1 DEF Sound, SmallerDials
<1>5. NearIsSupervised(f, sup)
  BY <1>1 DEF Sound, NearIsSupervised
<1>6. SupervisorHasNear(f, sup)
  BY <1>1 DEF Sound, SupervisorHasNear
<1>7. ActiveIsLoops(f, act) /\ OneLoop(f)
  BY <1>3 DEF Sound, ActiveIsLoops, OneLoop
<1> QED
  BY <1>1, <1>4, <1>5, <1>6, <1>7 DEF f, Sound

----------------------------------------------------------------------------
(* What the handlers change *)

LEMMA SpendTyped ==
  ASSUME TypeOK, NEW kind \in EnvironmentKind, Spend(kind)
  PROVE  spent' \in [EnvironmentKind -> Nat]
BY DEF TypeOK, Spend

WithNear(s, near) == [slots EXCEPT ![s].near = near]

LEMMA NearSet ==
  ASSUME TypeOK, NEW s \in Slot, NEW near \in Near, slots[s] # None,
         NEW c, c = WithNear(s, near)
  PROVE  /\ c \in Connections /\ c[s] # None
         /\ c[s].from = slots[s].from /\ c[s].to = slots[s].to
         /\ c[s].near = near /\ c[s].far = slots[s].far
         /\ \A t \in Slot : t # s => c[t] = slots[t]
<1> DEFINE r == [slots[s] EXCEPT !.near = near]
<1>1. slots \in Connections /\ slots[s] \in Connection
  BY DEF TypeOK, Connections
<1>2. /\ r \in Connection /\ r.from = slots[s].from /\ r.to = slots[s].to
      /\ r.near = near /\ r.far = slots[s].far
  BY <1>1 DEF Connection
<1>3. c = [slots EXCEPT ![s] = r]
  BY <1>1 DEF Connections, WithNear
<1> HIDE DEF r
<1>4. c[s] = r /\ \A t \in Slot : t # s => c[t] = slots[t]
  BY <1>1, <1>3 DEF Connections
<1>5. c \in Connections
  BY <1>1, <1>2, <1>3 DEF Connections
<1> QED
  BY <1>2, <1>4, <1>5, NoneAssumption

WithFar(s, far) == [slots EXCEPT ![s].far = far]

LEMMA FarSet ==
  ASSUME TypeOK, NEW s \in Slot, NEW far \in Far, slots[s] # None,
         NEW c, c = WithFar(s, far)
  PROVE  /\ c \in Connections /\ c[s] # None
         /\ c[s].from = slots[s].from /\ c[s].to = slots[s].to
         /\ c[s].near = slots[s].near /\ c[s].far = far
         /\ \A t \in Slot : t # s => c[t] = slots[t]
<1> DEFINE r == [slots[s] EXCEPT !.far = far]
<1>1. slots \in Connections /\ slots[s] \in Connection
  BY DEF TypeOK, Connections
<1>2. /\ r \in Connection /\ r.from = slots[s].from /\ r.to = slots[s].to
      /\ r.near = slots[s].near /\ r.far = far
  BY <1>1 DEF Connection
<1>3. c = [slots EXCEPT ![s] = r]
  BY <1>1 DEF Connections, WithFar
<1> HIDE DEF r
<1>4. c[s] = r /\ \A t \in Slot : t # s => c[t] = slots[t]
  BY <1>1, <1>3 DEF Connections
<1>5. c \in Connections
  BY <1>1, <1>2, <1>3 DEF Connections
<1> QED
  BY <1>2, <1>4, <1>5, NoneAssumption

LEMMA BecomesSets ==
  ASSUME TypeOK, NEW d \in Device, NEW a \in Device, NEW value \in Supervisor,
         Becomes(d, a, value)
  PROVE  /\ supervisor' \in [Device -> [Device -> Supervisor]]
         /\ supervisor'[d][a] = value
         /\ \A e, b \in Device : e # d \/ b # a => supervisor'[e][b] = supervisor[e][b]
BY DEF TypeOK, Becomes

\* A supervisor that has no connection in its hands: it rests, or has stopped.
Rests(d, a) ==
  /\ supervisor' \in [Device -> [Device -> Supervisor]]
  /\ dialing' \in [Device -> SUBSET Device]
  /\ supervisor'[d][a] = None \/ (supervisor'[d][a].stage \notin {"handshake", "loop"} /\ a \in dialing'[d])
  /\ \A e, b \in Device : e # d \/ b # a =>
       supervisor'[e][b] = supervisor[e][b] /\ (b \in dialing'[e] <=> b \in dialing[e])

LEMMA StopsRests ==
  ASSUME TypeOK, NEW d \in Device, NEW a \in Device, Stops(d, a)
  PROVE  Rests(d, a)
<1>1. None \in Supervisor /\ Becomes(d, a, None)
  BY DEF Supervisor, Stops
<1>2. /\ dialing' \in [Device -> SUBSET Device]
      /\ \A e, b \in Device : e # d \/ b # a => (b \in dialing'[e] <=> b \in dialing[e])
  BY DEF TypeOK, Stops
<1> QED
  BY <1>1, <1>2, BecomesSets DEF Rests

LEMMA SleepsRests ==
  ASSUME DialInv, NEW d \in Device, NEW a \in Device, supervisor[d][a] # None,
         SleepsOrStops(d, a)
  PROVE  Rests(d, a)
<1> DEFINE v == [supervisor[d][a] EXCEPT !.stage = "sleep", !.slot = None]
<1>1. TypeOK /\ a \in dialing[d] /\ dialing \in [Device -> SUBSET Device]
  BY DEF DialInv, Sound, SmallerDials, TypeOK
<1>2. CASE a \in peers[d]
  <2>1. Becomes(d, a, v) /\ dialing' = dialing
    BY <1>2 DEF SleepsOrStops
  <2>2. supervisor[d][a] \in Supervisor \ {None}
    BY <1>1 DEF TypeOK
  <2>3. v \in Supervisor /\ v.stage = "sleep"
    BY <2>2 DEF Supervisor, Supervising
  <2> HIDE DEF v
  <2> QED
    BY <1>1, <2>1, <2>3, BecomesSets DEF Rests
<1>3. CASE a \notin peers[d]
  BY <1>1, <1>3, StopsRests DEF SleepsOrStops
<1> QED
  BY <1>2, <1>3

\* What a supervisor and its near ends are to each other survives a step that
\* leaves the other pairs as they are and has no near end for a supervisor that
\* rests.
LEMMA RestSound ==
  ASSUME DialInv, NEW d \in Device, NEW a \in Device, d < a, Rests(d, a), NEW c,
         \A s \in Slot :
           /\ c[s] # None =>
                /\ slots[s] # None /\ c[s].from = slots[s].from /\ c[s].to = slots[s].to
                /\ c[s].from = d /\ c[s].to = a => c[s].near \in Ended
           /\ slots[s] # None /\ (slots[s].from # d \/ slots[s].to # a) =>
                c[s] # None /\ c[s].near = slots[s].near
  PROVE  /\ SmallerDials(c, supervisor', dialing')
         /\ NearIsSupervised(c, supervisor')
         /\ SupervisorHasNear(c, supervisor')
<1>1. /\ SmallerDials(slots, supervisor, dialing) /\ NearIsSupervised(slots, supervisor)
      /\ SupervisorHasNear(slots, supervisor)
  BY DEF DialInv, Sound
<1>2. SmallerDials(c, supervisor', dialing')
  BY <1>1 DEF SmallerDials, Rests
<1>3. NearIsSupervised(c, supervisor')
  <2> SUFFICES ASSUME NEW s \in Slot, NEW e \in Device, NEW b \in Device,
                      c[s] # None, c[s].from = e, c[s].to = b, c[s].near \notin Ended
               PROVE  /\ supervisor'[e][b] # None /\ supervisor'[e][b].slot = s
                      /\ supervisor'[e][b].stage = (IF c[s].near = "handshake" THEN "handshake" ELSE "loop")
    BY DEF NearIsSupervised
  <2>1. e # d \/ b # a
    OBVIOUS
  <2>2. supervisor'[e][b] = supervisor[e][b]
    BY <2>1 DEF Rests
  <2> QED
    BY <1>1, <2>1, <2>2 DEF NearIsSupervised
<1>4. SupervisorHasNear(c, supervisor')
  <2> SUFFICES ASSUME NEW e \in Device, NEW b \in Device, supervisor'[e][b] # None,
                      supervisor'[e][b].stage \in {"handshake", "loop"}
               PROVE  \E s \in Slot :
                        /\ supervisor'[e][b].slot = s /\ c[s] # None
                        /\ c[s].from = e /\ c[s].to = b /\ c[s].near \notin Ended
    BY DEF SupervisorHasNear
  <2>1. e # d \/ b # a
    BY DEF Rests
  <2>2. supervisor'[e][b] = supervisor[e][b]
    BY <2>1 DEF Rests
  <2> QED
    BY <1>1, <2>1, <2>2 DEF SupervisorHasNear
<1> QED
  BY <1>2, <1>3, <1>4

\* A supervisor with nothing in its hands has no near end.
LEMMA NoNear ==
  ASSUME DialInv, NEW d \in Device, NEW a \in Device,
         supervisor[d][a] = None \/ supervisor[d][a].stage \notin {"handshake", "loop"}
  PROVE  \A s \in Slot : slots[s] # None /\ slots[s].from = d /\ slots[s].to = a =>
           slots[s].near \in Ended
BY DEF DialInv, Sound, NearIsSupervised

\* The supervisor goes from rest to rest, and nothing else happens.
LEMMA Resting ==
  ASSUME DialInv, NEW d \in Device, NEW a \in Device, d < a, Rests(d, a),
         supervisor[d][a] = None \/ supervisor[d][a].stage \notin {"handshake", "loop"},
         UNCHANGED <<slots, active>>
  PROVE  Sound(slots', supervisor', dialing', active')
<1>1. /\ SmallerDials(slots, supervisor', dialing') /\ NearIsSupervised(slots, supervisor')
      /\ SupervisorHasNear(slots, supervisor')
  BY NoNear, RestSound
<1> QED
  BY <1>1 DEF DialInv, Sound

LEMMA AtRest ==
  ASSUME DialInv, NEW d \in Device, NEW a \in Device,
         \/ Discovered(d, a) \/ DialStops(d, a) \/ NobodyListens(d, a) \/ DialFails(d, a)
         \/ Wakes(d, a)
  PROVE  DialInv'
<1>1. TypeOK
  BY DEF DialInv
<1>2. /\ UNCHANGED <<config, active, blocked, slots>> /\ spent' \in [EnvironmentKind -> Nat]
  BY <1>1, SpendTyped
     DEF Discovered, DialStops, NobodyListens, DialFails, Wakes, EnvironmentKind, TypeOK
<1>3. /\ d < a /\ Rests(d, a)
      /\ supervisor[d][a] = None \/ supervisor[d][a].stage \notin {"handshake", "loop"}
  <2>1. CASE Discovered(d, a)
    <3> DEFINE v == [stage |-> "dial", addr |-> port[a], slot |-> None]
    <3>1. v \in Supervisor /\ v.stage = "dial"
      BY <1>1 DEF Supervisor, Supervising, TypeOK
    <3>2. Becomes(d, a, v) /\ dialing' = [dialing EXCEPT ![d] = @ \cup {a}]
      BY <2>1 DEF Discovered
    <3> HIDE DEF v
    <3>3. /\ dialing' \in [Device -> SUBSET Device] /\ a \in dialing'[d]
          /\ \A e, b \in Device : e # d \/ b # a => (b \in dialing'[e] <=> b \in dialing[e])
      BY <1>1, <3>2 DEF TypeOK
    <3>4. Rests(d, a)
      BY <1>1, <3>1, <3>2, <3>3, BecomesSets DEF Rests
    <3>5. supervisor[d][a] = None
      BY <2>1 DEF Discovered, DialInv, Sound, SmallerDials
    <3> QED
      BY <2>1, <3>4, <3>5 DEF Discovered
  <2>2. CASE DialStops(d, a) \/ NobodyListens(d, a) \/ DialFails(d, a)
    <3>1. supervisor[d][a] # None /\ supervisor[d][a].stage = "dial"
      BY <2>2 DEF DialStops, NobodyListens, DialFails, Supervises
    <3>2. Rests(d, a)
      BY <1>1, <2>2, <3>1, StopsRests, SleepsRests DEF DialStops, NobodyListens, DialFails
    <3>3. d < a
      BY <3>1 DEF DialInv, Sound, SmallerDials
    <3> QED
      BY <3>1, <3>2, <3>3
  <2>3. CASE Wakes(d, a)
    <3> DEFINE v == [supervisor[d][a] EXCEPT !.stage = "dial"]
    <3>1. /\ supervisor[d][a] # None /\ supervisor[d][a].stage = "sleep"
          /\ Becomes(d, a, v) /\ dialing' = dialing
      BY <2>3 DEF Wakes, Supervises
    <3>2. supervisor[d][a] \in Supervising
      BY <1>1, <3>1 DEF TypeOK, Supervisor
    <3>3. v \in Supervisor /\ v.stage = "dial"
      BY <3>2 DEF Supervisor, Supervising
    <3>4. d < a /\ a \in dialing[d]
      BY <3>1 DEF DialInv, Sound, SmallerDials
    <3> HIDE DEF v
    <3> QED
      BY <1>1, <3>1, <3>3, <3>4, BecomesSets DEF Rests, TypeOK
  <2> QED
    BY <2>1, <2>2, <2>3
<1>4. Sound(slots', supervisor', dialing', active')
  BY <1>2, <1>3, Resting
<1>5. TypeOK'
  BY <1>1, <1>2, <1>3 DEF TypeOK, Rests, config
<1> QED
  BY <1>4, <1>5 DEF DialInv

----------------------------------------------------------------------------
(* The dialler's connection *)

LEMMA DialsStep ==
  ASSUME DialInv, NEW d \in Device, NEW a \in Device, NEW s \in Slot, Dials(d, a, s)
  PROVE  DialInv'
<1> DEFINE r == [from |-> d, to |-> a, near |-> "handshake", far |-> "backlog"]
           v == [supervisor[d][a] EXCEPT !.stage = "handshake", !.slot = s]
<1>1. /\ TypeOK /\ supervisor[d][a] # None /\ supervisor[d][a].stage = "dial"
      /\ slots[s] = None /\ slots' = [slots EXCEPT ![s] = r] /\ Becomes(d, a, v)
      /\ UNCHANGED <<config, active, dialing, blocked, spent>>
  BY DEF Dials, Supervises, Used, DialInv
<1>2. r \in Connection /\ r.from = d /\ r.to = a /\ r.near = "handshake" /\ r.far = "backlog"
  BY DEF Connection, Near, Far
<1>3. v \in Supervising /\ v.stage = "handshake" /\ v.slot = s
  <2>1. supervisor[d][a] \in Supervising
    BY <1>1 DEF TypeOK, Supervisor
  <2> QED
    BY <2>1 DEF Supervising
<1> HIDE DEF r, v
<1>4. /\ slots' \in Connections /\ slots'[s] = r /\ slots'[s] # None
      /\ \A t \in Slot : t # s => slots'[t] = slots[t]
  BY <1>1, <1>2, NoneAssumption DEF TypeOK, Connections
<1>5. /\ supervisor' \in [Device -> [Device -> Supervisor]]
      /\ supervisor'[d][a] = v /\ v # None
      /\ \A e, b \in Device : e # d \/ b # a => supervisor'[e][b] = supervisor[e][b]
  BY <1>1, <1>3, BecomesSets, NoneAssumption DEF Supervisor
<1>6. \A t \in Slot : slots[t] # None /\ slots[t].from = d /\ slots[t].to = a =>
        slots[t].near \in Ended
  BY <1>1, NoNear
<1>7. /\ SmallerDials(slots, supervisor, dialing) /\ NearIsSupervised(slots, supervisor)
      /\ SupervisorHasNear(slots, supervisor) /\ ActiveIsLoops(slots, active) /\ OneLoop(slots)
  BY DEF DialInv, Sound
<1>8. d < a /\ a \in dialing[d]
  BY <1>1, <1>7 DEF SmallerDials
<1>9. SmallerDials(slots', supervisor', dialing')
  BY <1>1, <1>2, <1>4, <1>5, <1>7, <1>8 DEF SmallerDials
<1>10. NearIsSupervised(slots', supervisor')
  BY <1>2, <1>3, <1>4, <1>5, <1>6, <1>7 DEF NearIsSupervised
<1>11. SupervisorHasNear(slots', supervisor')
  <2> SUFFICES ASSUME NEW e \in Device, NEW b \in Device, supervisor'[e][b] # None,
                      supervisor'[e][b].stage \in {"handshake", "loop"}
               PROVE  \E t \in Slot :
                        /\ supervisor'[e][b].slot = t /\ slots'[t] # None
                        /\ slots'[t].from = e /\ slots'[t].to = b /\ slots'[t].near \notin Ended
    BY DEF SupervisorHasNear
  <2>1. CASE e = d /\ b = a
    BY <1>2, <1>3, <1>4, <1>5, <2>1 DEF Ended
  <2>2. CASE e # d \/ b # a
    BY <1>1, <1>4, <1>5, <1>7, <2>2 DEF SupervisorHasNear
  <2> QED
    BY <2>1, <2>2
<1>12. \A t \in Slot : \A n, m \in Device : InLoop(slots', t, n, m) <=> InLoop(slots, t, n, m)
  BY <1>1, <1>2, <1>4 DEF InLoop, Loop
<1>13. ActiveIsLoops(slots', active') /\ OneLoop(slots')
  BY <1>1, <1>7, <1>12 DEF ActiveIsLoops, OneLoop
<1> QED
  BY <1>1, <1>4, <1>5, <1>9, <1>10, <1>11, <1>13 DEF DialInv, Sound, TypeOK, config, Connections

\* What the supervisor of d for a has in its hands.
LEMMA SupervisedSlot ==
  ASSUME DialInv, NEW d \in Device, NEW a \in Device, supervisor[d][a] # None,
         supervisor[d][a].stage \in {"handshake", "loop"}
  PROVE  /\ d < a /\ a \in dialing[d] /\ supervisor[d][a] \in Supervising
         /\ SlotOf(d, a) \in Slot /\ slots[SlotOf(d, a)] # None
         /\ slots[SlotOf(d, a)] \in Connection
         /\ slots[SlotOf(d, a)].from = d /\ slots[SlotOf(d, a)].to = a
         /\ slots[SlotOf(d, a)].near \notin Ended
         /\ supervisor[d][a].stage = "handshake" => slots[SlotOf(d, a)].near = "handshake"
         /\ supervisor[d][a].stage = "loop" => slots[SlotOf(d, a)].near \in Loop
         /\ \A t \in Slot : slots[t] # None /\ slots[t].from = d /\ slots[t].to = a
              /\ slots[t].near \notin Ended => t = SlotOf(d, a)
<1>1. supervisor[d][a] \in Supervising /\ slots \in [Slot -> Connection \cup {None}]
  BY DEF DialInv, TypeOK, Supervisor
<1>2. d < a /\ a \in dialing[d]
  BY DEF DialInv, Sound, SmallerDials
<1>3. PICK s \in Slot : /\ supervisor[d][a].slot = s /\ slots[s] # None
                        /\ slots[s].from = d /\ slots[s].to = a /\ slots[s].near \notin Ended
  BY DEF DialInv, Sound, SupervisorHasNear
<1>4. s = SlotOf(d, a) /\ slots[s] \in Connection
  BY <1>1, <1>3 DEF SlotOf
<1>5. supervisor[d][a].stage = (IF slots[s].near = "handshake" THEN "handshake" ELSE "loop")
  BY <1>3 DEF DialInv, Sound, NearIsSupervised
<1>6. \A t \in Slot : slots[t] # None /\ slots[t].from = d /\ slots[t].to = a
        /\ slots[t].near \notin Ended => supervisor[d][a].slot = t
  BY DEF DialInv, Sound, NearIsSupervised
<1>7. slots[s].near \in {"handshake"} \cup Loop
  BY <1>3, <1>4 DEF Connection, Near, Ended, Loop
<1> QED
  BY <1>1, <1>2, <1>3, <1>4, <1>5, <1>6, <1>7

LEMMA DiallerConnectedStep ==
  ASSUME DialInv, NEW d \in Device, NEW a \in Device, DiallerConnected(d, a)
  PROVE  DialInv'
<1> DEFINE s == SlotOf(d, a)
           c == [slots EXCEPT ![s].near = "hello"]
           v == [supervisor[d][a] EXCEPT !.stage = "loop"]
<1>1. /\ TypeOK /\ supervisor[d][a] # None /\ supervisor[d][a].stage = "handshake"
      /\ slots' = Freed(c) /\ Becomes(d, a, v)
      /\ active' = [active EXCEPT ![d] = @ \cup {a}]
      /\ UNCHANGED <<config, dialing, blocked, spent>>
  BY DEF DiallerConnected, Supervises, SetNear, DialInv
<1>2. /\ d < a /\ a \in dialing[d] /\ supervisor[d][a] \in Supervising
      /\ s \in Slot /\ slots[s] # None /\ slots[s].from = d /\ slots[s].to = a
      /\ supervisor[d][a].slot = s
      /\ \A t \in Slot : slots[t] # None /\ slots[t].from = d /\ slots[t].to = a
           /\ slots[t].near \notin Ended => t = s
      /\ slots[s].near = "handshake"
  BY <1>1, SupervisedSlot DEF SlotOf
<1>3. v \in Supervising /\ v.stage = "loop" /\ v.slot = s
  BY <1>2 DEF Supervising
<1>0. c = WithNear(s, "hello") /\ "hello" \in Near
  BY DEF Near, Loop, WithNear
<1> HIDE DEF s, v, c
<1>4. /\ c \in Connections /\ c[s] # None
      /\ c[s].from = d /\ c[s].to = a /\ c[s].near = "hello" /\ c[s].far = slots[s].far
      /\ \A t \in Slot : t # s => c[t] = slots[t]
  BY <1>0, <1>1, <1>2, NearSet
<1>5. /\ supervisor' \in [Device -> [Device -> Supervisor]]
      /\ supervisor'[d][a] = v /\ v # None
      /\ \A e, b \in Device : e # d \/ b # a => supervisor'[e][b] = supervisor[e][b]
  BY <1>1, <1>3, BecomesSets, NoneAssumption DEF Supervisor
<1>6. /\ SmallerDials(slots, supervisor, dialing) /\ NearIsSupervised(slots, supervisor)
      /\ SupervisorHasNear(slots, supervisor) /\ ActiveIsLoops(slots, active) /\ OneLoop(slots)
  BY DEF DialInv, Sound
<1>7. SmallerDials(c, supervisor', dialing')
  BY <1>1, <1>2, <1>4, <1>5, <1>6 DEF SmallerDials
<1>8. NearIsSupervised(c, supervisor')
  BY <1>2, <1>3, <1>4, <1>5, <1>6 DEF NearIsSupervised
<1>9. SupervisorHasNear(c, supervisor')
  <2> SUFFICES ASSUME NEW e \in Device, NEW b \in Device, supervisor'[e][b] # None,
                      supervisor'[e][b].stage \in {"handshake", "loop"}
               PROVE  \E t \in Slot :
                        /\ supervisor'[e][b].slot = t /\ c[t] # None
                        /\ c[t].from = e /\ c[t].to = b /\ c[t].near \notin Ended
    BY DEF SupervisorHasNear
  <2>1. CASE e = d /\ b = a
    BY <1>2, <1>3, <1>4, <1>5, <2>1 DEF Ended
  <2>2. CASE e # d \/ b # a
    BY <1>2, <1>4, <1>5, <1>6, <2>2 DEF SupervisorHasNear
  <2> QED
    BY <2>1, <2>2
<1>10. \A t \in Slot : \A n, m \in Device :
         InLoop(c, t, n, m) <=> InLoop(slots, t, n, m) \/ (t = s /\ n = d /\ m = a)
  BY <1>2, <1>4 DEF InLoop, Loop
<1>11. \A t \in Slot : ~InLoop(slots, t, d, a)
  BY <1>2, <1>6, DeviceAssumption DEF InLoop, Loop, Ended, SmallerDials
<1>12. \A n, m \in Device : m \in active'[n] <=> m \in active[n] \/ (n = d /\ m = a)
  BY <1>1 DEF TypeOK
<1>13. ActiveIsLoops(c, active') /\ OneLoop(c)
  BY <1>2, <1>6, <1>10, <1>11, <1>12 DEF ActiveIsLoops, OneLoop
<1>14. slots' \in Connections /\ Sound(slots', supervisor', dialing', active')
  BY <1>1, <1>4, <1>7, <1>8, <1>9, <1>13, FreedSound DEF Sound
<1>15. active' \in [Device -> SUBSET Device]
  BY <1>1 DEF TypeOK
<1> QED
  BY <1>1, <1>5, <1>14, <1>15 DEF DialInv, TypeOK, config, Connections

\* The supervisor's connection ends, with its peer_loop if there was one.
LEMMA DiallerEndsStep ==
  ASSUME DialInv, NEW d \in Device, NEW a \in Device, DiallerRefused(d, a) \/ DiallerLoopEnds(d, a)
  PROVE  DialInv'
<1> DEFINE s == SlotOf(d, a)
           c == [slots EXCEPT ![s].near = "closed"]
<1>0. c = WithNear(s, "closed") /\ "closed" \in Near
  BY DEF Near, WithNear
<1>1. /\ TypeOK /\ supervisor[d][a] # None /\ supervisor[d][a].stage \in {"handshake", "loop"}
      /\ slots' = Freed(c) /\ SleepsOrStops(d, a)
      /\ \/ supervisor[d][a].stage = "handshake" /\ active' = active
         \/ supervisor[d][a].stage = "loop" /\ active' = [active EXCEPT ![d] = @ \ {a}]
      /\ UNCHANGED <<config, blocked, spent>>
  BY DEF DiallerRefused, DiallerLoopEnds, Supervises, SetNear, DialInv
<1>2. /\ d < a /\ s \in Slot /\ slots[s] # None /\ slots[s].from = d /\ slots[s].to = a
      /\ \A t \in Slot : slots[t] # None /\ slots[t].from = d /\ slots[t].to = a
           /\ slots[t].near \notin Ended => t = s
      /\ supervisor[d][a].stage = "handshake" => slots[s].near = "handshake"
      /\ supervisor[d][a].stage = "loop" => slots[s].near \in Loop
  BY <1>1, SupervisedSlot
<1> HIDE DEF s, c
<1>3. /\ c \in Connections /\ c[s] # None
      /\ c[s].from = d /\ c[s].to = a /\ c[s].near = "closed" /\ c[s].far = slots[s].far
      /\ \A t \in Slot : t # s => c[t] = slots[t]
  BY <1>0, <1>1, <1>2, NearSet
<1>4. Rests(d, a)
  BY <1>1, SleepsRests
<1>5. /\ SmallerDials(c, supervisor', dialing') /\ NearIsSupervised(c, supervisor')
      /\ SupervisorHasNear(c, supervisor')
  <2>1. "closed" \in Ended
    BY DEF Ended
  <2>2. \A t \in Slot :
          /\ c[t] # None =>
               /\ slots[t] # None /\ c[t].from = slots[t].from /\ c[t].to = slots[t].to
               /\ c[t].from = d /\ c[t].to = a => c[t].near \in Ended
          /\ slots[t] # None /\ (slots[t].from # d \/ slots[t].to # a) =>
               c[t] # None /\ c[t].near = slots[t].near
    BY <1>2, <1>3, <2>1
  <2> QED
    BY <1>2, <1>4, <2>2, RestSound
<1>6. ActiveIsLoops(slots, active) /\ OneLoop(slots) /\ SmallerDials(slots, supervisor, dialing)
  BY DEF DialInv, Sound
<1>7. \A t \in Slot : \A n, m \in Device :
        InLoop(c, t, n, m) <=> InLoop(slots, t, n, m) /\ ~(n = d /\ m = a)
  BY <1>1, <1>2, <1>3, <1>6, DeviceAssumption DEF InLoop, Loop, Ended, SmallerDials
<1>8. CASE supervisor[d][a].stage = "handshake" /\ active' = active
  <2>1. \A t \in Slot : ~InLoop(slots, t, d, a)
    BY <1>2, <1>6, <1>8, DeviceAssumption DEF InLoop, Loop, Ended, SmallerDials
  <2>2. ActiveIsLoops(c, active') /\ OneLoop(c)
    BY <1>6, <1>7, <1>8, <2>1 DEF ActiveIsLoops, OneLoop
  <2> QED
    BY <1>1, <1>3, <1>4, <1>5, <1>8, <2>2, FreedSound
       DEF DialInv, Sound, TypeOK, config, Connections, Rests
<1>9. CASE supervisor[d][a].stage = "loop" /\ active' = [active EXCEPT ![d] = @ \ {a}]
  <2>1. /\ active' \in [Device -> SUBSET Device]
        /\ \A n, m \in Device : m \in active'[n] <=> m \in active[n] /\ ~(n = d /\ m = a)
    BY <1>1, <1>9 DEF TypeOK
  <2>2. ActiveIsLoops(c, active') /\ OneLoop(c)
    BY <1>6, <1>7, <2>1 DEF ActiveIsLoops, OneLoop
  <2> QED
    BY <1>1, <1>3, <1>4, <1>5, <2>1, <2>2, FreedSound
       DEF DialInv, Sound, TypeOK, config, Connections, Rests
<1> QED
  BY <1>1, <1>8, <1>9

----------------------------------------------------------------------------
(* The acceptor, and steps within a loop *)

\* Ends that change in nothing a supervisor looks at.
LEMMA SameNear ==
  ASSUME DialInv, UNCHANGED <<supervisor, dialing>>, NEW c,
         \A s \in Slot :
           /\ c[s] # None <=> slots[s] # None
           /\ slots[s] # None =>
                /\ c[s].from = slots[s].from /\ c[s].to = slots[s].to
                /\ c[s].near = slots[s].near \/ (c[s].near \in Loop /\ slots[s].near \in Loop)
  PROVE  /\ SmallerDials(c, supervisor', dialing') /\ NearIsSupervised(c, supervisor')
         /\ SupervisorHasNear(c, supervisor')
<1>1. /\ SmallerDials(slots, supervisor, dialing) /\ NearIsSupervised(slots, supervisor)
      /\ SupervisorHasNear(slots, supervisor)
  BY DEF DialInv, Sound
<1>2. Loop \cap Ended = {} /\ "handshake" \notin Loop
  BY DEF Loop, Ended
<1>3. SmallerDials(c, supervisor', dialing')
  BY <1>1 DEF SmallerDials
<1>4. NearIsSupervised(c, supervisor')
  BY <1>1, <1>2 DEF NearIsSupervised
<1>5. SupervisorHasNear(c, supervisor')
  BY <1>1, <1>2 DEF SupervisorHasNear
<1> QED
  BY <1>3, <1>4, <1>5

LEMMA SubscribesStep ==
  ASSUME DialInv, NEW d \in Device, NEW a \in Device, DiallerSubscribes(d, a)
  PROVE  DialInv'
<1> DEFINE s == SlotOf(d, a)
           c == [slots EXCEPT ![s].near = "loop"]
<1>0. c = WithNear(s, "loop") /\ "loop" \in Near /\ "loop" \in Loop /\ "hello" \in Loop
  BY DEF Near, Loop, WithNear
<1>1. /\ TypeOK /\ supervisor[d][a] # None /\ supervisor[d][a].stage = "loop"
      /\ slots' = Freed(c) /\ slots[s].near = "hello"
      /\ UNCHANGED <<config, active, dialing, supervisor, blocked, spent>>
  BY DEF DiallerSubscribes, Supervises, SetNear, DialInv
<1>2. s \in Slot /\ slots[s] # None
  BY <1>1, SupervisedSlot
<1> HIDE DEF s, c
<1>3. /\ c \in Connections /\ c[s] # None
      /\ c[s].from = slots[s].from /\ c[s].to = slots[s].to
      /\ c[s].near = "loop" /\ c[s].far = slots[s].far
      /\ \A t \in Slot : t # s => c[t] = slots[t]
  BY <1>0, <1>1, <1>2, NearSet
<1>4. /\ SmallerDials(c, supervisor', dialing') /\ NearIsSupervised(c, supervisor')
      /\ SupervisorHasNear(c, supervisor')
  BY <1>0, <1>1, <1>2, <1>3, SameNear
<1>5. \A t \in Slot : \A n, m \in Device : InLoop(c, t, n, m) <=> InLoop(slots, t, n, m)
  BY <1>0, <1>1, <1>2, <1>3 DEF InLoop
<1>6. ActiveIsLoops(c, active') /\ OneLoop(c)
  BY <1>1, <1>5 DEF DialInv, Sound, ActiveIsLoops, OneLoop
<1> QED
  BY <1>1, <1>3, <1>4, <1>6, FreedSound DEF DialInv, Sound, TypeOK, config, Connections

\* One far end changes; `active` follows if a loop begins or ends.
LEMMA FarStep ==
  ASSUME DialInv, NEW s \in Slot, slots[s] # None, NEW far \in Far, SetFar(s, far), Keep,
         \/ slots[s].far \notin Loop /\ far \notin Loop /\ active' = active
         \/ slots[s].far \in Loop /\ far \in Loop /\ active' = active
         \/ /\ slots[s].far \notin Loop /\ far \in Loop
            /\ slots[s].from \notin active[slots[s].to]
            /\ active' = [active EXCEPT ![slots[s].to] = @ \cup {slots[s].from}]
         \/ /\ slots[s].far \in Loop /\ far \notin Loop
            /\ active' = [active EXCEPT ![slots[s].to] = @ \ {slots[s].from}]
  PROVE  DialInv'
<1> DEFINE c == [slots EXCEPT ![s].far = far]
           d == slots[s].from
           a == slots[s].to
<1>0. c = WithFar(s, far)
  BY DEF WithFar
<1>1. TypeOK /\ slots' = Freed(c) /\ UNCHANGED <<config, dialing, supervisor, blocked, spent>>
  BY DEF DialInv, SetFar, Keep
<1>2. d \in Device /\ a \in Device
  BY <1>1 DEF TypeOK, Connection
<1> HIDE DEF c
<1>3. /\ c \in Connections /\ c[s] # None /\ c[s].from = d /\ c[s].to = a
      /\ c[s].near = slots[s].near /\ c[s].far = far
      /\ \A t \in Slot : t # s => c[t] = slots[t]
  BY <1>0, <1>1, FarSet
<1>4. /\ SmallerDials(c, supervisor', dialing') /\ NearIsSupervised(c, supervisor')
      /\ SupervisorHasNear(c, supervisor')
  BY <1>1, <1>3, SameNear
<1>5. /\ ActiveIsLoops(slots, active) /\ OneLoop(slots)
      /\ SmallerDials(slots, supervisor, dialing) /\ d < a
  BY DEF DialInv, Sound, SmallerDials
<1>6. /\ \A t \in Slot : \A n, m \in Device :
           t # s \/ n # a \/ m # d => (InLoop(c, t, n, m) <=> InLoop(slots, t, n, m))
      /\ InLoop(c, s, a, d) <=> far \in Loop
      /\ InLoop(slots, s, a, d) <=> slots[s].far \in Loop
  <2>1. d # a
    <3>1. d < a /\ d \in Nat /\ a \in Nat
      BY <1>2, <1>5, DeviceAssumption
    <3> QED
      BY <3>1
  <2>2. \A n, m \in Device : n # a \/ m # d => (InLoop(c, s, n, m) <=> InLoop(slots, s, n, m))
    BY <1>3 DEF InLoop
  <2>3. \A t \in Slot : \A n, m \in Device :
          t # s => (InLoop(c, t, n, m) <=> InLoop(slots, t, n, m))
    BY <1>3 DEF InLoop
  <2>4. /\ InLoop(c, s, a, d) <=> far \in Loop
        /\ InLoop(slots, s, a, d) <=> slots[s].far \in Loop
    BY <1>3, <2>1 DEF InLoop
  <2> QED
    BY <2>2, <2>3, <2>4
<1>7. active' \in [Device -> SUBSET Device] /\ ActiveIsLoops(c, active') /\ OneLoop(c)
  <2>1. CASE active' = active /\ (far \in Loop <=> slots[s].far \in Loop)
    <3>1. \A t \in Slot : \A n, m \in Device : InLoop(c, t, n, m) <=> InLoop(slots, t, n, m)
      BY <1>6, <2>1
    <3> QED
      BY <1>1, <1>5, <2>1, <3>1 DEF ActiveIsLoops, OneLoop, TypeOK
  <2>2. CASE far \in Loop /\ d \notin active[a] /\ active' = [active EXCEPT ![a] = @ \cup {d}]
    <3>1. /\ active' \in [Device -> SUBSET Device]
          /\ \A n, m \in Device : m \in active'[n] <=> m \in active[n] \/ (n = a /\ m = d)
      BY <1>1, <1>2, <2>2 DEF TypeOK
    <3>2. \A t \in Slot : ~InLoop(slots, t, a, d)
      BY <1>2, <1>5, <2>2 DEF ActiveIsLoops
    <3>3. \A t \in Slot : \A n, m \in Device :
            InLoop(c, t, n, m) <=> InLoop(slots, t, n, m) \/ (t = s /\ n = a /\ m = d)
      BY <1>6, <2>2, <3>2
    <3> QED
      BY <1>5, <3>1, <3>2, <3>3 DEF ActiveIsLoops, OneLoop
  <2>3. CASE slots[s].far \in Loop /\ far \notin Loop /\ active' = [active EXCEPT ![a] = @ \ {d}]
    <3>1. /\ active' \in [Device -> SUBSET Device]
          /\ \A n, m \in Device : m \in active'[n] <=> m \in active[n] /\ ~(n = a /\ m = d)
      BY <1>1, <1>2, <2>3 DEF TypeOK
    <3>2. \A t \in Slot : InLoop(slots, t, a, d) => t = s
      BY <1>2, <1>5, <1>6, <2>3 DEF OneLoop
    <3>3. \A t \in Slot : \A n, m \in Device :
            InLoop(c, t, n, m) <=> InLoop(slots, t, n, m) /\ ~(n = a /\ m = d)
      BY <1>6, <2>3, <3>2
    <3> QED
      BY <1>5, <3>1, <3>3 DEF ActiveIsLoops, OneLoop
  <2> QED
    BY <2>1, <2>2, <2>3
<1> QED
  BY <1>1, <1>3, <1>4, <1>7, FreedSound DEF DialInv, Sound, TypeOK, config, Connections

LEMMA AcceptorStep ==
  ASSUME DialInv, NEW s \in Slot, Acceptor(s)
  PROVE  DialInv'
<1>1. /\ {"task", "handshake", "closed", "hello", "loop"} \subseteq Far
      /\ "hello" \in Loop /\ "loop" \in Loop
      /\ {"backlog", "task", "handshake", "closed"} \cap Loop = {}
  BY DEF Far, Loop
<1>2. CASE Accepted(s)
  BY <1>1, <1>2, FarStep DEF Accepted, Used
<1>3. CASE TaskStarts(s)
  BY <1>1, <1>3, FarStep DEF TaskStarts, Used
<1>4. CASE AcceptorConnected(s)
  BY <1>1, <1>4, FarStep DEF AcceptorConnected, IsSecond, Used, From, To
<1>5. CASE AcceptorFails(s)
  BY <1>1, <1>5, FarStep DEF AcceptorFails, Used
<1>6. CASE AcceptorSubscribes(s)
  BY <1>1, <1>6, FarStep DEF AcceptorSubscribes, Used
<1>7. CASE AcceptorLoopEnds(s)
  BY <1>1, <1>7, FarStep DEF AcceptorLoopEnds, Leaves, Used, From, To
<1> QED
  BY <1>2, <1>3, <1>4, <1>5, <1>6, <1>7 DEF Acceptor

----------------------------------------------------------------------------
(* The network, crashes and the command line *)

LEMMA LostStep ==
  ASSUME DialInv, NEW s \in Slot, Lost(s)
  PROVE  DialInv'
<1> DEFINE d == slots[s].from
           a == slots[s].to
           r == [slots[s] EXCEPT !.near = "closed", !.far = "closed"]
           c == [slots EXCEPT ![s].near = "closed", ![s].far = "closed"]
<1>1. /\ TypeOK /\ slots[s] # None /\ slots[s].near \in Loop /\ slots[s].far \in Loop
      /\ slots' = Freed(c) /\ SleepsOrStops(d, a)
      /\ active' = [n \in Device |-> IF n = d THEN active[n] \ {a}
                                     ELSE IF n = a THEN active[n] \ {d} ELSE active[n]]
      /\ spent' \in [EnvironmentKind -> Nat]
      /\ UNCHANGED <<config, blocked>>
  BY SpendTyped DEF Lost, Used, From, To, DialInv, EnvironmentKind
<1>2. slots \in Connections /\ slots[s] \in Connection /\ d \in Device /\ a \in Device
  BY <1>1 DEF TypeOK, Connections, Connection
<1>3. /\ r \in Connection /\ r.from = d /\ r.to = a /\ r.near = "closed" /\ r.far = "closed"
      /\ r # None
  BY <1>2, NoneAssumption DEF Connection, Near, Far
<1>4. c = [slots EXCEPT ![s] = r]
  BY <1>2 DEF Connections
<1> HIDE DEF r, c
<1>5. c \in Connections /\ c[s] = r /\ \A t \in Slot : t # s => c[t] = slots[t]
  BY <1>2, <1>3, <1>4 DEF Connections
<1>6. /\ ActiveIsLoops(slots, active) /\ OneLoop(slots)
      /\ SmallerDials(slots, supervisor, dialing) /\ NearIsSupervised(slots, supervisor)
  BY DEF DialInv, Sound
<1>7. d < a /\ d # a
  <2>1. d < a /\ d \in Nat /\ a \in Nat
    BY <1>1, <1>2, <1>6, DeviceAssumption DEF SmallerDials
  <2> QED
    BY <2>1
<1>8. Loop \cap Ended = {} /\ "closed" \in Ended /\ "closed" \notin Loop
  BY DEF Loop, Ended
<1>9. supervisor[d][a] # None /\ supervisor[d][a].slot = s
  BY <1>1, <1>2, <1>6, <1>8 DEF NearIsSupervised
<1>10. \A t \in Slot : slots[t] # None /\ slots[t].from = d /\ slots[t].to = a
         /\ slots[t].near \notin Ended => t = s
  BY <1>2, <1>6, <1>9 DEF NearIsSupervised
<1>11. Rests(d, a)
  BY <1>1, <1>2, <1>9, SleepsRests
<1>12. /\ SmallerDials(c, supervisor', dialing') /\ NearIsSupervised(c, supervisor')
       /\ SupervisorHasNear(c, supervisor')
  <2>1. \A t \in Slot :
          /\ c[t] # None =>
               /\ slots[t] # None /\ c[t].from = slots[t].from /\ c[t].to = slots[t].to
               /\ c[t].from = d /\ c[t].to = a => c[t].near \in Ended
          /\ slots[t] # None /\ (slots[t].from # d \/ slots[t].to # a) =>
               c[t] # None /\ c[t].near = slots[t].near
    BY <1>1, <1>3, <1>5, <1>8, <1>10
  <2> QED
    BY <1>2, <1>7, <1>11, <2>1, RestSound
<1>13. /\ InLoop(slots, s, d, a) /\ InLoop(slots, s, a, d)
       /\ \A n, m \in Device : ~InLoop(c, s, n, m)
       /\ \A n, m \in Device : InLoop(slots, s, n, m) => (n = d /\ m = a) \/ (n = a /\ m = d)
       /\ \A t \in Slot : \A n, m \in Device :
            t # s => (InLoop(c, t, n, m) <=> InLoop(slots, t, n, m))
  BY <1>1, <1>3, <1>5, <1>8 DEF InLoop
<1>14. \A t \in Slot : InLoop(slots, t, d, a) \/ InLoop(slots, t, a, d) => t = s
  BY <1>2, <1>6, <1>13 DEF OneLoop
<1>15. \A t \in Slot : \A n, m \in Device :
         InLoop(c, t, n, m) <=>
           InLoop(slots, t, n, m) /\ ~((n = d /\ m = a) \/ (n = a /\ m = d))
  BY <1>13, <1>14
<1>16. /\ active' \in [Device -> SUBSET Device]
       /\ \A n, m \in Device :
            m \in active'[n] <=> m \in active[n] /\ ~((n = d /\ m = a) \/ (n = a /\ m = d))
  BY <1>1, <1>7 DEF TypeOK
<1>17. ActiveIsLoops(c, active') /\ OneLoop(c)
  BY <1>6, <1>15, <1>16 DEF ActiveIsLoops, OneLoop
<1> QED
  BY <1>1, <1>5, <1>11, <1>12, <1>16, <1>17, FreedSound
     DEF DialInv, Sound, TypeOK, config, Connections, Rests

\* The ends of the device are closed or gone, and it begins with nothing.
LEMMA StartsAgainStep ==
  ASSUME DialInv, NEW n \in Device, NEW how \in Ended, StartsAgain(n, how),
         spent' \in [EnvironmentKind -> Nat]
  PROVE  DialInv'
<1> DEFINE nearEnds(s) == [slots[s] EXCEPT !.near = how]
           farEnds(s) == [slots[s] EXCEPT !.far = how]
           c == [s \in Slot |->
                  IF ~Used(s) THEN None
                  ELSE IF From(s) = n /\ slots[s].near \notin Ended THEN [slots[s] EXCEPT !.near = how]
                  ELSE IF To(s) = n /\ slots[s].far \notin Ended THEN [slots[s] EXCEPT !.far = how]
                  ELSE slots[s]]
<1>1. /\ TypeOK /\ slots' = Freed(c)
      /\ port' = [port EXCEPT ![n] = @ + 1]
      /\ active' = [active EXCEPT ![n] = {}]
      /\ dialing' = [dialing EXCEPT ![n] = {}]
      /\ supervisor' = [supervisor EXCEPT ![n] = [m \in Device |-> None]]
      /\ blocked' = [blocked EXCEPT ![n] = FALSE]
      /\ peers' = peers
  BY DEF StartsAgain, DialInv
<1>2. slots \in Connections
  BY <1>1 DEF TypeOK, Connections
<1>3. Loop \cap Ended = {} /\ Ended \subseteq Near /\ Ended \subseteq Far
  BY DEF Loop, Ended, Near, Far
<1>4. ASSUME NEW s \in Slot, slots[s] # None
      PROVE  /\ nearEnds(s) \in Connection /\ nearEnds(s) # None
             /\ nearEnds(s).from = slots[s].from /\ nearEnds(s).to = slots[s].to
             /\ nearEnds(s).near = how /\ nearEnds(s).far = slots[s].far
             /\ farEnds(s) \in Connection /\ farEnds(s) # None
             /\ farEnds(s).from = slots[s].from /\ farEnds(s).to = slots[s].to
             /\ farEnds(s).near = slots[s].near /\ farEnds(s).far = how
  <2>1. slots[s] \in Connection
    BY <1>2, <1>4 DEF Connections
  <2>2. nearEnds(s) \in Connection /\ farEnds(s) \in Connection
    BY <1>3, <2>1 DEF Connection
  <2>3. /\ nearEnds(s).from = slots[s].from /\ nearEnds(s).to = slots[s].to
        /\ nearEnds(s).near = how /\ nearEnds(s).far = slots[s].far
        /\ farEnds(s).from = slots[s].from /\ farEnds(s).to = slots[s].to
        /\ farEnds(s).near = slots[s].near /\ farEnds(s).far = how
    BY <2>1 DEF Connection
  <2> QED
    BY <2>2, <2>3, NoneAssumption
<1>5. ASSUME NEW s \in Slot
      PROVE  c[s] = IF slots[s] = None THEN None
                    ELSE IF slots[s].from = n /\ slots[s].near \notin Ended THEN nearEnds(s)
                    ELSE IF slots[s].to = n /\ slots[s].far \notin Ended THEN farEnds(s)
                    ELSE slots[s]
  BY DEF Used, From, To
<1>6. c \in Connections
  <2>1. \A s \in Slot : c[s] \in Connection \cup {None}
    BY <1>2, <1>4, <1>5 DEF Connections
  <2> QED
    BY <2>1 DEF Connections
<1> HIDE DEF nearEnds, farEnds, c
<1>7. /\ ActiveIsLoops(slots, active) /\ OneLoop(slots)
      /\ SmallerDials(slots, supervisor, dialing) /\ NearIsSupervised(slots, supervisor)
      /\ SupervisorHasNear(slots, supervisor)
  BY DEF DialInv, Sound
<1>8. ASSUME NEW s \in Slot, slots[s] # None
      PROVE  slots[s].from # slots[s].to
  <2>1. slots[s] \in Connection /\ slots[s].from < slots[s].to
    BY <1>2, <1>7, <1>8 DEF Connections, SmallerDials
  <2>2. slots[s].from \in Nat /\ slots[s].to \in Nat
    BY <2>1, DeviceAssumption DEF Connection
  <2> QED
    BY <2>1, <2>2
<1>9. ASSUME NEW s \in Slot
      PROVE  /\ c[s] # None <=> slots[s] # None
             /\ slots[s] # None =>
                  /\ c[s].from = slots[s].from /\ c[s].to = slots[s].to
                  /\ IF slots[s].from = n THEN c[s].near \in Ended
                     ELSE c[s].near = slots[s].near
                  /\ slots[s].to # n => c[s].far = slots[s].far
                  /\ slots[s].to = n => c[s].far \in Ended
  BY <1>4, <1>5, <1>8
<1>10. /\ supervisor' \in [Device -> [Device -> Supervisor]]
       /\ \A m \in Device : supervisor'[n][m] = None
       /\ \A e, m \in Device : e # n => supervisor'[e][m] = supervisor[e][m]
  BY <1>1 DEF TypeOK, Supervisor
<1>11. /\ dialing' \in [Device -> SUBSET Device]
       /\ \A e \in Device : e # n => dialing'[e] = dialing[e]
       /\ active' \in [Device -> SUBSET Device] /\ active'[n] = {}
       /\ \A e \in Device : e # n => active'[e] = active[e]
  BY <1>1 DEF TypeOK
<1>12. SmallerDials(c, supervisor', dialing')
  <2>1. \A s \in Slot : c[s] # None => c[s].from < c[s].to
    BY <1>7, <1>9 DEF SmallerDials
  <2>2. \A e, b \in Device : supervisor'[e][b] # None =>
          e # n /\ supervisor[e][b] # None /\ dialing'[e] = dialing[e]
    BY <1>10, <1>11
  <2>3. \A e, b \in Device : supervisor'[e][b] # None => e < b /\ b \in dialing'[e]
    BY <1>7, <2>2 DEF SmallerDials
  <2> QED
    BY <2>1, <2>3 DEF SmallerDials
<1>13. NearIsSupervised(c, supervisor')
  BY <1>7, <1>9, <1>10 DEF NearIsSupervised
<1>14. SupervisorHasNear(c, supervisor')
  <2> SUFFICES ASSUME NEW e \in Device, NEW b \in Device, supervisor'[e][b] # None,
                      supervisor'[e][b].stage \in {"handshake", "loop"}
               PROVE  \E s \in Slot :
                        /\ supervisor'[e][b].slot = s /\ c[s] # None
                        /\ c[s].from = e /\ c[s].to = b /\ c[s].near \notin Ended
    BY DEF SupervisorHasNear
  <2>1. e # n /\ supervisor'[e][b] = supervisor[e][b]
    BY <1>10
  <2> QED
    BY <1>7, <1>9, <2>1 DEF SupervisorHasNear
<1>15. \A s \in Slot : \A e, m \in Device :
         InLoop(c, s, e, m) <=> InLoop(slots, s, e, m) /\ e # n
  BY <1>3, <1>9 DEF InLoop
<1>16. ActiveIsLoops(c, active') /\ OneLoop(c)
  BY <1>7, <1>11, <1>15 DEF ActiveIsLoops, OneLoop
<1>17. slots' \in Connections /\ Sound(slots', supervisor', dialing', active')
  BY <1>1, <1>6, <1>12, <1>13, <1>14, <1>16, FreedSound DEF Sound
<1>18. TypeOK'
  BY <1>1, <1>10, <1>11, <1>17 DEF TypeOK, Connections
<1> QED
  BY <1>17, <1>18 DEF DialInv

\* The loops that listen are told; they are loops still.
LEMMA UnpairStep ==
  ASSUME DialInv, NEW n \in Device, NEW m \in Device, Unpair(n, m)
  PROVE  DialInv'
<1>1. /\ TypeOK /\ peers' = [peers EXCEPT ![n] = @ \ {m}]
      /\ slots' = [s \in Slot |->
           IF IsFrom(s, n, m) /\ slots[s].near = "loop" THEN [slots[s] EXCEPT !.near = "unpaired"]
           ELSE IF IsFrom(s, m, n) /\ slots[s].far = "loop" THEN [slots[s] EXCEPT !.far = "unpaired"]
           ELSE slots[s]]
      /\ UNCHANGED <<port, active, dialing, supervisor, blocked>>
      /\ spent' \in [EnvironmentKind -> Nat]
  BY SpendTyped DEF Unpair, DialInv, EnvironmentKind
<1>2. {"loop", "unpaired"} \subseteq Loop /\ "unpaired" \in Near /\ "unpaired" \in Far
  BY DEF Loop, Near, Far
<1>3. ASSUME NEW s \in Slot, slots[s] # None
      PROVE  /\ slots'[s] \in Connection
             /\ slots'[s].from = slots[s].from /\ slots'[s].to = slots[s].to
             /\ slots'[s].near = slots[s].near \/ (slots'[s].near \in Loop /\ slots[s].near \in Loop)
             /\ slots'[s].far = slots[s].far \/ (slots'[s].far \in Loop /\ slots[s].far \in Loop)
  <2> DEFINE u == [slots[s] EXCEPT !.near = "unpaired"]
             w == [slots[s] EXCEPT !.far = "unpaired"]
  <2>1. slots[s] \in Connection
    BY <1>1, <1>3 DEF TypeOK
  <2>2. /\ u \in Connection /\ u.from = slots[s].from /\ u.to = slots[s].to
        /\ u.near = "unpaired" /\ u.far = slots[s].far
    BY <1>2, <2>1 DEF Connection
  <2>3. /\ w \in Connection /\ w.from = slots[s].from /\ w.to = slots[s].to
        /\ w.near = slots[s].near /\ w.far = "unpaired"
    BY <1>2, <2>1 DEF Connection
  <2>4. \/ slots'[s] = slots[s]
        \/ slots'[s] = u /\ slots[s].near = "loop"
        \/ slots'[s] = w /\ slots[s].far = "loop"
    BY <1>1
  <2> HIDE DEF u, w
  <2> QED
    BY <1>2, <2>1, <2>2, <2>3, <2>4
<1>4. \A s \in Slot : slots[s] = None => slots'[s] = None
  BY <1>1 DEF IsFrom, Used
<1>5. slots' \in Connections
  <2>1. \A s \in Slot : slots'[s] \in Connection \cup {None}
    BY <1>3, <1>4
  <2>2. slots' = [s \in Slot |-> slots'[s]]
    BY <1>1
  <2> QED
    BY <2>1, <2>2 DEF Connections
<1>6. \A s \in Slot : slots'[s] # None <=> slots[s] # None
  BY <1>3, <1>4, NoneAssumption
<1>7. /\ SmallerDials(slots', supervisor', dialing') /\ NearIsSupervised(slots', supervisor')
      /\ SupervisorHasNear(slots', supervisor')
  BY <1>1, <1>3, <1>6, SameNear
<1>8. \A s \in Slot : \A e, b \in Device : InLoop(slots', s, e, b) <=> InLoop(slots, s, e, b)
  BY <1>3, <1>6 DEF InLoop
<1>9. ActiveIsLoops(slots', active') /\ OneLoop(slots')
  <2>1. ActiveIsLoops(slots, active) /\ OneLoop(slots) /\ active' = active
    BY <1>1 DEF DialInv, Sound
  <2> QED
    BY <1>8, <2>1 DEF ActiveIsLoops, OneLoop
<1>10. TypeOK'
  BY <1>1, <1>5 DEF TypeOK, Connections
<1> QED
  BY <1>7, <1>9, <1>10 DEF DialInv, Sound

LEMMA EnvironmentStep ==
  ASSUME DialInv, Environment
  PROVE  DialInv'
<1>1. CASE \E s \in Slot : Lost(s)
  BY <1>1, LostStep
<1>2. CASE \E n \in Device : Restart(n) \/ PowerLoss(n)
  <2>1. PICK n \in Device : Restart(n) \/ PowerLoss(n)
    BY <1>2
  <2>2. spent' \in [EnvironmentKind -> Nat]
    BY <2>1, SpendTyped DEF Restart, PowerLoss, DialInv, EnvironmentKind
  <2>3. \E how \in Ended : StartsAgain(n, how)
    BY <2>1 DEF Restart, PowerLoss, Ended
  <2> QED
    BY <2>2, <2>3, StartsAgainStep
<1>3. CASE \E n \in Device : Stranger(n) \/ StrangerLeaves(n)
  <2>1. PICK n \in Device : Stranger(n) \/ StrangerLeaves(n)
    BY <1>3
  <2>2. /\ UNCHANGED <<config, active, dialing, supervisor, slots>>
        /\ spent' \in [EnvironmentKind -> Nat] /\ blocked' \in [Device -> BOOLEAN]
    BY <2>1, SpendTyped DEF Stranger, StrangerLeaves, DialInv, TypeOK, EnvironmentKind
  <2> QED
    BY <2>2 DEF DialInv, TypeOK, config
<1>4. CASE \E n, m \in Device : Unpair(n, m)
  BY <1>4, UnpairStep
<1> QED
  BY <1>1, <1>2, <1>3, <1>4 DEF Environment

----------------------------------------------------------------------------
(* The theorems *)

LEMMA DialInit == Init => DialInv
<1> SUFFICES ASSUME Init PROVE DialInv
  OBVIOUS
<1>1. TypeOK
  BY DEF Init, TypeOK, Supervisor
<1>2. /\ \A s \in Slot : slots[s] = None
      /\ \A d, a \in Device : supervisor[d][a] = None
      /\ \A n \in Device : active[n] = {}
  BY DEF Init
<1>3. Sound(slots, supervisor, dialing, active)
  BY <1>2 DEF Sound, SmallerDials, NearIsSupervised, SupervisorHasNear, ActiveIsLoops, OneLoop, InLoop
<1> QED
  BY <1>1, <1>3 DEF DialInv

LEMMA DialStep == DialInv /\ [Next]_vars => DialInv'
<1> SUFFICES ASSUME DialInv, [Next]_vars PROVE DialInv'
  OBVIOUS
<1>1. CASE UNCHANGED vars
  BY <1>1 DEF vars, config, DialInv, TypeOK
<1>2. ASSUME NEW d \in Device, NEW a \in Device, Discovered(d, a) \/ Dialler(d, a)
      PROVE  DialInv'
  BY <1>2, AtRest, DialsStep, DiallerConnectedStep, DiallerEndsStep, SubscribesStep DEF Dialler
<1>3. CASE \E s \in Slot : Acceptor(s)
  BY <1>3, AcceptorStep
<1>4. CASE Environment
  BY <1>4, EnvironmentStep
<1> QED
  BY <1>1, <1>2, <1>3, <1>4 DEF Next

THEOREM ConnectionsSound == Spec => []DialInv
BY DialInit, DialStep, PTL DEF Spec

\* The config, the sets and the supervisors of each daemon, and the connections,
\* have their types.
THEOREM TypeCorrect == Spec => []TypeOK
<1>1. DialInv => TypeOK
  BY DEF DialInv
<1> QED
  BY <1>1, ConnectionsSound, PTL

\* `active` is what peer_loops there are, and there is one for a peer.
THEOREM OneLoopForEach == Spec => []OneLoopPerPeer
<1>1. DialInv => OneLoopPerPeer
  <2> SUFFICES ASSUME DialInv, NEW n \in Device, NEW m \in Device
               PROVE  Cardinality(LoopsOf(n, m)) = (IF m \in active[n] THEN 1 ELSE 0)
    BY DEF OneLoopPerPeer
  <2>1. \A s \in Slot : s \in LoopsOf(n, m) <=> InLoop(slots, s, n, m)
    BY DEF LoopsOf, InLoop, IsFrom, Used
  <2>2. LoopsOf(n, m) \subseteq Slot
    BY DEF LoopsOf
  <2>3. ActiveIsLoops(slots, active) /\ OneLoop(slots)
    BY DEF DialInv, Sound
  <2>4. CASE m \in active[n]
    <3>1. PICK s \in Slot : InLoop(slots, s, n, m)
      BY <2>3, <2>4 DEF ActiveIsLoops
    <3>2. LoopsOf(n, m) = {s}
      BY <2>1, <2>2, <2>3, <3>1 DEF OneLoop
    <3> QED
      BY <2>4, <3>2, FS_Singleton
  <2>5. CASE m \notin active[n]
    <3>1. LoopsOf(n, m) = {}
      BY <2>1, <2>2, <2>3, <2>5 DEF ActiveIsLoops
    <3> QED
      BY <2>5, <3>1, FS_EmptySet
  <2> QED
    BY <2>4, <2>5
<1> QED
  BY <1>1, ConnectionsSound, PTL

=============================================================================
