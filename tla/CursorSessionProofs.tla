-------------------------- MODULE CursorSessionProofs --------------------------
(***************************************************************************)
(* Proofs about CursorSession, for every set of devices and edges, any     *)
(* number of repeated Leaves and all Budgets: its types, what any one      *)
(* device keeps of its sessions, whatever reaches it in whatever order,    *)
(* and, while one user pushes and the network does no harm, what two       *)
(* devices keep of the session they have with each other.                  *)
(***************************************************************************)
EXTENDS CursorSession, SequenceTheorems, FiniteSetTheorems, TLAPS

\* What a device keeps, each conjunct for the sake of the others: sessions go
\* one way, only a borrowed device has keys held, and it can be captured only
\* over the edge it was entered by.
Sound(s) ==
  /\ s \in State
  /\ s.outgoing = None \/ s.incoming = None
  /\ s.held => s.incoming # None
  /\ s.incoming # None => s.allowed_edges = {s.incoming.edge}

\* What a handler makes of s: capturing goes on only if it was on, and ends with
\* what is lent. This composes, unlike EndReleases.
Handled(s, t) ==
  /\ Sound(t)
  /\ s.outgoing # None /\ t.outgoing = None => ~t.active
  /\ t.active => s.active

SoundInv ==
  /\ dev \in [Device -> State]
  /\ \A n \in Device : Sound(dev[n])
  /\ cut \in BOOLEAN
  /\ pushed \subseteq Device
  /\ spent \in [EnvironmentKind -> Nat]

LEMMA HandledSame == ASSUME NEW s, Sound(s) PROVE Handled(s, s)
BY DEF Handled

LEMMA HandledTwice ==
  ASSUME NEW s, NEW t, NEW u, Handled(s, t), Handled(t, u)
  PROVE  Handled(s, u)
BY DEF Handled

----------------------------------------------------------------------------
(* What the handlers are made of *)

LEMMA SaySends ==
  /\ \A kind \in {"probeAck", "ack", "leave"} : Say(kind) \in Message
  /\ \A kind \in {"probe", "enter"}, e \in Edge : SayAt(kind, e) \in Message
BY DEF Say, SayAt, Message

LEMMA SendSound ==
  ASSUME NEW s, Sound(s), NEW p \in Device, NEW message \in Message
  PROVE  Handled(s, send(s, p, message))
<1>1. Append(s.outbound[p], message) \in Seq(Message)
  BY AppendProperties DEF Sound, State
<1>2. [s.outbound EXCEPT ![p] = Append(@, message)] \in [Device -> Seq(Message)]
  BY <1>1 DEF Sound, State
<1>3. send(s, p, message) \in State
  BY <1>2 DEF send, Sound, State
<1> QED
  BY <1>3 DEF send, Sound, State, Handled

LEMMA LeaveSound ==
  ASSUME NEW s, Sound(s), NEW p \in Device
  PROVE  Handled(s, send_force_leave(s, p))
BY SendSound, SaySends DEF send_force_leave

LEMMA StopLendingSound ==
  ASSUME NEW s, Sound(s)
  PROVE  Handled(s, StopLending(s))
<1>1. StopLending(s) \in State
  BY DEF StopLending, release, Sound, State
<1> QED
  BY <1>1 DEF StopLending, release, Sound, State, Handled

LEMMA StopBorrowingSound ==
  ASSUME NEW s, Sound(s)
  PROVE  /\ Handled(s, StopBorrowing(s))
         /\ StopBorrowing(s).incoming = None
         /\ StopBorrowing(s).outgoing = s.outgoing
<1>1. StopBorrowing(s) \in State
  BY DEF StopBorrowing, allow_all_edges, end, Sound, State
<1> QED
  BY <1>1 DEF StopBorrowing, allow_all_edges, end, Sound, State, Handled

LEMMA ReleaseSound ==
  ASSUME NEW s, Sound(s)
  PROVE  Handled(s, release(s))
<1>1. release(s) \in State
  BY DEF release, Sound, State
<1> QED
  BY <1>1 DEF release, Sound, State, Handled

LEMMA TakenSound ==
  ASSUME NEW s, Sound(s), s.events # <<>>
  PROVE  /\ Handled(s, [s EXCEPT !.events = Tail(@)])
         /\ Head(s.events) \in Captured
<1>1. Tail(s.events) \in Seq(Captured) /\ Head(s.events) \in Captured
  BY HeadTailProperties DEF Sound, State
<1>2. [s EXCEPT !.events = Tail(@)] \in State
  BY <1>1 DEF Sound, State
<1> QED
  BY <1>1, <1>2 DEF Sound, State, Handled

LEMMA CatchSound ==
  ASSUME NEW s, Sound(s), NEW event \in Captured
  PROVE  Handled(s, Catch(s, event))
<1>1. Append(s.events, event) \in Seq(Captured)
  BY AppendProperties DEF Sound, State
<1>2. Catch(s, event) \in State
  BY <1>1 DEF Catch, Sound, State
<1> QED
  BY <1>2 DEF Catch, Sound, State, Handled

\* Of an incoming or an outgoing session the peer is a device, and so on.
LEMMA SessionTypes ==
  ASSUME NEW s, Sound(s)
  PROVE  /\ s.outgoing # None => s.outgoing.peer \in Device /\ s.outgoing.edge \in Edge
         /\ IsProbing(s) => s.outgoing \in Probing
         /\ IsReady(s) => s.outgoing \in Sending
         /\ \A p : IsSendingTo(s, p) => s.outgoing \in Sending
         /\ s.incoming # None => s.incoming.peer \in Device /\ s.incoming.edge \in Edge
         /\ s.takeover # None => s.takeover.peer \in Device /\ s.takeover.left \in 0..Repeats
BY DEF Sound, State, Probing, Sending, Portal, IsProbing, IsReady, IsSendingTo, IsPeer

LEMMA EntersSound ==
  ASSUME NEW s, Sound(s), s.incoming = None, NEW p \in Device, NEW e \in Edge
  PROVE  Handled(s, Enters(s, p, e))
<1> DEFINE session == [kind |-> "sending", peer |-> p, edge |-> e, ready |-> FALSE]
           t == [s EXCEPT !.outgoing = session]
<1>a. session \in Sending
  BY DEF Sending
<1>0. session \in Sending /\ session # None
  BY <1>a, NoneAssumption
<1>1. t \in State
  BY <1>0 DEF Sound, State
<1>2. Handled(s, t)
  <2> HIDE DEF session
  <2> QED
    BY <1>0, <1>1 DEF Sound, State, Handled
<1>3. SayAt("enter", Opposite[e]) \in Message
  BY EdgeAssumption, SaySends
<1>4. Handled(t, Enters(s, p, e))
  BY <1>2, <1>3, SendSound DEF Enters, Handled
<1> QED
  BY <1>2, <1>4, HandledTwice

LEMMA ProbesSound ==
  ASSUME NEW s, Sound(s), s.incoming = None, NEW p \in Device, NEW e \in Edge
  PROVE  Handled(s, Probes(s, p, e))
<1> DEFINE session == [kind |-> "probing", peer |-> p, edge |-> e, acknowledged |-> FALSE]
           t == [s EXCEPT !.outgoing = session]
<1>1. session \in Probing
  BY DEF Probing
<1>2. session \in Probing /\ session # None
  BY <1>1, NoneAssumption
<1>3. t \in State
  BY <1>2 DEF Sound, State
<1>4. Handled(s, t)
  <2> HIDE DEF session
  <2> QED
    BY <1>2, <1>3 DEF Sound, State, Handled
<1>5. SayAt("probe", Opposite[e]) \in Message
  BY EdgeAssumption, SaySends
<1>6. Handled(t, Probes(s, p, e))
  BY <1>4, <1>5, SendSound DEF Probes, Handled
<1> QED
  BY <1>4, <1>6, HandledTwice

LEMMA TakeOverSound ==
  ASSUME NEW s, Sound(s), NEW p \in Device
  PROVE  Handled(s, TakeOver(s, p))
<1> DEFINE t == [s EXCEPT !.takeover = [peer |-> p, left |-> Repeats]]
<1>1. Repeats \in 0..Repeats
  BY RepeatsAssumption
<1>2. t \in State
  BY <1>1 DEF Sound, State
<1>3. Handled(s, t)
  BY <1>2 DEF Sound, State, Handled
<1>4. Handled(t, TakeOver(s, p))
  BY <1>3, LeaveSound DEF TakeOver, Handled
<1> QED
  BY <1>3, <1>4, HandledTwice

\* A handler that changes only which edges lead where.
LEMMA PortalEdgesSound ==
  ASSUME NEW s, Sound(s), NEW portals \in [Device -> SUBSET Edge]
  PROVE  Handled(s, [s EXCEPT !.portal_edges = portals])
<1>1. [s EXCEPT !.portal_edges = portals] \in State
  BY DEF Sound, State
<1> QED
  BY <1>1 DEF Sound, State, Handled

LEMMA RememberSound ==
  ASSUME NEW s, Sound(s), NEW p \in Device, NEW e \in Edge
  PROVE  Handled(s, remember(s, p, e)) /\ Handled(s, forget_portal_edge(s, p, e))
<1>1. s.portal_edges \in [Device -> SUBSET Edge]
  BY DEF Sound, State
<1>2. /\ [s.portal_edges EXCEPT ![p] = @ \cup {e}] \in [Device -> SUBSET Edge]
      /\ [s.portal_edges EXCEPT ![p] = @ \ {e}] \in [Device -> SUBSET Edge]
  BY <1>1
<1>3. /\ remember(s, p, e) = [s EXCEPT !.portal_edges = [s.portal_edges EXCEPT ![p] = @ \cup {e}]]
      /\ forget_portal_edge(s, p, e) = [s EXCEPT !.portal_edges = [s.portal_edges EXCEPT ![p] = @ \ {e}]]
  BY DEF remember, forget_portal_edge
<1> QED
  BY <1>2, <1>3, PortalEdgesSound

LEMMA ForgetPeerSound ==
  ASSUME NEW s, Sound(s), NEW p \in Device
  PROVE  Handled(s, ForgetPeer(s, p))
<1> DEFINE portals == [s.portal_edges EXCEPT ![p] = {}]
<1>1. portals \in [Device -> SUBSET Edge]
  BY DEF Sound, State
<1>2. ForgetPeer(s, p) = [s EXCEPT !.portal_edges = portals]
  BY DEF ForgetPeer
<1> HIDE DEF portals
<1>3. Handled(s, [s EXCEPT !.portal_edges = portals])
  BY <1>1, PortalEdgesSound
<1> QED
  BY <1>2, <1>3

LEMMA HeardSound ==
  ASSUME NEW s, Sound(s), NEW p \in Device, NEW seen \in Seen
  PROVE  Handled(s, [s EXCEPT !.last_seen[p] = seen])
<1>1. [s.last_seen EXCEPT ![p] = seen] \in [Device -> Seen]
  BY DEF Sound, State
<1>2. [s EXCEPT !.last_seen[p] = seen] \in State
  BY <1>1 DEF Sound, State
<1> QED
  BY <1>2 DEF Sound, State, Handled

----------------------------------------------------------------------------
(* run: an event of the capture *)

\* What is left of a step when each device's part of it is known.
AllHandled ==
  /\ dev' \in [Device -> State]
  /\ \A k \in Device : Handled(dev[k], dev'[k])

LEMMA BecomeSound ==
  ASSUME SoundInv, NEW n \in Device, NEW s, Handled(dev[n], s),
         dev' = [dev EXCEPT ![n] = s]
  PROVE  AllHandled
<1>1. s \in State
  BY DEF Handled, Sound
<1>2. dev' \in [Device -> State]
  BY <1>1 DEF SoundInv
<1>3. ASSUME NEW k \in Device
      PROVE  Handled(dev[k], dev'[k])
  BY HandledSame DEF SoundInv
<1> QED
  BY <1>2, <1>3 DEF AllHandled

LEMMA HandleCapturedSound ==
  ASSUME SoundInv, NEW n \in Device, HandleCaptured(n)
  PROVE  AllHandled
<1> DEFINE s == dev[n]
           t == Taken(n)
<1>1. dev[n].events # <<>>
  BY DEF HandleCaptured, BeginReturns, BeginIgnored, BeginNobody, BeginLends,
         PointerPresses, PointerReturns, InputSent, InputIgnored,
         LocalInputTakesOver, LocalInputIgnored, NextIs
<1>2. /\ Sound(s)
      /\ Handled(s, t) /\ Sound(t)
      /\ Head(dev[n].events) \in Captured
  BY <1>1, TakenSound DEF SoundInv, Taken, Handled
<1>3. t.outgoing = s.outgoing /\ t.incoming = s.incoming
  BY <1>2 DEF Taken, Sound, State
<1>4. ASSUME NextIs(n, "begin")
      PROVE  NextEdge(n) \in Edge
  BY <1>2, <1>4 DEF NextIs, NextEdge, Captured
<1> HIDE DEF s, t
<1>5. SUFFICES \E u : Handled(t, u) /\ dev' = [dev EXCEPT ![n] = u]
  BY <1>2, HandledTwice, BecomeSound DEF s
<1>6. CASE BeginReturns(n)
  <2>1. s.incoming # None /\ s.incoming.peer \in Device
    BY <1>2, <1>6, SessionTypes DEF BeginReturns, ReturnsBorrowed, s
  <2> DEFINE u == StopBorrowing(t)
             v == send(u, s.incoming.peer, Say("leave"))
  <2>2. Handled(t, u)
    BY <1>2, StopBorrowingSound
  <2>3. Handled(u, v)
    BY <2>1, <2>2, SendSound, SaySends DEF Handled
  <2>4. Handled(v, release(v))
    BY <2>3, ReleaseSound DEF Handled
  <2>5. Handled(t, release(v))
    BY <2>2, <2>3, <2>4, HandledTwice
  <2>6. dev' = [dev EXCEPT ![n] = release(v)]
    BY <1>6 DEF BeginReturns, Handle, Become, s, t
  <2> QED
    BY <2>5, <2>6
<1>7. CASE BeginIgnored(n) \/ InputIgnored(n) \/ LocalInputIgnored(n)
  <2>1. dev' = [dev EXCEPT ![n] = t]
    BY <1>7 DEF BeginIgnored, InputIgnored, LocalInputIgnored, Handle, Become, t
  <2> QED
    BY <1>2, <2>1, HandledSame
<1>8. CASE BeginNobody(n)
  <2>1. dev' = [dev EXCEPT ![n] = release(t)]
    BY <1>8 DEF BeginNobody, Handle, Become, t
  <2> QED
    BY <1>2, <2>1, ReleaseSound
<1>9. ASSUME NEW p \in Device, BeginLends(n, p)
      PROVE  \E u : Handled(t, u) /\ dev' = [dev EXCEPT ![n] = u]
  <2>1. t.incoming = None /\ NextEdge(n) \in Edge
    BY <1>3, <1>4, <1>9 DEF BeginLends, IsBusy, s
  <2>2. \/ dev' = [dev EXCEPT ![n] = Enters(t, p, NextEdge(n))]
        \/ dev' = [dev EXCEPT ![n] = Probes(t, p, NextEdge(n))]
    BY <1>9 DEF BeginLends, Handle, Become, t
  <2> QED
    BY <1>2, <2>1, <2>2, EntersSound, ProbesSound
<1>10. CASE PointerPresses(n)
  <2>1. s.outgoing \in Probing
    BY <1>2, <1>10, SessionTypes DEF PointerPresses, s
  <2>2. s.outgoing.peer \in Device /\ SayAt("probe", Opposite[s.outgoing.edge]) \in Message
    BY <2>1, EdgeAssumption, SaySends DEF Probing
  <2>3. dev' = [dev EXCEPT ![n] = send(t, s.outgoing.peer, SayAt("probe", Opposite[s.outgoing.edge]))]
    BY <1>10 DEF PointerPresses, Handle, Become, s, t
  <2> QED
    BY <1>2, <2>2, <2>3, SendSound
<1>11. CASE PointerReturns(n)
  <2>1. t.outgoing # None /\ t.outgoing.peer \in Device
    BY <1>2, <1>3, <1>11, SessionTypes DEF PointerReturns, IsProbing, IsReady, s
  <2> DEFINE u == send_force_leave(t, t.outgoing.peer)
  <2>2. Handled(t, u)
    BY <1>2, <2>1, LeaveSound
  <2>3. Handled(u, StopLending(u))
    BY <2>2, StopLendingSound DEF Handled
  <2>4. dev' = [dev EXCEPT ![n] = StopLending(u)]
    BY <1>11 DEF PointerReturns, Handle, Become, StopLendingAndLeave, t
  <2> QED
    BY <2>2, <2>3, <2>4, HandledTwice
<1>12. CASE InputSent(n)
  <2>1. s.outgoing \in Sending /\ Head(dev[n].events) \in Message
    BY <1>2, <1>12, SessionTypes DEF InputSent, NextIs, Captured, Message, s
  <2>2. dev' = [dev EXCEPT ![n] = send(t, s.outgoing.peer, Head(dev[n].events))]
    BY <1>12 DEF InputSent, Handle, Become, s, t
  <2> QED
    BY <1>2, <2>1, <2>2, SendSound DEF Sending
<1>13. CASE LocalInputTakesOver(n)
  <2>1. s.incoming # None /\ s.incoming.peer \in Device
    BY <1>2, <1>13, SessionTypes DEF LocalInputTakesOver, s
  <2> DEFINE u == StopBorrowing(t)
             v == release(u)
  <2>2. Handled(t, u)
    BY <1>2, StopBorrowingSound
  <2>3. Handled(u, v)
    BY <2>2, ReleaseSound DEF Handled
  <2>4. Handled(v, TakeOver(v, s.incoming.peer))
    BY <2>1, <2>3, TakeOverSound DEF Handled
  <2>5. dev' = [dev EXCEPT ![n] = TakeOver(v, s.incoming.peer)]
    BY <1>13 DEF LocalInputTakesOver, Handle, Become, s, t
  <2> QED
    BY <2>2, <2>3, <2>4, <2>5, HandledTwice
<1> QED
  BY <1>6, <1>7, <1>8, <1>9, <1>10, <1>11, <1>12, <1>13 DEF HandleCaptured

----------------------------------------------------------------------------
(* run: a message *)

LEMMA WithoutType ==
  ASSUME NEW S, NEW q \in Seq(S), NEW i \in DOMAIN q
  PROVE  Without(q, i) \in Seq(S)
<1>1. Len(q) \in Nat /\ DOMAIN q = 1..Len(q) /\ \A j \in 1..Len(q) : q[j] \in S
  BY LenProperties, ElementOfSeq
<1>2. SubSeq(q, 1, i - 1) \in Seq(S)
  BY <1>1, SubSeqProperties
<1>3. SubSeq(q, i + 1, Len(q)) \in Seq(S)
  BY <1>1, SubSeqProperties
<1> QED
  BY <1>2, <1>3, ConcatProperties DEF Without

LEMMA OutboundSound ==
  ASSUME NEW s, Sound(s), NEW p \in Device, NEW queue \in Seq(Message)
  PROVE  Handled(s, [s EXCEPT !.outbound[p] = queue])
<1>1. [s.outbound EXCEPT ![p] = queue] \in [Device -> Seq(Message)]
  BY DEF Sound, State
<1>2. [s EXCEPT !.outbound[p] = queue] \in State
  BY <1>1 DEF Sound, State
<1> QED
  BY <1>2 DEF Sound, State, Handled

LEMMA AnswerSound ==
  ASSUME SoundInv, NEW m \in Device, NEW n \in Device, NEW i, NEW s,
         Delivers(m, n, i), Handled(Heard(n, m), s), Answer(m, n, i, s)
  PROVE  AllHandled
<1> DEFINE queue == Without(dev[m].outbound[n], i)
           sender == [dev[m] EXCEPT !.outbound[n] = queue]
<1>1. dev[m].outbound[n] \in Seq(Message) /\ i \in DOMAIN dev[m].outbound[n]
  BY DEF SoundInv, State, Delivers
<1>2. queue \in Seq(Message)
  BY <1>1, WithoutType
<1>3. Sound(dev[m]) /\ Sound(dev[n])
  BY DEF SoundInv
<1>4. Handled(dev[m], sender)
  <2> HIDE DEF queue
  <2> QED
    BY <1>2, <1>3, OutboundSound
<1>5. Handled(dev[n], s)
  <2>1. Handled(dev[n], Heard(n, m))
    BY <1>3, HeardSound DEF Heard, Seen
  <2> QED
    BY <2>1, HandledTwice
<1>6. dev' = [k \in Device |-> IF k = n THEN s ELSE IF k = m THEN sender ELSE dev[k]]
  BY DEF Answer, SoundInv
<1> HIDE DEF sender
<1>7. s \in State /\ sender \in State
  BY <1>4, <1>5 DEF Handled, Sound
<1>8. dev' \in [Device -> State]
  BY <1>6, <1>7 DEF SoundInv
<1>9. ASSUME NEW k \in Device
      PROVE  Handled(dev[k], dev'[k])
  BY <1>4, <1>5, <1>6, HandledSame DEF SoundInv
<1> QED
  BY <1>8, <1>9 DEF AllHandled

LEMMA PreviewSound ==
  ASSUME NEW s, Sound(s), NEW shown \in Portal \cup {None}
  PROVE  Handled(s, [s EXCEPT !.preview = shown])
<1>1. [s EXCEPT !.preview = shown] \in State
  BY DEF Sound, State
<1> QED
  BY <1>1 DEF Sound, State, Handled

\* An outgoing session that stays one, with another flag.
LEMMA OutgoingSound ==
  ASSUME NEW s, Sound(s), s.incoming = None, NEW session \in Probing \cup Sending
  PROVE  Handled(s, [s EXCEPT !.outgoing = session])
<1>1. session # None
  BY NoneAssumption
<1>2. [s EXCEPT !.outgoing = session] \in State
  BY DEF Sound, State
<1> QED
  BY <1>1, <1>2 DEF Sound, State, Handled

LEMMA EnteredSound ==
  ASSUME NEW s, Sound(s), s.incoming = None, NEW m \in Device, NEW e \in Edge
  PROVE  Handled(s, Entered(s, m, e))
<1> DEFINE shown == [s EXCEPT !.preview = None]
           yielded == Yield(shown)
           portal == [peer |-> m, edge |-> e]
           t == [yielded EXCEPT !.allowed_edges = {e}, !.incoming = portal]
<1>1. Handled(s, shown) /\ shown.incoming = None
  BY PreviewSound DEF Sound, State
<1>2. /\ Handled(shown, yielded)
      /\ yielded.outgoing = None /\ yielded.incoming = None
  <2>1. Sound(shown)
    BY <1>1 DEF Handled
  <2> HIDE DEF shown
  <2>2. CASE shown.outgoing = None
    BY <1>1, <2>1, <2>2, HandledSame DEF Yield
  <2>3. CASE shown.outgoing # None
    <3>1. StopLending(shown).outgoing = None /\ StopLending(shown).incoming = None
      BY <1>1, <2>1 DEF StopLending, release, Sound, State
    <3> QED
      BY <2>1, <2>3, <3>1, StopLendingSound DEF Yield
  <2> QED
    BY <2>2, <2>3
<1>3. Sound(yielded)
  BY <1>2 DEF Handled
<1> HIDE DEF yielded
<1>4. portal \in Portal /\ portal.edge = e
  BY DEF Portal
<1> HIDE DEF portal
<1>5. t \in State
  BY <1>3, <1>4 DEF Sound, State
<1>6. Handled(yielded, t)
  BY <1>2, <1>3, <1>4, <1>5 DEF Handled, Sound, State
<1>7. Handled(t, remember(t, m, e))
  BY <1>6, RememberSound DEF Handled
<1>8. Entered(s, m, e) = remember(t, m, e)
  BY DEF Entered, yielded, portal
<1> QED
  BY <1>1, <1>2, <1>6, <1>7, <1>8, HandledTwice

LEMMA LeaveLendingSound ==
  ASSUME NEW s, Sound(s), NEW m \in Device
  PROVE  Handled(s, LeaveLending(s, m))
<1>1. CASE LeaveLending(s, m) = s
  BY <1>1, HandledSame
<1>2. CASE IsSendingTo(s, m) /\ LeaveLending(s, m) = StopLending(forget_portal_edge(s, m, s.outgoing.edge))
  <2>1. s.outgoing.edge \in Edge
    BY <1>2, SessionTypes DEF Sending
  <2>2. Handled(s, forget_portal_edge(s, m, s.outgoing.edge))
    BY <2>1, RememberSound
  <2> QED
    BY <1>2, <2>2, StopLendingSound, HandledTwice DEF Handled
<1>3. CASE LeaveLending(s, m) = StopLending(s)
  BY <1>3, StopLendingSound
<1> QED
  BY <1>1, <1>2, <1>3 DEF LeaveLending

LEMMA LeaveBorrowingSound ==
  ASSUME NEW s, Sound(s), NEW m \in Device
  PROVE  Handled(s, LeaveBorrowing(s, m))
BY StopBorrowingSound, HandledSame DEF LeaveBorrowing

LEMMA KeyboardSound ==
  ASSUME NEW s, Sound(s), s.incoming # None, NEW key
  PROVE  Handled(s, apply_keyboard(s, key))
<1>1. apply_keyboard(s, key) \in State
  BY DEF apply_keyboard, Sound, State
<1> QED
  BY <1>1 DEF apply_keyboard, Sound, State, Handled

LEMMA HandleMessageSound ==
  ASSUME SoundInv, NEW m \in Device, NEW n \in Device, NEW i, HandleMessage(m, n, i)
  PROVE  AllHandled
<1> DEFINE h == Heard(n, m)
<1>1. Delivers(m, n, i)
  BY DEF HandleMessage, ProbeRefused, ProbeAnswered, ProbeAcknowledged, EnterRefused,
         EnterAccepted, EnterAcknowledged, LeaveHandled, InputRefused, InputDropped,
         PointerInjected, PointerLeaves, KeyInjected, IsInjected
<1>2. Sound(dev[n]) /\ Sound(h)
  BY HeardSound DEF SoundInv, Heard, Seen, Handled
<1>3. h.incoming = dev[n].incoming /\ h.outgoing = dev[n].outgoing
  BY <1>2 DEF Heard, Sound, State
<1>4. dev[m].outbound[n][i] \in Message
  BY <1>1, ElementOfSeq DEF SoundInv, State, Delivers
<1>5. IsOf(m, n, i, "probe") \/ IsOf(m, n, i, "enter") => EdgeOf(m, n, i) \in Edge
  BY <1>4 DEF IsOf, EdgeOf, Message
<1> HIDE DEF h
<1>6. SUFFICES \E u : Handled(h, u) /\ Answer(m, n, i, u)
  BY <1>1, AnswerSound DEF h
<1>7. CASE ProbeRefused(m, n, i) \/ EnterRefused(m, n, i) \/ InputRefused(m, n, i)
  <2>1. Answer(m, n, i, send_force_leave(h, m))
    BY <1>7 DEF ProbeRefused, EnterRefused, InputRefused, h
  <2> QED
    BY <1>2, <2>1, LeaveSound
<1>8. CASE InputDropped(m, n, i) \/ PointerInjected(m, n, i)
  <2>1. Answer(m, n, i, h)
    BY <1>8 DEF InputDropped, PointerInjected, h
  <2> QED
    BY <1>2, <2>1, HandledSame
<1>9. CASE ProbeAnswered(m, n, i)
  <2>1. EdgeOf(m, n, i) \in Edge
    BY <1>5, <1>9 DEF ProbeAnswered
  <2> DEFINE shown == IF portal_edge_confirmed(dev[n], m, EdgeOf(m, n, i)) THEN dev[n].preview
                      ELSE [peer |-> m, edge |-> EdgeOf(m, n, i)]
             t == [h EXCEPT !.preview = shown]
  <2>2. shown \in Portal \cup {None}
    BY <1>2, <2>1 DEF Portal, Sound, State
  <2>3. Answer(m, n, i, send(t, m, Say("probeAck")))
    BY <1>9 DEF ProbeAnswered, h
  <2> HIDE DEF shown
  <2>4. Handled(h, t)
    BY <1>2, <2>2, PreviewSound
  <2>5. Handled(t, send(t, m, Say("probeAck")))
    BY <2>4, SendSound, SaySends DEF Handled
  <2> QED
    BY <2>3, <2>4, <2>5, HandledTwice
<1>10. CASE ProbeAcknowledged(m, n, i)
  <2>1. CASE IsPeer(dev[n].outgoing, m) /\ IsProbing(dev[n])
    <3> DEFINE session == [h.outgoing EXCEPT !.acknowledged = TRUE]
    <3>1. h.outgoing \in Probing /\ h.incoming = None
      BY <1>2, <1>3, <2>1, SessionTypes DEF IsProbing, Sound
    <3>2. session \in Probing
      BY <3>1 DEF Probing
    <3>3. Answer(m, n, i, [h EXCEPT !.outgoing = session])
      BY <1>10, <2>1 DEF ProbeAcknowledged, h
    <3> HIDE DEF session
    <3> QED
      BY <1>2, <3>1, <3>2, <3>3, OutgoingSound
  <2>2. CASE ~(IsPeer(dev[n].outgoing, m) /\ IsProbing(dev[n]))
    BY <1>2, <1>10, <2>2, HandledSame DEF ProbeAcknowledged, h
  <2> QED
    BY <2>1, <2>2
<1>11. CASE EnterAccepted(m, n, i)
  <2>1. h.incoming = None /\ EdgeOf(m, n, i) \in Edge
    BY <1>3, <1>5, <1>11 DEF EnterAccepted, MayEnter
  <2> DEFINE t == Entered(h, m, EdgeOf(m, n, i))
  <2>2. Handled(h, t)
    BY <1>2, <2>1, EnteredSound
  <2>3. Answer(m, n, i, send(t, m, Say("ack")))
    BY <1>11 DEF EnterAccepted, h
  <2> HIDE DEF t
  <2>4. Handled(t, send(t, m, Say("ack")))
    BY <2>2, SendSound, SaySends DEF Handled
  <2> QED
    BY <2>2, <2>3, <2>4, HandledTwice
<1>12. CASE EnterAcknowledged(m, n, i)
  <2>1. CASE IsSendingTo(dev[n], m)
    <3> DEFINE session == [h.outgoing EXCEPT !.ready = TRUE]
               t == [h EXCEPT !.outgoing = session]
    <3>1. h.outgoing \in Sending /\ h.incoming = None /\ dev[n].outgoing.edge \in Edge
      BY <1>2, <1>3, <2>1, SessionTypes DEF IsSendingTo, IsPeer, Sound
    <3>2. session \in Sending
      BY <3>1 DEF Sending
    <3>3. Answer(m, n, i, remember(t, m, dev[n].outgoing.edge))
      BY <1>12, <2>1 DEF EnterAcknowledged, h
    <3> HIDE DEF session
    <3>4. Handled(h, t)
      BY <1>2, <3>1, <3>2, OutgoingSound
    <3>5. Handled(t, remember(t, m, dev[n].outgoing.edge))
      BY <3>1, <3>4, RememberSound DEF Handled
    <3> QED
      BY <3>3, <3>4, <3>5, HandledTwice
  <2>2. CASE ~IsSendingTo(dev[n], m)
    BY <1>2, <1>12, <2>2, HandledSame DEF EnterAcknowledged, h
  <2> QED
    BY <2>1, <2>2
<1>13. CASE LeaveHandled(m, n, i)
  <2> DEFINE t == LeaveLending(h, m)
  <2>1. Handled(h, t)
    BY <1>2, LeaveLendingSound
  <2>2. Handled(t, LeaveBorrowing(t, m))
    BY <2>1, LeaveBorrowingSound DEF Handled
  <2>3. Answer(m, n, i, LeaveBorrowing(t, m))
    BY <1>13 DEF LeaveHandled, h
  <2> QED
    BY <2>1, <2>2, <2>3, HandledTwice
<1>14. CASE PointerLeaves(m, n, i)
  <2> DEFINE t == StopBorrowing(h)
  <2>1. Handled(h, t)
    BY <1>2, StopBorrowingSound
  <2>2. Handled(t, send(t, m, Say("leave")))
    BY <2>1, SendSound, SaySends DEF Handled
  <2>3. Answer(m, n, i, send(t, m, Say("leave")))
    BY <1>14 DEF PointerLeaves, h
  <2> QED
    BY <2>1, <2>2, <2>3, HandledTwice
<1>15. CASE KeyInjected(m, n, i)
  <2>1. h.incoming # None
    BY <1>3, <1>15 DEF KeyInjected, IsInjected, IsPeer
  <2>2. Answer(m, n, i, apply_keyboard(h, dev[m].outbound[n][i].key))
    BY <1>15 DEF KeyInjected, h
  <2> QED
    BY <1>2, <2>1, <2>2, KeyboardSound
<1> QED
  BY <1>7, <1>8, <1>9, <1>10, <1>11, <1>12, <1>13, <1>14, <1>15 DEF HandleMessage

----------------------------------------------------------------------------
(* run: the tick, one part after the other *)

LEMMA TickEdgesSound ==
  ASSUME NEW s, Sound(s)
  PROVE  Handled(s, TickEdges(s))
<1>1. CASE IsBusy(s)
  BY <1>1, HandledSame DEF TickEdges
<1>2. CASE ~IsBusy(s)
  <2> DEFINE mask == available_edge_mask(s)
             t == [s EXCEPT !.allowed_edges = mask]
  <2>1. mask \subseteq Edge
    BY DEF available_edge_mask
  <2>2. s.incoming = None /\ s.outgoing = None /\ TickEdges(s) = t
    BY <1>2 DEF IsBusy, TickEdges
  <2> HIDE DEF mask
  <2>3. t \in State
    BY <2>1 DEF Sound, State
  <2>4. Handled(s, t)
    BY <2>2, <2>3 DEF Sound, State, Handled
  <2> QED
    BY <2>2, <2>4
<1> QED
  BY <1>1, <1>2

LEMMA TickTrustSound ==
  ASSUME NEW s, Sound(s)
  PROVE  Handled(s, TickTrust(s))
<1> DEFINE alone == IF s.outgoing # None /\ s.outgoing.peer \notin s.trusted
                    THEN StopLending(s) ELSE s
           free == IF alone.incoming # None /\ alone.incoming.peer \notin s.trusted
                   THEN StopBorrowing(alone) ELSE alone
           portals == [p \in Device |-> IF p \in s.trusted THEN free.portal_edges[p] ELSE {}]
<1>1. TickTrust(s) = [free EXCEPT !.portal_edges = portals]
  BY DEF TickTrust
<1>2. Handled(s, alone)
  BY StopLendingSound, HandledSame
<1> HIDE DEF alone
<1>3. Handled(alone, free)
  BY <1>2, StopBorrowingSound, HandledSame DEF Handled
<1> HIDE DEF free
<1>4. portals \in [Device -> SUBSET Edge]
  BY <1>3 DEF Handled, Sound, State
<1> HIDE DEF portals
<1>5. Handled(free, [free EXCEPT !.portal_edges = portals])
  BY <1>3, <1>4, PortalEdgesSound DEF Handled
<1> QED
  BY <1>1, <1>2, <1>3, <1>5, HandledTwice

LEMMA TickTakeoverSound ==
  ASSUME NEW s, Sound(s), NEW again
  PROVE  Handled(s, TickTakeover(s, again))
<1>1. CASE s.takeover = None \/ ~again
  BY <1>1, HandledSame DEF TickTakeover
<1>2. CASE ~(s.takeover = None \/ ~again)
  <2>1. s.takeover \in [peer : Device, left : 0..Repeats]
    BY <1>2 DEF Sound, State
  <2>2. CASE s.takeover.left = 0
    <3> DEFINE t == [s EXCEPT !.takeover = None]
    <3>1. t \in State
      BY DEF Sound, State
    <3>2. Handled(s, t)
      BY <3>1 DEF Sound, State, Handled
    <3>3. TickTakeover(s, again) = t
      BY <1>2, <2>2 DEF TickTakeover
    <3> QED
      BY <3>2, <3>3
  <2>3. CASE s.takeover.left # 0
    <3> DEFINE left == [s.takeover EXCEPT !.left = @ - 1]
               t == [s EXCEPT !.takeover = left]
    <3>1. left \in [peer : Device, left : 0..Repeats]
      BY <2>1, <2>3, RepeatsAssumption
    <3>2. TickTakeover(s, again) = send_force_leave(t, s.takeover.peer)
      BY <1>2, <2>3 DEF TickTakeover
    <3> HIDE DEF left
    <3>3. t \in State
      BY <3>1 DEF Sound, State
    <3>4. Handled(s, t)
      BY <3>3 DEF Sound, State, Handled
    <3>5. Handled(t, send_force_leave(t, s.takeover.peer))
      BY <2>1, <3>4, LeaveSound DEF Handled
    <3> QED
      BY <3>2, <3>4, <3>5, HandledTwice
  <2> QED
    BY <2>2, <2>3
<1> QED
  BY <1>1, <1>2

LEMMA TickProbingSound ==
  ASSUME NEW s, Sound(s), NEW gap, NEW held
  PROVE  Handled(s, TickProbing(s, gap, held))
<1>1. CASE TickProbing(s, gap, held) = s
  BY <1>1, HandledSame
<1>2. CASE /\ IsProbing(s)
           /\ TickProbing(s, gap, held) = StopLending(send_force_leave(s, s.outgoing.peer))
  <2>1. s.outgoing.peer \in Device
    BY <1>2, SessionTypes DEF Probing
  <2> DEFINE t == send_force_leave(s, s.outgoing.peer)
  <2>2. Handled(s, t)
    BY <2>1, LeaveSound
  <2>3. Handled(t, StopLending(t))
    BY <2>2, StopLendingSound DEF Handled
  <2> QED
    BY <1>2, <2>2, <2>3, HandledTwice
<1>3. CASE /\ IsProbing(s)
           /\ TickProbing(s, gap, held) = Enters(s, s.outgoing.peer, s.outgoing.edge)
  <2>1. s.outgoing.peer \in Device /\ s.outgoing.edge \in Edge /\ s.incoming = None
    BY <1>3, SessionTypes DEF Probing, IsProbing, Sound
  <2> QED
    BY <1>3, <2>1, EntersSound
<1> QED
  BY <1>1, <1>2, <1>3 DEF TickProbing

LEMMA TickPreviewSound ==
  ASSUME NEW s, Sound(s), NEW old
  PROVE  Handled(s, TickPreview(s, old))
BY PreviewSound, HandledSame DEF TickPreview

\* A session with a peer that is not heard of ends, whichever way it goes.
LEMMA TimeoutSound ==
  ASSUME NEW s, NEW t, Handled(s, t), NEW p \in Device
  PROVE  Handled(s, TakeOver(ForgetPeer(t, p), p))
<1>1. Sound(t)
  BY DEF Handled
<1>2. Handled(t, ForgetPeer(t, p))
  BY <1>1, ForgetPeerSound
<1>3. Handled(ForgetPeer(t, p), TakeOver(ForgetPeer(t, p), p))
  BY <1>2, TakeOverSound DEF Handled
<1> QED
  BY <1>2, <1>3, HandledTwice

LEMMA TickTimeoutsSound ==
  ASSUME NEW s, Sound(s)
  PROVE  Handled(s, TickTimeouts(s))
<1> DEFINE lost == IF s.outgoing # None /\ peer_timed_out(s, s.outgoing.peer)
                   THEN TakeOver(ForgetPeer(StopLending(s), s.outgoing.peer), s.outgoing.peer)
                   ELSE s
<1>1. Handled(s, lost)
  BY StopLendingSound, TimeoutSound, HandledSame, SessionTypes
<1>2. TickTimeouts(s) = IF lost.incoming # None /\ peer_timed_out(s, lost.incoming.peer)
        THEN TakeOver(ForgetPeer(StopBorrowing(lost), lost.incoming.peer), lost.incoming.peer)
        ELSE lost
  BY DEF TickTimeouts
<1> HIDE DEF lost
<1>3. Sound(lost)
  BY <1>1 DEF Handled
<1>4. Handled(lost, TickTimeouts(s))
  BY <1>2, <1>3, StopBorrowingSound, TimeoutSound, HandledSame, SessionTypes
<1> QED
  BY <1>1, <1>4, HandledTwice

LEMMA TickSound ==
  ASSUME SoundInv, NEW n \in Device, Tick(n)
  PROVE  AllHandled
<1>1. PICK gap \in If(IsProbing(dev[n])), held \in If(IsProbing(dev[n])),
           old \in If(dev[n].preview # None), again \in If(dev[n].takeover # None) :
        Become(n, TickTimeouts(TickPreview(TickProbing(
                    TickTakeover(TickTrust(TickEdges(dev[n])), again), gap, held), old)))
  BY Zenon DEF Tick, Handle
<1> DEFINE edges == TickEdges(dev[n])
           trust == TickTrust(edges)
           now == TickTakeover(trust, again)
           probing == TickProbing(now, gap, held)
           preview == TickPreview(probing, old)
<1>2. Handled(dev[n], edges)
  BY TickEdgesSound DEF SoundInv
<1> HIDE DEF edges
<1>3. Handled(edges, trust)
  BY <1>2, TickTrustSound DEF Handled
<1> HIDE DEF trust
<1>4. Handled(trust, now)
  BY <1>3, TickTakeoverSound DEF Handled
<1> HIDE DEF now
<1>5. Handled(now, probing)
  BY <1>4, TickProbingSound DEF Handled
<1> HIDE DEF probing
<1>6. Handled(probing, preview)
  BY <1>5, TickPreviewSound DEF Handled
<1> HIDE DEF preview
<1>7. Handled(preview, TickTimeouts(preview))
  BY <1>6, TickTimeoutsSound DEF Handled
<1>8. Handled(dev[n], TickTimeouts(preview))
  BY <1>2, <1>3, <1>4, <1>5, <1>6, <1>7, HandledTwice
<1>9. dev' = [dev EXCEPT ![n] = TickTimeouts(preview)]
  BY <1>1 DEF Become, preview, probing, now, trust, edges
<1> QED
  BY <1>8, <1>9, BecomeSound

----------------------------------------------------------------------------
(* Users, the network, crashes and the command line *)

\* The one step that begins to capture.
LEMMA UserSound ==
  ASSUME SoundInv, NEW n \in Device, User(n)
  PROVE  /\ dev' \in [Device -> State]
         /\ \A k \in Device : Sound(dev'[k]) /\ dev'[k].outgoing = dev[k].outgoing
<1> SUFFICES \E s : Sound(s) /\ s.outgoing = dev[n].outgoing /\ dev' = [dev EXCEPT ![n] = s]
  BY DEF SoundInv, Sound
<1>1. Sound(dev[n])
  BY DEF SoundInv
<1>2. ASSUME NEW s, Sound(s), NEW event \in Captured, s.outgoing = dev[n].outgoing
      PROVE  Sound(Catch(s, event)) /\ Catch(s, event).outgoing = dev[n].outgoing
  BY <1>2, CatchSound DEF Catch, Handled, Sound, State
<1>3. ASSUME NEW e \in Edge, UserCrosses(n, e)
      PROVE  \E s : Sound(s) /\ s.outgoing = dev[n].outgoing /\ dev' = [dev EXCEPT ![n] = s]
  <2> DEFINE t == [dev[n] EXCEPT !.active = TRUE]
  <2>1. t \in State
    BY <1>1 DEF Sound, State
  <2>2. Sound(t) /\ t.outgoing = dev[n].outgoing
    BY <1>1, <2>1 DEF Sound, State
  <2>3. SayAt("begin", e) \in Captured
    BY DEF SayAt, Captured
  <2>4. dev' = [dev EXCEPT ![n] = Catch(t, SayAt("begin", e))]
    BY <1>3 DEF UserCrosses, Catch, SoundInv
  <2> HIDE DEF t
  <2> QED
    BY <1>2, <2>2, <2>3, <2>4
<1>4. CASE UserTouches(n)
  BY <1>1, <1>2, <1>4 DEF UserTouches, Become, Say, Captured
<1>5. ASSUME NEW motion \in Motion, UserMoves(n, motion)
      PROVE  \E s : Sound(s) /\ s.outgoing = dev[n].outgoing /\ dev' = [dev EXCEPT ![n] = s]
  BY <1>1, <1>2, <1>5 DEF UserMoves, Become, Captured
<1>6. ASSUME NEW key \in Key, UserPresses(n, key)
      PROVE  \E s : Sound(s) /\ s.outgoing = dev[n].outgoing /\ dev' = [dev EXCEPT ![n] = s]
  BY <1>1, <1>2, <1>6 DEF UserPresses, Become, Captured
<1> QED
  BY <1>3, <1>4, <1>5, <1>6 DEF User

LEMMA StartedSound ==
  ASSUME NEW trusted \in SUBSET Device, NEW outbound \in [Device -> Seq(Message)]
  PROVE  Sound(Started(trusted, outbound)) /\ ~Started(trusted, outbound).active
<1>1. Started(trusted, outbound) \in State
  BY DEF Started, State, Seen
<1> QED
  BY <1>1 DEF Started, Sound

LEMMA EnvironmentSound ==
  ASSUME SoundInv, Environment
  PROVE  AllHandled
<1>1. CASE Cut \/ Heal
  BY <1>1, HandledSame DEF Cut, Heal, SoundInv, AllHandled
<1>2. ASSUME NEW n \in Device, Restart(n)
      PROVE  AllHandled
  <2> DEFINE fresh == Started(dev[n].trusted, dev[n].outbound)
  <2>1. Sound(fresh) /\ ~fresh.active
    BY StartedSound DEF SoundInv, State
  <2>2. Handled(dev[n], fresh)
    BY <2>1 DEF Handled
  <2>3. ASSUME NEW m \in Device
        PROVE  Handled(dev[m], [dev[m] EXCEPT !.outbound[n] = <<>>])
    <3>1. \A queue \in Seq(Message) : Handled(dev[m], [dev[m] EXCEPT !.outbound[n] = queue])
      BY OutboundSound DEF SoundInv
    <3>2. <<>> \in Seq(Message)
      BY EmptySeq
    <3> QED
      BY <3>1, <3>2
  <2>4. dev' = [m \in Device |-> IF m = n THEN fresh ELSE [dev[m] EXCEPT !.outbound[n] = <<>>]]
    BY <1>2 DEF Restart
  <2> HIDE DEF fresh
  <2>5. \A m \in Device : Handled(dev[m], dev'[m])
    BY <2>2, <2>3, <2>4
  <2>6. \A m \in Device : dev'[m] \in State
    BY <2>5 DEF Handled, Sound
  <2> QED
    BY <2>4, <2>5, <2>6 DEF AllHandled
<1>3. ASSUME NEW n \in Device, NEW m \in Device, Miss(n, m)
      PROVE  AllHandled
  <2> DEFINE seen == IF dev[n].last_seen[m] = "recent" THEN "late" ELSE "gone"
  <2>1. seen \in Seen
    BY DEF Seen
  <2>2. dev' = [dev EXCEPT ![n] = [dev[n] EXCEPT !.last_seen[m] = seen]]
    BY <1>3 DEF Miss, Become
  <2> HIDE DEF seen
  <2> QED
    BY <2>1, <2>2, HeardSound, BecomeSound DEF SoundInv
<1>4. ASSUME NEW n \in Device, NEW m \in Device, Unpair(n, m)
      PROVE  AllHandled
  <2> DEFINE rest == dev[n].trusted \ {m}
             t == [dev[n] EXCEPT !.trusted = rest]
  <2>1. Sound(dev[n]) /\ rest \subseteq Device
    BY DEF SoundInv, State
  <2>2. dev' = [dev EXCEPT ![n] = t]
    BY <1>4 DEF Unpair, Become
  <2> HIDE DEF rest
  <2>3. t \in State
    BY <2>1 DEF Sound, State
  <2>4. Handled(dev[n], t)
    BY <2>1, <2>3 DEF Sound, State, Handled
  <2> QED
    BY <2>2, <2>4, BecomeSound
<1>5. ASSUME NEW m \in Device, NEW n \in Device, NEW i \in DOMAIN dev[m].outbound[n], Lose(m, n, i)
      PROVE  AllHandled
  <2> DEFINE queue == Without(dev[m].outbound[n], i)
  <2>1. queue \in Seq(Message)
    BY WithoutType DEF SoundInv, State
  <2>2. dev' = [dev EXCEPT ![m] = [dev[m] EXCEPT !.outbound[n] = queue]]
    BY <1>5 DEF Lose, Become
  <2> HIDE DEF queue
  <2> QED
    BY <2>1, <2>2, OutboundSound, BecomeSound DEF SoundInv
<1> QED
  BY <1>1, <1>2, <1>3, <1>4, <1>5 DEF Environment

----------------------------------------------------------------------------
(* The theorems *)

LEMMA SoundInit == Init => SoundInv
<1> SUFFICES ASSUME Init PROVE SoundInv
  OBVIOUS
<1>1. <<>> \in Seq(Message)
  BY EmptySeq
<1>2. [p \in Device |-> <<>>] \in [Device -> Seq(Message)]
  BY <1>1
<1>3. \A n \in Device : Sound(dev[n])
  BY <1>2, StartedSound DEF Init
<1>4. dev \in [Device -> State]
  BY <1>3 DEF Sound, Init
<1> QED
  BY <1>3, <1>4 DEF Init, SoundInv

\* Every step of a device, but its user's crossing an edge, is Handled.
LEMMA StepSound ==
  ASSUME SoundInv, [Next]_vars
  PROVE  /\ dev' \in [Device -> State]
         /\ \A n \in Device :
              /\ Sound(dev'[n])
              /\ dev[n].outgoing # None /\ dev'[n].outgoing = None => ~dev'[n].active
<1> SUFFICES ASSUME ~AllHandled
             PROVE  /\ dev' \in [Device -> State]
                    /\ \A n \in Device :
                         Sound(dev'[n]) /\ dev'[n].outgoing = dev[n].outgoing
  BY DEF AllHandled, Handled
<1>1. ASSUME UNCHANGED vars
      PROVE  FALSE
  BY <1>1, HandledSame DEF vars, SoundInv, AllHandled
<1>2. ASSUME NEW n \in Device, NEW m \in Device, Hear(n, m)
      PROVE  FALSE
  BY <1>2, HeardSound, BecomeSound DEF Hear, Handle, Become, Heard, Seen, SoundInv
<1> QED
  BY <1>1, <1>2, UserSound, HandleCapturedSound, TickSound, HandleMessageSound, EnvironmentSound
     DEF Next

\* What users and the network have spent stays counted.
LEMMA RestStep ==
  ASSUME SoundInv, [Next]_vars
  PROVE  cut' \in BOOLEAN /\ pushed' \subseteq Device /\ spent' \in [EnvironmentKind -> Nat]
<1>1. \A kinds : Spend(kinds) => spent' \in [EnvironmentKind -> Nat]
  BY DEF Spend, SoundInv
<1>2. CASE UNCHANGED vars
  BY <1>2 DEF vars, SoundInv
<1>3. ASSUME NEW n \in Device, User(n)
      PROVE  cut' = cut /\ pushed' \subseteq Device /\ spent' \in [EnvironmentKind -> Nat]
  BY <1>1, <1>3 DEF User, UserCrosses, UserTouches, UserMoves, UserPresses, Become, SoundInv
<1>4. ASSUME NEW n \in Device, HandleCaptured(n)
      PROVE  UNCHANGED <<cut, pushed, spent>>
  BY <1>4 DEF HandleCaptured, BeginReturns, BeginIgnored, BeginNobody, BeginLends,
       PointerPresses, PointerReturns, InputSent, InputIgnored, LocalInputTakesOver,
       LocalInputIgnored, Handle, Become
<1>5. ASSUME NEW n \in Device, Tick(n)
      PROVE  UNCHANGED <<cut, pushed, spent>>
  BY <1>5 DEF Tick, Handle, Become
<1>6. ASSUME NEW n \in Device, NEW m \in Device, Hear(n, m)
      PROVE  UNCHANGED <<cut, pushed, spent>>
  BY <1>6 DEF Hear, Handle, Become
<1>7. ASSUME NEW m \in Device, NEW n \in Device, NEW i, HandleMessage(m, n, i)
      PROVE  UNCHANGED <<cut, pushed>> /\ spent' \in [EnvironmentKind -> Nat]
  <2>1. Delivers(m, n, i) /\ \E s : Answer(m, n, i, s)
    BY <1>7 DEF HandleMessage, ProbeRefused, ProbeAnswered, ProbeAcknowledged, EnterRefused,
         EnterAccepted, EnterAcknowledged, LeaveHandled, InputRefused, InputDropped,
         PointerInjected, PointerLeaves, KeyInjected, IsInjected
  <2> QED
    BY <1>1, <2>1 DEF Delivers, Answer
<1>8. ASSUME Environment
      PROVE  cut' \in BOOLEAN /\ pushed' = pushed /\ spent' \in [EnvironmentKind -> Nat]
  BY <1>1, <1>8 DEF Environment, Miss, Unpair, Lose, Cut, Heal, Restart, Become, SoundInv
<1> QED
  BY <1>2, <1>3, <1>4, <1>5, <1>6, <1>7, <1>8 DEF Next, SoundInv

LEMMA SoundStep == SoundInv /\ [Next]_vars => SoundInv'
BY StepSound, RestStep DEF SoundInv

\* Every reachable state of every device is Sound.
THEOREM SoundAlways == Spec => []SoundInv
BY SoundInit, SoundStep, PTL DEF Spec

\* The variables of `run`, the event tap and the channels have their types.
THEOREM TypeCorrect == Spec => []TypeOK
<1>1. SoundInv => TypeOK
  BY DEF SoundInv, TypeOK
<1> QED
  BY <1>1, SoundAlways, PTL

\* A device never lends and borrows at once.
THEOREM LendsOrBorrows == Spec => []OneDirection
<1>1. SoundInv => OneDirection
  BY DEF SoundInv, Sound, OneDirection
<1> QED
  BY <1>1, SoundAlways, PTL

\* No key stays down once its session has ended.
THEOREM NoKeyStaysDown == Spec => []HeldOnlyWhileBorrowed
<1>1. SoundInv => HeldOnlyWhileBorrowed
  BY DEF SoundInv, Sound, HeldOnlyWhileBorrowed
<1> QED
  BY <1>1, SoundAlways, PTL

\* A borrowed device can be captured over its way back only.
THEOREM BorrowedHasOneWayBack == Spec => []OnlyWayBack
<1>1. SoundInv => OnlyWayBack
  BY DEF SoundInv, Sound, OnlyWayBack
<1> QED
  BY <1>1, SoundAlways, PTL

\* Whatever ends what a device lends gives its user the pointer back.
THEOREM EndsRelease == Spec => EndReleases
<1>1. SoundInv /\ [Next]_vars =>
        [\A n \in Device :
           dev[n].outgoing # None /\ dev'[n].outgoing = None => ~dev'[n].active]_vars
  BY StepSound
<1> QED
  BY <1>1, SoundAlways, PTL DEF Spec, EndReleases

----------------------------------------------------------------------------
(* While one user pushes *)

\* What a device says that is not pushed.
Reply == [kind : {"probeAck", "ack", "leave"}]

Begins(s) == {i \in DOMAIN s.events : s.events[i].kind = "begin"}
Says(queue, kind) == \E i \in DOMAIN queue : queue[i].kind = kind

\* All trust each other and have been heard of lately by whom they are in a
\* session with.
Fresh(n, s) ==
  /\ s.trusted = Device \ {n}
  /\ \A p \in Device : s.last_seen[p] # "late"
  /\ s.outgoing # None => s.outgoing.peer # n /\ s.last_seen[s.outgoing.peer] = "recent"
  /\ s.incoming # None => s.incoming.peer # n /\ s.last_seen[s.incoming.peer] = "recent"

\* A device nobody has pushed lends nothing and begins nothing.
Rests(s) ==
  /\ s.outgoing = None /\ ~s.active /\ Begins(s) = {}
  /\ s.outbound \in [Device -> Seq(Reply)]

\* The one that is pushed borrows nothing. It is captured as long as it lends,
\* or has one Begin to handle.
Pushes(s) ==
  /\ s.incoming = None /\ s.takeover = None
  /\ s.active <=> s.outgoing # None \/ Begins(s) # {}
  /\ s.outgoing # None => Begins(s) = {}
  /\ \A i, j \in Begins(s) : i = j

\* An Enter over e is on the way, and no Leave behind it.
EnterComes(queue, e) ==
  \E i \in DOMAIN queue :
    queue[i] = SayAt("enter", e) /\ \A j \in DOMAIN queue : j > i => queue[j].kind # "leave"

\* A peer that is entered is told so, has let the device in, or says Leave.
LendsTo(n, s, p, t) ==
  IsSendingTo(s, p) =>
    \/ Says(t.outbound[n], "leave")
    \/ EnterComes(s.outbound[p], Opposite[s.outgoing.edge])
    \/ /\ t.incoming = [peer |-> n, edge |-> Opposite[s.outgoing.edge]]
       /\ ~Says(s.outbound[p], "leave")
       /\ s.outgoing.ready \/ Says(t.outbound[n], "ack")

Solo ==
  /\ ~cut
  /\ \A n \in Device : Fresh(n, dev[n])
  /\ \A n \in Device : IF n \in pushed THEN Pushes(dev[n]) ELSE Rests(dev[n])
  /\ \A n, p \in Device : LendsTo(n, dev[n], p, dev[p])
  /\ pushed = {} => \A n \in Device : dev[n].incoming = None /\ dev[n].takeover = None

SoloInv == IsFiniteSet(pushed) /\ (Undisturbed => Solo)

----------------------------------------------------------------------------
(* What is on the way *)

LEMMA WithoutFirst ==
  ASSUME NEW S, NEW q \in Seq(S), 1 \in DOMAIN q
  PROVE  /\ Without(q, 1) = Tail(q) /\ q # <<>> /\ Head(q) = q[1] /\ Tail(q) \in Seq(S)
         /\ Len(q) \in Nat /\ Len(q) >= 1 /\ Len(Tail(q)) = Len(q) - 1
         /\ \A j \in 1..Len(q) - 1 : Tail(q)[j] = q[j + 1]
         /\ DOMAIN q = 1..Len(q) /\ DOMAIN Tail(q) = 1..Len(q) - 1
<1>1. Len(q) \in Nat /\ DOMAIN q = 1..Len(q) /\ Len(q) >= 1 /\ q # <<>>
  BY LenProperties, EmptySeq
<1>2. /\ Head(q) = q[1] /\ Tail(q) \in Seq(S) /\ Len(Tail(q)) = Len(q) - 1
      /\ \A j \in 1..Len(q) - 1 : Tail(q)[j] = q[j + 1]
  BY <1>1, HeadTailProperties
<1>3. DOMAIN Tail(q) = 1..Len(q) - 1
  BY <1>2, LenProperties
<1>4. /\ SubSeq(q, 1, 0) \in Seq(S) /\ Len(SubSeq(q, 1, 0)) = 0
      /\ SubSeq(q, 2, Len(q)) \in Seq(S) /\ Len(SubSeq(q, 2, Len(q))) = Len(q) - 1
      /\ \A j \in 1..Len(q) - 1 : SubSeq(q, 2, Len(q))[j] = q[j + 1]
  BY <1>1, SubSeqProperties
<1>5. SubSeq(q, 1, 0) = <<>>
  BY <1>4, EmptySeq
<1>6. Without(q, 1) = <<>> \o SubSeq(q, 2, Len(q))
  BY <1>5 DEF Without
<1>7. Without(q, 1) = SubSeq(q, 2, Len(q))
  BY <1>4, <1>6, ConcatEmptySeq
<1>8. SubSeq(q, 2, Len(q)) = Tail(q)
  BY <1>2, <1>4, SeqEqual
<1> QED
  BY <1>1, <1>2, <1>3, <1>7, <1>8

LEMMA TailSays ==
  ASSUME NEW S, NEW q \in Seq(S), 1 \in DOMAIN q
  PROVE  /\ \A kind : Says(q, kind) => q[1].kind = kind \/ Says(Tail(q), kind)
         /\ \A kind : Says(Tail(q), kind) => Says(q, kind)
         /\ \A e : EnterComes(q, e) =>
              \/ EnterComes(Tail(q), e)
              \/ q[1] = SayAt("enter", e) /\ ~Says(Tail(q), "leave")
<1>1. /\ Len(q) \in Nat /\ Len(q) >= 1 /\ \A j \in 1..Len(q) - 1 : Tail(q)[j] = q[j + 1]
      /\ DOMAIN q = 1..Len(q) /\ DOMAIN Tail(q) = 1..Len(q) - 1
  BY WithoutFirst
<1>2. \A i \in DOMAIN q : i = 1 \/ (i - 1 \in DOMAIN Tail(q) /\ Tail(q)[i - 1] = q[i])
  BY <1>1
<1>3. \A j \in DOMAIN Tail(q) : j + 1 \in DOMAIN q /\ q[j + 1] = Tail(q)[j] /\ j + 1 > 1
  BY <1>1
<1>4. ASSUME NEW e, EnterComes(q, e)
      PROVE  \/ EnterComes(Tail(q), e)
             \/ q[1] = SayAt("enter", e) /\ ~Says(Tail(q), "leave")
  <2>1. PICK i \in DOMAIN q :
          q[i] = SayAt("enter", e) /\ \A j \in DOMAIN q : j > i => q[j].kind # "leave"
    BY <1>4 DEF EnterComes
  <2>2. CASE i = 1
    BY <1>3, <2>1, <2>2 DEF Says
  <2>3. CASE i # 1
    <3>1. i - 1 \in DOMAIN Tail(q) /\ Tail(q)[i - 1] = SayAt("enter", e)
      BY <1>2, <2>1, <2>3
    <3>2. \A j \in DOMAIN Tail(q) : j > i - 1 => Tail(q)[j].kind # "leave"
      BY <1>1, <1>3, <2>1
    <3> QED
      BY <3>1, <3>2 DEF EnterComes
  <2> QED
    BY <2>2, <2>3
<1> QED
  BY <1>2, <1>3, <1>4 DEF Says

LEMMA AppendSays ==
  ASSUME NEW S, NEW q \in Seq(S), NEW x
  PROVE  /\ \A kind : Says(Append(q, x), kind) <=> Says(q, kind) \/ x.kind = kind
         /\ \A e : EnterComes(q, e) /\ x.kind # "leave" => EnterComes(Append(q, x), e)
         /\ \A e : x = SayAt("enter", e) => EnterComes(Append(q, x), e)
<1> DEFINE T == S \cup {x}
           r == Append(q, x)
<1>1. q \in Seq(T) /\ x \in T
  BY SeqMonotonic
<1> HIDE DEF T
<1>2. /\ Len(q) \in Nat /\ DOMAIN q = 1..Len(q) /\ DOMAIN r = 1..Len(q) + 1
      /\ \A i \in 1..Len(q) : r[i] = q[i]
      /\ r[Len(q) + 1] = x
  BY <1>1, AppendProperties, LenProperties
<1> HIDE DEF r
<1>3. \A kind : Says(r, kind) <=> Says(q, kind) \/ x.kind = kind
  BY <1>2 DEF Says
<1>4. ASSUME NEW e, EnterComes(q, e), x.kind # "leave"
      PROVE  EnterComes(r, e)
  <2>1. PICK i \in DOMAIN q :
          q[i] = SayAt("enter", e) /\ \A j \in DOMAIN q : j > i => q[j].kind # "leave"
    BY <1>4 DEF EnterComes
  <2>2. i \in DOMAIN r /\ r[i] = SayAt("enter", e)
    BY <1>2, <2>1
  <2>3. \A j \in DOMAIN r : j > i => r[j].kind # "leave"
    BY <1>2, <1>4, <2>1
  <2> QED
    BY <2>2, <2>3 DEF EnterComes
<1>5. ASSUME NEW e, x = SayAt("enter", e)
      PROVE  EnterComes(r, e)
  <2>1. Len(q) + 1 \in DOMAIN r /\ \A j \in DOMAIN r : ~(j > Len(q) + 1)
    BY <1>2
  <2> QED
    BY <1>2, <1>5, <2>1 DEF EnterComes
<1> QED
  BY <1>3, <1>4, <1>5 DEF r

LEMMA SendSays ==
  ASSUME NEW s, Sound(s), NEW p \in Device, NEW message
  PROVE  /\ send(s, p, message).outbound[p] = Append(s.outbound[p], message)
         /\ \A q \in Device : q # p => send(s, p, message).outbound[q] = s.outbound[q]
         /\ \A q \in Device : \A kind :
              Says(send(s, p, message).outbound[q], kind) <=>
                Says(s.outbound[q], kind) \/ (q = p /\ message.kind = kind)
<1>1. s.outbound \in [Device -> Seq(Message)] /\ s \in State
  BY DEF Sound, State
<1>2. s.outbound[p] \in Seq(Message)
  BY <1>1
<1> DEFINE all == [s.outbound EXCEPT ![p] = Append(@, message)]
<1>3. /\ all[p] = Append(s.outbound[p], message)
      /\ \A q \in Device : q # p => all[q] = s.outbound[q]
  BY <1>1
<1>4. send(s, p, message) = [s EXCEPT !.outbound = all]
  BY DEF send
<1> HIDE DEF all
<1>5. [s EXCEPT !.outbound = all].outbound = all
  BY <1>1 DEF State
<1>6. send(s, p, message).outbound = all
  BY <1>4, <1>5
<1>7. \A kind : Says(all[p], kind) <=> Says(s.outbound[p], kind) \/ message.kind = kind
  BY <1>2, <1>3, AppendSays
<1> QED
  BY <1>3, <1>4, <1>6, <1>7

LEMMA SendKeeps ==
  ASSUME NEW s, Sound(s), NEW p \in Device, NEW message
  PROVE  LET t == send(s, p, message) IN
         /\ t.outgoing = s.outgoing /\ t.incoming = s.incoming /\ t.takeover = s.takeover
         /\ t.trusted = s.trusted /\ t.active = s.active /\ t.events = s.events
         /\ t.last_seen = s.last_seen /\ t.preview = s.preview
         /\ t.portal_edges = s.portal_edges
BY DEF send, Sound, State

----------------------------------------------------------------------------
(* What a step leaves as it is *)

\* But for its screen, its peers' edges and what it has heard.
Same(s, t) ==
  /\ t.outgoing = s.outgoing /\ t.incoming = s.incoming /\ t.takeover = s.takeover
  /\ t.trusted = s.trusted /\ t.active = s.active /\ t.events = s.events
  /\ t.outbound = s.outbound

\* Who is heard of is heard of lately.
HeardMore(s, t) ==
  \A p \in Device : t.last_seen[p] = s.last_seen[p] \/ t.last_seen[p] = "recent"

LEMMA SameKeeps ==
  ASSUME NEW n \in Device, NEW s, NEW t, Sound(s), Same(s, t), HeardMore(s, t)
  PROVE  /\ Fresh(n, s) => Fresh(n, t)
         /\ Rests(s) => Rests(t)
         /\ Pushes(s) => Pushes(t)
<1>1. s.outgoing # None => s.outgoing.peer \in Device
  BY SessionTypes
<1>2. s.incoming # None => s.incoming.peer \in Device
  BY SessionTypes
<1>3. Fresh(n, s) => Fresh(n, t)
  BY <1>1, <1>2 DEF Same, HeardMore, Fresh
<1>4. Begins(t) = Begins(s)
  BY DEF Same, Begins
<1> QED
  BY <1>3, <1>4 DEF Same, Rests, Pushes

LEMMA HeardSame ==
  ASSUME NEW s, Sound(s), NEW p \in Device
  PROVE  /\ Same(s, [s EXCEPT !.last_seen[p] = "recent"])
         /\ HeardMore(s, [s EXCEPT !.last_seen[p] = "recent"])
         /\ [s EXCEPT !.last_seen[p] = "recent"].last_seen[p] = "recent"
         /\ Sound([s EXCEPT !.last_seen[p] = "recent"])
BY HeardSound DEF Sound, State, Same, HeardMore, Handled, Seen

LEMMA TickEdgesSame ==
  ASSUME NEW s, Sound(s)
  PROVE  Same(s, TickEdges(s)) /\ TickEdges(s).last_seen = s.last_seen
BY DEF TickEdges, Sound, State, Same

LEMMA TickPreviewSame ==
  ASSUME NEW s, Sound(s), NEW old
  PROVE  Same(s, TickPreview(s, old)) /\ TickPreview(s, old).last_seen = s.last_seen
BY DEF TickPreview, Sound, State, Same

LEMMA TickTrustSame ==
  ASSUME NEW n \in Device, NEW s, Sound(s), Fresh(n, s)
  PROVE  Same(s, TickTrust(s)) /\ TickTrust(s).last_seen = s.last_seen
<1>1. /\ s.outgoing # None => s.outgoing.peer \in s.trusted
      /\ s.incoming # None => s.incoming.peer \in s.trusted
  BY SessionTypes DEF Fresh
<1> DEFINE portals == [p \in Device |-> IF p \in s.trusted THEN s.portal_edges[p] ELSE {}]
<1>2. TickTrust(s) = [s EXCEPT !.portal_edges = portals]
  BY <1>1 DEF TickTrust
<1> HIDE DEF portals
<1> QED
  BY <1>2 DEF Sound, State, Same

LEMMA TickTimeoutsSame ==
  ASSUME NEW n \in Device, NEW s, Sound(s), Fresh(n, s)
  PROVE  TickTimeouts(s) = s
<1>1. /\ s.outgoing # None => ~peer_timed_out(s, s.outgoing.peer)
      /\ s.incoming # None => ~peer_timed_out(s, s.incoming.peer)
  BY DEF Fresh, peer_timed_out
<1> QED
  BY <1>1 DEF TickTimeouts

LEMMA SameTwice ==
  ASSUME NEW s, NEW t, NEW u, Same(s, t), Same(t, u)
  PROVE  Same(s, u)
BY DEF Same

----------------------------------------------------------------------------
(* A device that rests *)

Resting(n, s) == Sound(s) /\ Fresh(n, s) /\ Rests(s)

\* What it does by itself: it says something, and ends what it borrows with a
\* Leave.
RestsOn(s, t) ==
  /\ \A p \in Device : \A kind : Says(s.outbound[p], kind) => Says(t.outbound[p], kind)
  /\ \/ t.incoming = s.incoming
     \/ /\ s.incoming # None /\ t.incoming = None
        /\ Says(t.outbound[s.incoming.peer], "leave")
  /\ s.incoming = None /\ s.takeover = None => t.takeover = None

LEMMA RestsOnTwice ==
  ASSUME NEW s, NEW t, NEW u, Sound(s), RestsOn(s, t), RestsOn(t, u)
  PROVE  RestsOn(s, u)
<1>1. s.incoming # None => s.incoming.peer \in Device
  BY SessionTypes
<1> QED
  BY <1>1 DEF RestsOn

LEMMA SameRests ==
  ASSUME NEW n \in Device, NEW s, NEW t, Resting(n, s), Sound(t), Same(s, t), HeardMore(s, t)
  PROVE  Resting(n, t) /\ RestsOn(s, t)
<1>1. Fresh(n, t) /\ Rests(t)
  BY SameKeeps DEF Resting
<1> QED
  BY <1>1 DEF Resting, Same, RestsOn

LEMMA RestsSays ==
  ASSUME NEW n \in Device, NEW s, Resting(n, s), NEW p \in Device,
         NEW kind \in {"probeAck", "ack", "leave"}
  PROVE  LET t == send(s, p, Say(kind)) IN
         /\ Resting(n, t) /\ RestsOn(s, t) /\ Says(t.outbound[p], kind)
         /\ t.incoming = s.incoming
<1> DEFINE t == send(s, p, Say(kind))
<1>1. Sound(s) /\ Say(kind) \in Message /\ Say(kind) \in Reply /\ Say(kind).kind = kind
  BY SaySends DEF Resting, Say, Reply
<1>2. Sound(t)
  BY <1>1, SendSound DEF Handled
<1>6. /\ t.outgoing = s.outgoing /\ t.incoming = s.incoming /\ t.takeover = s.takeover
      /\ t.trusted = s.trusted /\ t.active = s.active /\ t.events = s.events
      /\ t.last_seen = s.last_seen
  BY <1>1, SendKeeps
<1>4. /\ t.outbound[p] = Append(s.outbound[p], Say(kind))
      /\ \A q \in Device : q # p => t.outbound[q] = s.outbound[q]
  <2>1. t.outbound[p] = Append(s.outbound[p], Say(kind))
    BY <1>1, SendSays
  <2>2. \A q \in Device : q # p => t.outbound[q] = s.outbound[q]
    BY <1>1, SendSays
  <2> QED
    BY <2>1, <2>2
<1>5. \A q \in Device : \A k :
        Says(t.outbound[q], k) <=> Says(s.outbound[q], k) \/ (q = p /\ Say(kind).kind = k)
  BY <1>1, SendSays, Zenon
<1> HIDE DEF t
<1>7. t.outbound \in [Device -> Seq(Reply)]
  <2>1. \A q \in Device : s.outbound[q] \in Seq(Reply)
    BY DEF Resting, Rests
  <2>2. t.outbound[p] \in Seq(Reply)
    BY <1>1, <1>4, <2>1, AppendProperties
  <2>3. \A q \in Device : t.outbound[q] \in Seq(Reply)
    BY <1>4, <2>1, <2>2
  <2>4. t.outbound \in [Device -> Seq(Message)]
    BY <1>2 DEF Sound, State
  <2> QED
    BY <2>3, <2>4
<1>8. Fresh(n, t)
  BY <1>6 DEF Resting, Fresh
<1>9. Begins(t) = Begins(s)
  BY <1>6 DEF Begins
<1>10. Resting(n, t)
  BY <1>2, <1>6, <1>7, <1>8, <1>9 DEF Resting, Rests
<1>11. RestsOn(s, t)
  BY <1>5, <1>6 DEF RestsOn
<1>12. Says(t.outbound[p], kind) /\ t.incoming = s.incoming
  BY <1>1, <1>5, <1>6
<1> QED
  BY <1>10, <1>11, <1>12 DEF t

\* A session ends: only that it was.
LEMMA RestsStops ==
  ASSUME NEW n \in Device, NEW s, Resting(n, s)
  PROVE  LET t == StopBorrowing(s) IN
         /\ Resting(n, t) /\ t.incoming = None /\ t.outbound = s.outbound
         /\ t.takeover = s.takeover
<1> DEFINE t == StopBorrowing(s)
<1>1. Sound(s) /\ Sound(t)
  BY StopBorrowingSound DEF Resting, Handled
<1>2. /\ t.outgoing = s.outgoing /\ t.incoming = None /\ t.takeover = s.takeover
      /\ t.trusted = s.trusted /\ t.active = s.active /\ t.events = s.events
      /\ t.last_seen = s.last_seen /\ t.outbound = s.outbound
  BY <1>1 DEF StopBorrowing, allow_all_edges, end, Sound, State
<1> HIDE DEF t
<1>3. Fresh(n, t)
  BY <1>2 DEF Resting, Fresh
<1>4. Begins(t) = Begins(s)
  BY <1>2 DEF Begins
<1> QED
  BY <1>1, <1>2, <1>3, <1>4 DEF Resting, Rests, t

\* The end of a session, said to the peer.
LEMMA RestsLeaves ==
  ASSUME NEW n \in Device, NEW s, Resting(n, s), s.incoming # None
  PROVE  LET t == send(StopBorrowing(s), s.incoming.peer, Say("leave")) IN
         Resting(n, t) /\ RestsOn(s, t)
<1> DEFINE u == StopBorrowing(s)
           t == send(u, s.incoming.peer, Say("leave"))
<1>1. s.incoming.peer \in Device
  BY SessionTypes DEF Resting
<1>2. /\ Resting(n, u) /\ u.incoming = None /\ u.outbound = s.outbound
  BY RestsStops
<1> HIDE DEF u
<1>3. /\ Resting(n, t) /\ RestsOn(u, t) /\ Says(t.outbound[s.incoming.peer], "leave")
      /\ t.incoming = u.incoming
  BY <1>1, <1>2, RestsSays
<1> QED
  BY <1>2, <1>3 DEF RestsOn, u

LEMMA RestsTakesOver ==
  ASSUME NEW n \in Device, NEW s, Resting(n, s), s.incoming # None
  PROVE  LET t == TakeOver(release(StopBorrowing(s)), s.incoming.peer) IN
         Resting(n, t) /\ RestsOn(s, t)
<1> DEFINE p == s.incoming.peer
           u == StopBorrowing(s)
           r == release(u)
           v == [r EXCEPT !.takeover = [peer |-> p, left |-> Repeats]]
           t == send(v, p, Say("leave"))
<1>1. p \in Device
  BY SessionTypes DEF Resting
<1>2. Resting(n, u) /\ u.incoming = None /\ u.outbound = s.outbound
  BY RestsStops
<1>3. Sound(r)
  BY <1>2, ReleaseSound DEF Resting, Handled
<1> HIDE DEF u
<1>4. Same(u, r) /\ r.last_seen = u.last_seen
  BY <1>2 DEF release, Same, Resting, Rests, Sound, State
<1>5. Resting(n, r) /\ r.incoming = None /\ r.outbound = s.outbound
  BY <1>2, <1>3, <1>4, SameRests DEF HeardMore, Same
<1> HIDE DEF r, p
<1>6. /\ v.outgoing = r.outgoing /\ v.incoming = r.incoming /\ v.outbound = r.outbound
      /\ v.trusted = r.trusted /\ v.active = r.active /\ v.events = r.events
      /\ v.last_seen = r.last_seen
  BY <1>3 DEF Sound, State
<1>7. v \in State
  <2>1. [peer |-> p, left |-> Repeats] \in [peer : Device, left : 0..Repeats]
    BY <1>1, RepeatsAssumption
  <2> QED
    BY <1>3, <2>1 DEF Sound, State
<1>8. Sound(v)
  BY <1>3, <1>5, <1>6, <1>7 DEF Sound, State
<1> HIDE DEF v
<1>9. Fresh(n, v) /\ Begins(v) = Begins(r)
  BY <1>5, <1>6 DEF Resting, Fresh, Begins
<1>10. Resting(n, v)
  BY <1>5, <1>6, <1>8, <1>9 DEF Resting, Rests
<1>11. /\ Resting(n, t) /\ RestsOn(v, t) /\ Says(t.outbound[p], "leave")
       /\ t.incoming = v.incoming
  BY <1>1, <1>10, RestsSays
<1>12. RestsOn(s, t)
  BY <1>5, <1>6, <1>11 DEF RestsOn, p
<1> QED
  BY <1>11, <1>12 DEF TakeOver, send_force_leave, p, u, r, v

LEMMA RestsTickTakeover ==
  ASSUME NEW n \in Device, NEW s, Resting(n, s), NEW again
  PROVE  Resting(n, TickTakeover(s, again)) /\ RestsOn(s, TickTakeover(s, again))
<1>1. CASE TickTakeover(s, again) = s
  BY <1>1, SameRests DEF Resting, Same, HeardMore
<1>2. CASE s.takeover # None /\ TickTakeover(s, again) # s
  <2>1. Sound(s) /\ Sound(TickTakeover(s, again))
    BY TickTakeoverSound DEF Resting, Handled
  <2>2. CASE s.takeover.left = 0
    <3> DEFINE t == TickTakeover(s, again)
    <3>1. t = [s EXCEPT !.takeover = None]
      BY <1>2, <2>2 DEF TickTakeover
    <3>2. /\ t.outgoing = s.outgoing /\ t.incoming = s.incoming /\ t.outbound = s.outbound
          /\ t.trusted = s.trusted /\ t.active = s.active /\ t.events = s.events
          /\ t.last_seen = s.last_seen /\ t.takeover = None
      BY <2>1, <3>1 DEF Sound, State
    <3> HIDE DEF t
    <3>3. Fresh(n, t) /\ Begins(t) = Begins(s)
      BY <3>2 DEF Resting, Fresh, Begins
    <3> QED
      BY <2>1, <3>2, <3>3 DEF Resting, Rests, RestsOn, t
  <2>3. CASE s.takeover.left # 0
    <3> DEFINE left == [s.takeover EXCEPT !.left = @ - 1]
               u == [s EXCEPT !.takeover = left]
               p == s.takeover.peer
    <3>1. TickTakeover(s, again) = send(u, p, Say("leave"))
      BY <1>2, <2>3 DEF TickTakeover, send_force_leave
    <3>2. s.takeover \in [peer : Device, left : 0..Repeats]
      BY <1>2, <2>1 DEF Sound, State
    <3>3. left \in [peer : Device, left : 0..Repeats] /\ p \in Device
      BY <2>3, <3>2, RepeatsAssumption
    <3> HIDE DEF left, p
    <3>4. u \in State
      BY <2>1, <3>3 DEF Sound, State
    <3>5. /\ u.outgoing = s.outgoing /\ u.incoming = s.incoming /\ u.outbound = s.outbound
          /\ u.trusted = s.trusted /\ u.active = s.active /\ u.events = s.events
          /\ u.last_seen = s.last_seen
      BY <2>1 DEF Sound, State
    <3>6. Sound(u)
      BY <2>1, <3>4 DEF Sound, State
    <3> HIDE DEF u
    <3>7. Fresh(n, u) /\ Begins(u) = Begins(s)
      BY <3>5 DEF Resting, Fresh, Begins
    <3>8. Resting(n, u)
      BY <3>5, <3>6, <3>7 DEF Resting, Rests
    <3>9. Resting(n, send(u, p, Say("leave"))) /\ RestsOn(u, send(u, p, Say("leave")))
          /\ send(u, p, Say("leave")).incoming = u.incoming
      BY <3>3, <3>8, RestsSays
    <3> QED
      BY <1>2, <3>1, <3>5, <3>9 DEF RestsOn
  <2> QED
    BY <2>2, <2>3
<1> QED
  BY <1>1, <1>2 DEF TickTakeover

\* The Begins in the queue of captured events, when one is handled and when one
\* more is caught.
LEMMA BeginsTaken ==
  ASSUME NEW s, Sound(s), s.events # <<>>, NEW t, t.events = Tail(s.events)
  PROVE  /\ \A i \in Begins(t) : i + 1 \in Begins(s) /\ i \in Nat /\ i >= 1
         /\ Head(s.events).kind = "begin" <=> 1 \in Begins(s)
         /\ \A i \in Begins(s) : i = 1 \/ i - 1 \in Begins(t)
<1>1. s.events \in Seq(Captured)
  BY DEF Sound, State
<1>2. Len(s.events) \in Nat /\ Len(s.events) >= 1 /\ DOMAIN s.events = 1..Len(s.events)
  BY <1>1, LenProperties, EmptySeq
<1>3. /\ Head(s.events) = s.events[1] /\ Tail(s.events) \in Seq(Captured)
      /\ Len(Tail(s.events)) = Len(s.events) - 1
      /\ \A j \in 1..Len(s.events) - 1 : Tail(s.events)[j] = s.events[j + 1]
  BY <1>1, <1>2, HeadTailProperties
<1>4. DOMAIN t.events = 1..Len(s.events) - 1
  BY <1>3, LenProperties
<1> QED
  BY <1>2, <1>3, <1>4 DEF Begins

LEMMA BeginsCaught ==
  ASSUME NEW s, Sound(s), NEW event \in Captured, NEW t, t.events = Append(s.events, event)
  PROVE  /\ event.kind # "begin" => Begins(t) = Begins(s)
         /\ event.kind = "begin" => Begins(t) = Begins(s) \cup {Len(s.events) + 1}
<1>1. s.events \in Seq(Captured)
  BY DEF Sound, State
<1>2. /\ Len(s.events) \in Nat /\ DOMAIN s.events = 1..Len(s.events)
      /\ DOMAIN t.events = 1..Len(s.events) + 1
      /\ \A j \in 1..Len(s.events) : t.events[j] = s.events[j]
      /\ t.events[Len(s.events) + 1] = event
  BY <1>1, AppendProperties, LenProperties
<1>3. \A j \in DOMAIN t.events : j \in DOMAIN s.events \/ j = Len(s.events) + 1
  BY <1>2
<1>4. \A j \in DOMAIN s.events : j \in DOMAIN t.events /\ t.events[j] = s.events[j]
  BY <1>2
<1>5. Len(s.events) + 1 \in DOMAIN t.events
  BY <1>2
<1> QED
  BY <1>2, <1>3, <1>4, <1>5 DEF Begins

LEMMA TakenKeeps ==
  ASSUME SoundInv, NEW n \in Device, dev[n].events # <<>>
  PROVE  LET s == dev[n]
             t == Taken(n) IN
         /\ Sound(t) /\ t.events = Tail(s.events)
         /\ t.outgoing = s.outgoing /\ t.incoming = s.incoming /\ t.takeover = s.takeover
         /\ t.trusted = s.trusted /\ t.active = s.active
         /\ t.outbound = s.outbound /\ t.last_seen = s.last_seen
<1>1. Sound(dev[n])
  BY DEF SoundInv
<1>2. Sound(Taken(n))
  BY <1>1, TakenSound DEF Taken, Handled
<1> QED
  BY <1>1, <1>2 DEF Taken, Sound, State

LEMMA TakenRests ==
  ASSUME SoundInv, NEW n \in Device, dev[n].events # <<>>, Resting(n, dev[n])
  PROVE  /\ Resting(n, Taken(n)) /\ RestsOn(dev[n], Taken(n))
         /\ Taken(n).incoming = dev[n].incoming
         /\ Head(dev[n].events).kind # "begin"
<1> DEFINE s == dev[n]
           t == Taken(n)
<1>1. /\ Sound(t) /\ t.events = Tail(s.events)
      /\ t.outgoing = s.outgoing /\ t.incoming = s.incoming /\ t.takeover = s.takeover
      /\ t.trusted = s.trusted /\ t.active = s.active
      /\ t.outbound = s.outbound /\ t.last_seen = s.last_seen
  BY TakenKeeps
<1>2. Begins(s) = {}
  BY DEF Resting, Rests
<1> HIDE DEF s, t
<1>3. Begins(t) = {} /\ Head(s.events).kind # "begin"
  BY <1>1, <1>2, BeginsTaken DEF Resting, s
<1>4. Fresh(n, t)
  BY <1>1 DEF Resting, Fresh, s
<1>5. Resting(n, t)
  BY <1>1, <1>3, <1>4 DEF Resting, Rests, s
<1> QED
  BY <1>1, <1>3, <1>5 DEF RestsOn, s, t

\* Each step of a device that has not been pushed, but a push.
OwnStep(n, s) == dev' = [dev EXCEPT ![n] = s]

LEMMA RestsHandles ==
  ASSUME SoundInv, NEW n \in Device, Resting(n, dev[n]), HandleCaptured(n)
  PROVE  \E t : OwnStep(n, t) /\ Resting(n, t) /\ RestsOn(dev[n], t)
<1>1. dev[n].events # <<>>
  BY DEF HandleCaptured, BeginReturns, BeginIgnored, BeginNobody, BeginLends,
         PointerPresses, PointerReturns, InputSent, InputIgnored,
         LocalInputTakesOver, LocalInputIgnored, NextIs
<1>2. /\ Resting(n, Taken(n)) /\ RestsOn(dev[n], Taken(n))
      /\ Taken(n).incoming = dev[n].incoming
      /\ Head(dev[n].events).kind # "begin"
  BY <1>1, TakenRests
<1>3. dev[n].outgoing = None /\ Sound(dev[n])
  BY DEF Resting, Rests
<1>4. CASE InputIgnored(n) \/ LocalInputIgnored(n)
  <2>1. OwnStep(n, Taken(n))
    BY <1>4 DEF InputIgnored, LocalInputIgnored, Handle, Become, OwnStep
  <2> QED
    BY <1>2, <2>1
<1>5. CASE LocalInputTakesOver(n)
  <2> DEFINE t == TakeOver(release(StopBorrowing(Taken(n))), dev[n].incoming.peer)
  <2>1. OwnStep(n, t) /\ Taken(n).incoming # None
    BY <1>2, <1>5 DEF LocalInputTakesOver, Handle, Become, OwnStep
  <2>2. Resting(n, t) /\ RestsOn(Taken(n), t)
    BY <1>2, <2>1, RestsTakesOver
  <2>3. RestsOn(dev[n], t)
    BY <1>2, <1>3, <2>2, RestsOnTwice
  <2> QED
    BY <2>1, <2>2, <2>3
<1>6. ~(BeginReturns(n) \/ BeginIgnored(n) \/ BeginNobody(n) \/ \E p \in Device : BeginLends(n, p))
  BY <1>2 DEF BeginReturns, BeginIgnored, BeginNobody, BeginLends, NextIs
<1>7. ~(PointerPresses(n) \/ PointerReturns(n) \/ InputSent(n))
  BY <1>3 DEF PointerPresses, PointerReturns, InputSent, IsProbing, IsReady
<1> QED
  BY <1>4, <1>5, <1>6, <1>7 DEF HandleCaptured

LEMMA RestsTicks ==
  ASSUME SoundInv, NEW n \in Device, Resting(n, dev[n]), Tick(n)
  PROVE  \E t : OwnStep(n, t) /\ Resting(n, t) /\ RestsOn(dev[n], t)
<1>1. PICK gap \in If(IsProbing(dev[n])), held \in If(IsProbing(dev[n])),
           old \in If(dev[n].preview # None), again \in If(dev[n].takeover # None) :
        Become(n, TickTimeouts(TickPreview(TickProbing(
                    TickTakeover(TickTrust(TickEdges(dev[n])), again), gap, held), old)))
  BY Zenon DEF Tick, Handle
<1> DEFINE s == dev[n]
           edges == TickEdges(s)
           trust == TickTrust(edges)
           now == TickTakeover(trust, again)
           probing == TickProbing(now, gap, held)
           preview == TickPreview(probing, old)
<1>2. Resting(n, edges) /\ RestsOn(s, edges)
  BY TickEdgesSame, TickEdgesSound, SameRests DEF Resting, HeardMore, Handled
<1> HIDE DEF edges
<1>3. Resting(n, trust) /\ RestsOn(edges, trust)
  BY <1>2, TickTrustSame, TickTrustSound, SameRests DEF Resting, HeardMore, Handled
<1> HIDE DEF trust
<1>4. Resting(n, now) /\ RestsOn(trust, now)
  BY <1>3, RestsTickTakeover
<1> HIDE DEF now
<1>5. probing = now
  BY <1>4 DEF TickProbing, IsProbing, Resting, Rests
<1> HIDE DEF probing
<1>6. Resting(n, preview) /\ RestsOn(now, preview)
  BY <1>4, <1>5, TickPreviewSame, TickPreviewSound, SameRests DEF Resting, HeardMore, Handled
<1> HIDE DEF preview
<1>7. TickTimeouts(preview) = preview
  BY <1>6, TickTimeoutsSame DEF Resting
<1>8. RestsOn(s, preview)
  BY <1>2, <1>3, <1>4, <1>6, RestsOnTwice DEF Resting
<1>9. OwnStep(n, preview)
  BY <1>1, <1>7 DEF Become, OwnStep, preview, probing, now, trust, edges
<1> QED
  BY <1>6, <1>8, <1>9

LEMMA RestsTouched ==
  ASSUME SoundInv, NEW n \in Device, Resting(n, dev[n]), UserTouches(n)
  PROVE  \E t : OwnStep(n, t) /\ Resting(n, t) /\ RestsOn(dev[n], t)
<1> DEFINE s == dev[n]
           t == Catch(s, Say("localInput"))
<1>1. Say("localInput") \in Captured /\ Say("localInput").kind # "begin"
  BY DEF Say, Captured
<1>2. Sound(s) /\ Sound(t)
  BY <1>1, CatchSound DEF Resting, Handled
<1>3. /\ t.events = Append(s.events, Say("localInput"))
      /\ t.outgoing = s.outgoing /\ t.incoming = s.incoming /\ t.takeover = s.takeover
      /\ t.trusted = s.trusted /\ t.active = s.active
      /\ t.outbound = s.outbound /\ t.last_seen = s.last_seen
  BY <1>2 DEF Catch, Sound, State
<1>4. OwnStep(n, t)
  BY DEF UserTouches, Become, OwnStep
<1> HIDE DEF t, s
<1>5. Begins(t) = Begins(s)
  BY <1>1, <1>2, <1>3, BeginsCaught
<1>6. Fresh(n, t)
  BY <1>3 DEF Resting, Fresh, s
<1>7. Resting(n, t)
  BY <1>2, <1>3, <1>5, <1>6 DEF Resting, Rests, s
<1>8. RestsOn(s, t)
  BY <1>3 DEF RestsOn
<1> QED
  BY <1>4, <1>7, <1>8 DEF s

LEMMA RestsHears ==
  ASSUME SoundInv, NEW n \in Device, NEW m \in Device, Resting(n, dev[n]), Hear(n, m)
  PROVE  \E t : OwnStep(n, t) /\ Resting(n, t) /\ RestsOn(dev[n], t)
<1>1. OwnStep(n, Heard(n, m))
  BY DEF Hear, Handle, Become, OwnStep
<1>2. Resting(n, Heard(n, m)) /\ RestsOn(dev[n], Heard(n, m))
  BY HeardSame, SameRests DEF Resting, Heard
<1> QED
  BY <1>1, <1>2

\* What a device that has not been pushed makes of a message x of m.
RestsAnswers(m, s, t, x) ==
  /\ \A p \in Device : \A kind : Says(s.outbound[p], kind) => Says(t.outbound[p], kind)
  /\ t.takeover = s.takeover
  /\ \/ t.incoming = s.incoming
     \/ /\ s.incoming # None /\ t.incoming = None
        /\ \/ Says(t.outbound[s.incoming.peer], "leave")
           \/ x.kind = "leave" /\ s.incoming.peer = m
     \/ s.incoming = None /\ x.kind = "enter"
  /\ x.kind = "enter" =>
       \/ Says(t.outbound[m], "leave")
       \/ t.incoming = [peer |-> m, edge |-> x.edge] /\ Says(t.outbound[m], "ack")

LEMMA EnteredRests ==
  ASSUME NEW n \in Device, NEW s, Resting(n, s), s.incoming = None,
         NEW m \in Device \ {n}, NEW e \in Edge, s.last_seen[m] = "recent"
  PROVE  LET t == Entered(s, m, e) IN
         /\ Resting(n, t) /\ t.incoming = [peer |-> m, edge |-> e]
         /\ t.takeover = s.takeover /\ t.outbound = s.outbound
<1> DEFINE t == Entered(s, m, e)
           shown == [s EXCEPT !.preview = None]
           portal == [peer |-> m, edge |-> e]
           u == [shown EXCEPT !.allowed_edges = {e}, !.incoming = portal]
<1>1. Sound(s) /\ Sound(t) /\ s.outgoing = None
  BY EnteredSound DEF Resting, Rests, Handled
<1>2. shown.outgoing = None
  BY <1>1 DEF Sound, State
<1>3. t = remember(u, m, e)
  BY <1>2 DEF Entered, Yield
<1>4. /\ t.outgoing = s.outgoing /\ t.incoming = portal /\ t.takeover = s.takeover
      /\ t.trusted = s.trusted /\ t.active = s.active /\ t.events = s.events
      /\ t.outbound = s.outbound /\ t.last_seen = s.last_seen
  <2> HIDE DEF portal
  <2> QED
    BY <1>1, <1>3 DEF remember, Sound, State
<1> HIDE DEF t
<1>5. portal.peer = m
  OBVIOUS
<1> HIDE DEF portal
<1>6. Fresh(n, t)
  BY <1>1, <1>4, <1>5 DEF Resting, Fresh
<1>7. Begins(t) = Begins(s)
  BY <1>4 DEF Begins
<1>8. Resting(n, t)
  BY <1>1, <1>4, <1>6, <1>7 DEF Resting, Rests
<1> QED
  BY <1>4, <1>8 DEF t, portal

LEMMA RestsHandlesMessage ==
  ASSUME SoundInv, NEW m \in Device, NEW n \in Device, m # n, Resting(n, dev[n]),
         NEW i, HandleMessage(m, n, i)
  PROVE  \E t : /\ Answer(m, n, i, t) /\ Resting(n, t)
                /\ RestsAnswers(m, dev[n], t, dev[m].outbound[n][i])
<1> DEFINE s == dev[n]
           h == Heard(n, m)
           x == dev[m].outbound[n][i]
<1>1. Delivers(m, n, i)
  BY DEF HandleMessage, ProbeRefused, ProbeAnswered, ProbeAcknowledged, EnterRefused,
         EnterAccepted, EnterAcknowledged, LeaveHandled, InputRefused, InputDropped,
         PointerInjected, PointerLeaves, KeyInjected, IsInjected
<1>2. x \in Message
  BY <1>1, ElementOfSeq DEF SoundInv, State, Delivers
<1>3. x.kind \in {"probe", "enter"} => x.edge \in Edge
  BY <1>2 DEF Message
<1>4. /\ Resting(n, h) /\ Same(s, h) /\ h.last_seen[m] = "recent"
  <2>1. Sound(s)
    BY DEF Resting
  <2>2. Same(s, h) /\ HeardMore(s, h) /\ h.last_seen[m] = "recent" /\ Sound(h)
    BY <2>1, HeardSame DEF Heard
  <2> HIDE DEF h, s
  <2> QED
    BY <2>2, SameRests DEF s
<1> HIDE DEF h, s, x
<1>5. s.outgoing = None /\ h.outgoing = None
  BY <1>4 DEF Resting, Rests, Same
<1>6. /\ h.incoming = s.incoming /\ h.takeover = s.takeover /\ h.outbound = s.outbound
  BY <1>4 DEF Same
<1>7. SUFFICES \E t : Answer(m, n, i, t) /\ Resting(n, t) /\ RestsAnswers(m, h, t, x)
  BY <1>6 DEF RestsAnswers, s, x
<1>8. CASE ProbeRefused(m, n, i) \/ EnterRefused(m, n, i) \/ InputRefused(m, n, i)
  <2> DEFINE t == send(h, m, Say("leave"))
  <2>1. Answer(m, n, i, t)
    BY <1>8 DEF ProbeRefused, EnterRefused, InputRefused, send_force_leave, h
  <2>2. /\ Resting(n, t) /\ RestsOn(h, t) /\ Says(t.outbound[m], "leave") /\ t.incoming = h.incoming
        /\ t.takeover = h.takeover
    BY <1>4, RestsSays, SendKeeps DEF Resting
  <2>3. RestsAnswers(m, h, t, x)
    BY <2>2 DEF RestsAnswers, RestsOn
  <2> QED
    BY <2>1, <2>2, <2>3
<1>9. CASE \/ InputDropped(m, n, i) \/ PointerInjected(m, n, i)
           \/ ProbeAcknowledged(m, n, i) \/ EnterAcknowledged(m, n, i)
  <2>1. Answer(m, n, i, h)
    BY <1>5, <1>9 DEF InputDropped, PointerInjected, ProbeAcknowledged, EnterAcknowledged, h, s,
       IsProbing, IsSendingTo, IsPeer
  <2>2. x.kind # "enter"
    BY <1>9 DEF InputDropped, PointerInjected, ProbeAcknowledged, EnterAcknowledged, IsOf, x
  <2>3. RestsAnswers(m, h, h, x)
    BY <2>2 DEF RestsAnswers
  <2> QED
    BY <1>4, <2>1, <2>3
<1>10. CASE ProbeAnswered(m, n, i)
  <2> DEFINE shown == IF portal_edge_confirmed(dev[n], m, EdgeOf(m, n, i)) THEN dev[n].preview
                      ELSE [peer |-> m, edge |-> EdgeOf(m, n, i)]
             u == [h EXCEPT !.preview = shown]
             t == send(u, m, Say("probeAck"))
  <2>1. x.kind = "probe" /\ EdgeOf(m, n, i) \in Edge
    BY <1>3, <1>10 DEF ProbeAnswered, IsOf, EdgeOf, x
  <2>2. shown \in Portal \cup {None}
    BY <2>1 DEF Portal, Sound, State, SoundInv
  <2>3. Answer(m, n, i, t)
    BY <1>10 DEF ProbeAnswered, h
  <2> HIDE DEF shown
  <2>4. Sound(h) /\ Sound(u)
    BY <1>4, <2>2, PreviewSound DEF Resting, Handled
  <2>5. Same(h, u) /\ HeardMore(h, u)
    BY <2>4 DEF Same, HeardMore, Sound, State
  <2> HIDE DEF u
  <2>6. Resting(n, u)
    BY <1>4, <2>4, <2>5, SameRests
  <2>7. /\ Resting(n, t) /\ RestsOn(u, t) /\ t.incoming = u.incoming /\ t.takeover = u.takeover
    BY <2>4, <2>6, RestsSays, SendKeeps
  <2>8. RestsAnswers(m, h, t, x)
    BY <2>1, <2>5, <2>7 DEF RestsAnswers, RestsOn, Same
  <2> QED
    BY <2>3, <2>7, <2>8
<1>11. CASE EnterAccepted(m, n, i)
  <2> DEFINE u == Entered(h, m, x.edge)
             t == send(u, m, Say("ack"))
  <2>1. x.kind = "enter" /\ h.incoming = None /\ x.edge \in Edge
    BY <1>3, <1>6, <1>11 DEF EnterAccepted, MayEnter, IsOf, x, s
  <2>2. Answer(m, n, i, t)
    BY <1>11 DEF EnterAccepted, EdgeOf, x, h
  <2>3. /\ Resting(n, u) /\ u.incoming = [peer |-> m, edge |-> x.edge]
        /\ u.takeover = h.takeover /\ u.outbound = h.outbound
    BY <1>4, <2>1, EnteredRests
  <2> HIDE DEF u
  <2>4. /\ Resting(n, t) /\ RestsOn(u, t) /\ t.incoming = u.incoming /\ t.takeover = u.takeover
        /\ Says(t.outbound[m], "ack")
    <3>1. Resting(n, u) /\ Sound(u)
      BY <2>3 DEF Resting
    <3>2. /\ Resting(n, t) /\ RestsOn(u, t) /\ Says(t.outbound[m], "ack")
          /\ t.incoming = u.incoming
      BY <3>1, RestsSays
    <3>3. t.takeover = u.takeover
      BY <3>1, SendKeeps
    <3> QED
      BY <3>2, <3>3
  <2>5. RestsAnswers(m, h, t, x)
    BY <2>1, <2>3, <2>4 DEF RestsAnswers, RestsOn
  <2> QED
    BY <2>2, <2>4, <2>5
<1>12. CASE LeaveHandled(m, n, i)
  <2>1. x.kind = "leave"
    BY <1>12 DEF LeaveHandled, IsOf, x
  <2>2. Answer(m, n, i, LeaveBorrowing(h, m))
    BY <1>5, <1>12 DEF LeaveHandled, LeaveLending, IsPeer, h
  <2>3. CASE ~IsPeer(h.incoming, m)
    <3>1. RestsAnswers(m, h, h, x)
      BY <2>1 DEF RestsAnswers
    <3> QED
      BY <1>4, <2>2, <2>3, <3>1 DEF LeaveBorrowing
  <2>4. CASE IsPeer(h.incoming, m)
    <3> DEFINE t == StopBorrowing(h)
    <3>1. /\ Resting(n, t) /\ t.incoming = None /\ t.outbound = h.outbound
          /\ t.takeover = h.takeover
      BY <1>4, RestsStops
    <3> HIDE DEF t
    <3>2. RestsAnswers(m, h, t, x)
      BY <2>1, <2>4, <3>1 DEF RestsAnswers, IsPeer
    <3> QED
      BY <2>2, <2>4, <3>1, <3>2 DEF LeaveBorrowing, t
  <2> QED
    BY <2>3, <2>4
<1>13. CASE PointerLeaves(m, n, i)
  <2> DEFINE u == StopBorrowing(h)
             t == send(u, m, Say("leave"))
  <2>1. x.kind = "pointer" /\ IsPeer(h.incoming, m)
    BY <1>6, <1>13 DEF PointerLeaves, IsInjected, IsOf, x, s
  <2>2. Answer(m, n, i, t)
    BY <1>13 DEF PointerLeaves, h
  <2>3. /\ Resting(n, u) /\ u.incoming = None /\ u.outbound = h.outbound
        /\ u.takeover = h.takeover
    BY <1>4, RestsStops
  <2> HIDE DEF u
  <2>4. /\ Resting(n, t) /\ RestsOn(u, t) /\ t.incoming = u.incoming /\ t.takeover = u.takeover
        /\ Says(t.outbound[m], "leave")
    BY <2>3, RestsSays, SendKeeps DEF Resting
  <2>5. RestsAnswers(m, h, t, x)
    BY <2>1, <2>3, <2>4 DEF RestsAnswers, RestsOn, IsPeer
  <2> QED
    BY <2>2, <2>4, <2>5
<1>14. CASE KeyInjected(m, n, i)
  <2> DEFINE t == apply_keyboard(h, x.key)
  <2>1. x.kind = "keyboard" /\ h.incoming # None
    BY <1>6, <1>14 DEF KeyInjected, IsInjected, IsPeer, IsOf, x, s
  <2>2. Answer(m, n, i, t)
    BY <1>14 DEF KeyInjected, h, x
  <2>3. Sound(h) /\ Sound(t)
    BY <1>4, <2>1, KeyboardSound DEF Resting, Handled
  <2>4. Same(h, t) /\ HeardMore(h, t)
    BY <2>3 DEF Same, HeardMore, apply_keyboard, Sound, State
  <2> HIDE DEF t
  <2>5. Resting(n, t)
    BY <1>4, <2>3, <2>4, SameRests
  <2>6. RestsAnswers(m, h, t, x)
    BY <2>1, <2>4 DEF RestsAnswers, Same
  <2> QED
    BY <2>2, <2>5, <2>6
<1> QED
  BY <1>8, <1>9, <1>10, <1>11, <1>12, <1>13, <1>14 DEF HandleMessage

----------------------------------------------------------------------------
(* The device that is pushed *)

Pushing(n, s) == Sound(s) /\ Fresh(n, s) /\ Pushes(s)

\* What it does by itself: it goes on sending, and says no Leave to whom it
\* sends, or it enters a peer.
PushesOn(s, t) ==
  \A p \in Device : IsSendingTo(t, p) =>
    \/ /\ t.outgoing = s.outgoing
       /\ \/ t.outbound[p] = s.outbound[p]
          \/ \E x : x.kind # "leave" /\ t.outbound[p] = Append(s.outbound[p], x)
    \/ t.outbound[p] = Append(s.outbound[p], SayAt("enter", Opposite[t.outgoing.edge]))

LEMMA SamePushes ==
  ASSUME NEW n \in Device, NEW s, NEW t, Pushing(n, s), Sound(t), Same(s, t), HeardMore(s, t)
  PROVE  Pushing(n, t) /\ PushesOn(s, t)
<1>1. Fresh(n, t) /\ Pushes(t)
  BY SameKeeps DEF Pushing
<1>2. PushesOn(s, t)
  BY DEF Same, PushesOn
<1> QED
  BY <1>1, <1>2 DEF Pushing

LEMMA PushesOnBetween ==
  ASSUME NEW s, NEW t, NEW u, NEW v, Same(s, t), PushesOn(t, u), Same(u, v)
  PROVE  PushesOn(s, v)
<1>1. /\ t.outgoing = s.outgoing /\ t.outbound = s.outbound
      /\ v.outgoing = u.outgoing /\ v.outbound = u.outbound
  BY DEF Same
<1>2. \A p : IsSendingTo(v, p) <=> IsSendingTo(u, p)
  BY <1>1 DEF IsSendingTo
<1> QED
  BY <1>1, <1>2 DEF PushesOn

LEMMA PushesSays ==
  ASSUME NEW n \in Device, NEW s, Pushing(n, s), NEW p \in Device, NEW message \in Message
  PROVE  LET t == send(s, p, message) IN
         /\ Pushing(n, t) /\ t.outgoing = s.outgoing
         /\ t.outbound[p] = Append(s.outbound[p], message)
         /\ \A q \in Device : q # p => t.outbound[q] = s.outbound[q]
<1> DEFINE t == send(s, p, message)
<1>1. Sound(s) /\ Sound(t)
  BY SendSound DEF Pushing, Handled
<1>2. /\ t.outgoing = s.outgoing /\ t.incoming = s.incoming /\ t.takeover = s.takeover
      /\ t.trusted = s.trusted /\ t.active = s.active /\ t.events = s.events
      /\ t.last_seen = s.last_seen
  BY <1>1, SendKeeps
<1>3. t.outbound[p] = Append(s.outbound[p], message)
  BY <1>1, SendSays
<1>4. \A q \in Device : q # p => t.outbound[q] = s.outbound[q]
  BY <1>1, SendSays
<1> HIDE DEF t
<1>5. Fresh(n, t)
  BY <1>2 DEF Pushing, Fresh
<1>6. Begins(t) = Begins(s)
  BY <1>2 DEF Begins
<1>7. Pushing(n, t)
  BY <1>1, <1>2, <1>5, <1>6 DEF Pushing, Pushes
<1> QED
  BY <1>2, <1>3, <1>4, <1>7 DEF t

\* It stops lending, and is not captured any more.
LEMMA PushesStops ==
  ASSUME NEW n \in Device, NEW s, Pushing(n, s), Begins(s) = {}
  PROVE  LET t == StopLending(s) IN
         Pushing(n, t) /\ t.outgoing = None /\ t.outbound = s.outbound /\ t.incoming = None
<1> DEFINE t == StopLending(s)
<1>1. Sound(s) /\ Sound(t)
  BY StopLendingSound DEF Pushing, Handled
<1>2. /\ t.outgoing = None /\ t.incoming = s.incoming /\ t.takeover = s.takeover
      /\ t.trusted = s.trusted /\ t.active = FALSE /\ t.events = s.events
      /\ t.last_seen = s.last_seen /\ t.outbound = s.outbound
  BY <1>1 DEF StopLending, release, Sound, State
<1> HIDE DEF t
<1>3. Fresh(n, t)
  BY <1>2 DEF Pushing, Fresh
<1>4. Begins(t) = {}
  BY <1>2 DEF Begins
<1>5. Pushing(n, t) /\ t.incoming = None
  BY <1>1, <1>2, <1>3, <1>4 DEF Pushing, Pushes
<1> QED
  BY <1>2, <1>5 DEF t

\* It begins to lend.
LEMMA PushesLends ==
  ASSUME NEW n \in Device, NEW s, Sound(s), Fresh(n, s), s.incoming = None, s.takeover = None,
         s.active, Begins(s) = {}, NEW p \in Device \ {n}, s.last_seen[p] = "recent",
         NEW session \in Probing \cup Sending, session.peer = p
  PROVE  Pushing(n, [s EXCEPT !.outgoing = session])
<1> DEFINE t == [s EXCEPT !.outgoing = session]
<1>1. Sound(t)
  BY OutgoingSound DEF Handled
<1>2. /\ t.outgoing = session /\ t.incoming = None /\ t.takeover = None
      /\ t.trusted = s.trusted /\ t.active /\ t.events = s.events
      /\ t.last_seen = s.last_seen
  BY DEF Sound, State
<1> HIDE DEF t
<1>3. Fresh(n, t)
  BY <1>2 DEF Fresh
<1>4. Begins(t) = {}
  BY <1>2 DEF Begins
<1>5. session # None
  BY NoneAssumption
<1>6. Pushes(t)
  BY <1>2, <1>4, <1>5 DEF Pushes
<1> QED
  BY <1>1, <1>3, <1>6 DEF Pushing, t

LEMMA PushesEnters ==
  ASSUME NEW n \in Device, NEW s, Sound(s), Fresh(n, s), s.incoming = None, s.takeover = None,
         s.active, Begins(s) = {}, NEW p \in Device \ {n}, s.last_seen[p] = "recent",
         NEW e \in Edge
  PROVE  Pushing(n, Enters(s, p, e)) /\ PushesOn(s, Enters(s, p, e))
<1> DEFINE session == [kind |-> "sending", peer |-> p, edge |-> e, ready |-> FALSE]
           t == [s EXCEPT !.outgoing = session]
           u == send(t, p, SayAt("enter", Opposite[e]))
<1>1. session \in Sending /\ session.peer = p /\ session.edge = e
  BY DEF Sending
<1>2. SayAt("enter", Opposite[e]) \in Message
  BY EdgeAssumption, SaySends
<1> HIDE DEF session
<1>3. Pushing(n, t)
  BY <1>1, PushesLends
<1>4. t.outgoing = session /\ t.outbound = s.outbound
  BY DEF Sound, State
<1> HIDE DEF t
<1>5. /\ Pushing(n, u) /\ u.outgoing = t.outgoing
      /\ u.outbound[p] = Append(t.outbound[p], SayAt("enter", Opposite[e]))
  BY <1>2, <1>3, PushesSays
<1> HIDE DEF u
<1>6. PushesOn(s, u)
  BY <1>1, <1>4, <1>5 DEF PushesOn, IsSendingTo, IsPeer
<1> QED
  BY <1>5, <1>6 DEF Enters, session, t, u

LEMMA PushesProbes ==
  ASSUME NEW n \in Device, NEW s, Sound(s), Fresh(n, s), s.incoming = None, s.takeover = None,
         s.active, Begins(s) = {}, NEW p \in Device \ {n}, s.last_seen[p] = "recent",
         NEW e \in Edge
  PROVE  Pushing(n, Probes(s, p, e)) /\ PushesOn(s, Probes(s, p, e))
<1> DEFINE session == [kind |-> "probing", peer |-> p, edge |-> e, acknowledged |-> FALSE]
           t == [s EXCEPT !.outgoing = session]
           u == send(t, p, SayAt("probe", Opposite[e]))
<1>1. session \in Probing /\ session.peer = p /\ session.kind = "probing"
  BY DEF Probing
<1>2. SayAt("probe", Opposite[e]) \in Message
  BY EdgeAssumption, SaySends
<1> HIDE DEF session
<1>3. Pushing(n, t)
  BY <1>1, PushesLends
<1>4. t.outgoing = session
  BY DEF Sound, State
<1> HIDE DEF t
<1>5. Pushing(n, u) /\ u.outgoing = t.outgoing
  BY <1>2, <1>3, PushesSays
<1> HIDE DEF u
<1>6. PushesOn(s, u)
  BY <1>1, <1>4, <1>5 DEF PushesOn, IsSendingTo
<1> QED
  BY <1>5, <1>6 DEF Probes, session, t, u

LEMMA TakenPushes ==
  ASSUME SoundInv, NEW n \in Device, dev[n].events # <<>>, Pushing(n, dev[n])
  PROVE  LET t == Taken(n) IN
         /\ Sound(t) /\ Fresh(n, t) /\ t.outgoing = dev[n].outgoing /\ t.incoming = None
         /\ t.takeover = None /\ t.active = dev[n].active /\ t.outbound = dev[n].outbound
         /\ t.last_seen = dev[n].last_seen
         /\ IF Head(dev[n].events).kind = "begin"
            THEN dev[n].outgoing = None /\ dev[n].active /\ Begins(t) = {}
            ELSE Pushing(n, t)
<1> DEFINE s == dev[n]
           t == Taken(n)
<1>1. /\ Sound(t) /\ t.events = Tail(s.events)
      /\ t.outgoing = s.outgoing /\ t.incoming = s.incoming /\ t.takeover = s.takeover
      /\ t.trusted = s.trusted /\ t.active = s.active
      /\ t.outbound = s.outbound /\ t.last_seen = s.last_seen
  BY TakenKeeps
<1>2. Sound(s) /\ Pushes(s) /\ Fresh(n, s)
  BY DEF Pushing
<1>3. s.events # <<>>
  OBVIOUS
<1> HIDE DEF s, t
<1>4. /\ \A i \in Begins(t) : i + 1 \in Begins(s) /\ i \in Nat /\ i >= 1
      /\ Head(s.events).kind = "begin" <=> 1 \in Begins(s)
      /\ \A i \in Begins(s) : i = 1 \/ i - 1 \in Begins(t)
  BY <1>1, <1>2, <1>3, BeginsTaken
<1>5. Fresh(n, t)
  BY <1>1, <1>2 DEF Fresh
<1>6. CASE Head(s.events).kind = "begin"
  <2>1. Begins(t) = {}
    <3> SUFFICES ASSUME NEW i \in Begins(t) PROVE FALSE
      OBVIOUS
    <3>1. i + 1 \in Begins(s) /\ 1 \in Begins(s) /\ i + 1 # 1
      BY <1>4, <1>6
    <3> QED
      BY <1>2, <3>1 DEF Pushes
  <2>2. s.outgoing = None /\ s.active
    BY <1>2, <1>4, <1>6 DEF Pushes
  <2> QED
    BY <1>1, <1>2, <1>5, <1>6, <2>1, <2>2 DEF Pushes, s, t
<1>7. CASE Head(s.events).kind # "begin"
  <2>1. 1 \notin Begins(s)
    BY <1>4, <1>7
  <2>2. Begins(t) = {} <=> Begins(s) = {}
    BY <1>4, <2>1
  <2>3. \A i, j \in Begins(t) : i = j
    <3> TAKE i \in Begins(t), j \in Begins(t)
    <3>1. i + 1 \in Begins(s) /\ j + 1 \in Begins(s) /\ i \in Nat /\ j \in Nat
      BY <1>4
    <3>2. i + 1 = j + 1
      BY <1>2, <3>1 DEF Pushes
    <3> QED
      BY <3>1, <3>2
  <2>4. Pushes(t)
    BY <1>1, <1>2, <2>2, <2>3 DEF Pushes
  <2> QED
    BY <1>1, <1>2, <1>5, <1>7, <2>4 DEF Pushes, Pushing, s, t
<1> QED
  BY <1>6, <1>7

\* Each step of the device that is pushed.
LEMMA PushesHandles ==
  ASSUME SoundInv, NEW n \in Device, Pushing(n, dev[n]), HandleCaptured(n)
  PROVE  \E t : OwnStep(n, t) /\ Pushing(n, t) /\ PushesOn(dev[n], t)
<1> DEFINE s == dev[n]
           t == Taken(n)
<1>1. dev[n].events # <<>>
  BY DEF HandleCaptured, BeginReturns, BeginIgnored, BeginNobody, BeginLends,
         PointerPresses, PointerReturns, InputSent, InputIgnored,
         LocalInputTakesOver, LocalInputIgnored, NextIs
<1>2. /\ Sound(t) /\ Fresh(n, t) /\ t.outgoing = s.outgoing /\ t.incoming = None
      /\ t.takeover = None /\ t.active = s.active /\ t.outbound = s.outbound
      /\ t.last_seen = s.last_seen
      /\ IF Head(s.events).kind = "begin"
         THEN s.outgoing = None /\ s.active /\ Begins(t) = {}
         ELSE Pushing(n, t)
  BY <1>1, TakenPushes
<1>3. Sound(s) /\ Pushes(s) /\ s.incoming = None /\ Fresh(n, s)
  BY DEF Pushing, Pushes
<1>4. Head(s.events) \in Captured
  BY <1>1, <1>3, TakenSound
<1>5. \A kind : NextIs(n, kind) => Head(s.events).kind = kind
  BY DEF NextIs
<1> HIDE DEF t
<1>6. \A u : PushesOn(t, u) => PushesOn(s, u)
  BY <1>2 DEF PushesOn
<1> SUFFICES \E u : OwnStep(n, u) /\ Pushing(n, u) /\ PushesOn(t, u)
  BY <1>6
<1>7. CASE BeginNobody(n)
  <2> DEFINE u == release(t)
  <2>1. OwnStep(n, u) /\ s.outgoing = None /\ Begins(t) = {}
    BY <1>2, <1>5, <1>7 DEF BeginNobody, Handle, Become, OwnStep, t, IsBusy
  <2>2. Sound(u)
    BY <1>2, ReleaseSound DEF Handled
  <2>3. /\ u.outgoing = None /\ u.incoming = None /\ u.takeover = None
        /\ u.trusted = t.trusted /\ u.active = FALSE /\ u.events = t.events
        /\ u.last_seen = t.last_seen
    BY <1>2, <2>1 DEF release, Sound, State
  <2> HIDE DEF u
  <2>4. Fresh(n, u) /\ Begins(u) = {}
    BY <1>2, <2>1, <2>3 DEF Fresh, Begins
  <2>5. Pushing(n, u) /\ PushesOn(t, u)
    BY <2>2, <2>3, <2>4 DEF Pushing, Pushes, PushesOn, IsSendingTo, IsPeer
  <2> QED
    BY <2>1, <2>5
<1>8. ASSUME NEW p \in Device, BeginLends(n, p)
      PROVE  \E u : OwnStep(n, u) /\ Pushing(n, u) /\ PushesOn(t, u)
  <2>1. Head(s.events).kind = "begin" /\ p \in PeersAt(s, NextEdge(n))
    BY <1>5, <1>8 DEF BeginLends
  <2>2. NextEdge(n) \in Edge
    BY <1>4, <2>1 DEF NextEdge, Captured
  <2>3. p \in Device \ {n} /\ t.last_seen[p] = "recent"
    BY <1>2, <1>3, <2>1 DEF PeersAt, Fresh, Sound, State, Seen
  <2>4. t.active /\ Begins(t) = {}
    BY <1>2, <2>1
  <2>5. \/ OwnStep(n, Enters(t, p, NextEdge(n)))
        \/ OwnStep(n, Probes(t, p, NextEdge(n)))
    BY <1>8 DEF BeginLends, Handle, Become, OwnStep, t
  <2> QED
    BY <1>2, <2>2, <2>3, <2>4, <2>5, PushesEnters, PushesProbes
<1>9. CASE PointerPresses(n)
  <2> DEFINE message == SayAt("probe", Opposite[s.outgoing.edge])
  <2>1. Pushing(n, t) /\ s.outgoing \in Probing
    BY <1>2, <1>3, <1>5, <1>9, SessionTypes DEF PointerPresses
  <2>2. s.outgoing.peer \in Device /\ message \in Message
    BY <2>1, EdgeAssumption, SaySends DEF Probing
  <2>3. OwnStep(n, send(t, s.outgoing.peer, message))
    BY <1>9 DEF PointerPresses, Handle, Become, OwnStep, t
  <2> HIDE DEF message
  <2>4. /\ Pushing(n, send(t, s.outgoing.peer, message))
        /\ send(t, s.outgoing.peer, message).outgoing = s.outgoing
    BY <1>2, <2>1, <2>2, PushesSays
  <2>5. PushesOn(t, send(t, s.outgoing.peer, message))
    BY <2>1, <2>4 DEF PushesOn, IsSendingTo, Probing
  <2> QED
    BY <2>3, <2>4, <2>5
<1>10. CASE PointerReturns(n)
  <2> DEFINE u == send(t, t.outgoing.peer, Say("leave"))
  <2>1. Pushing(n, t) /\ t.outgoing # None /\ t.outgoing.peer \in Device
    BY <1>2, <1>5, <1>10, SessionTypes DEF PointerReturns, IsProbing, IsReady
  <2>2. OwnStep(n, StopLending(u))
    BY <1>10 DEF PointerReturns, Handle, Become, StopLendingAndLeave, send_force_leave, OwnStep, t
  <2>3. Pushing(n, u) /\ u.outgoing = t.outgoing
    BY <2>1, PushesSays, SaySends
  <2> HIDE DEF u
  <2>4. Begins(u) = {}
    BY <2>1, <2>3 DEF Pushing, Pushes
  <2>5. Pushing(n, StopLending(u)) /\ StopLending(u).outgoing = None
    BY <2>3, <2>4, PushesStops
  <2>6. PushesOn(t, StopLending(u))
    BY <2>5 DEF PushesOn, IsSendingTo, IsPeer
  <2> QED
    BY <2>2, <2>5, <2>6
<1>11. CASE InputSent(n)
  <2> DEFINE x == Head(s.events)
             p == s.outgoing.peer
             u == send(t, p, x)
  <2>1. x.kind \in {"pointer", "keyboard"} /\ Pushing(n, t) /\ s.outgoing \in Sending
    BY <1>2, <1>3, <1>5, <1>11, SessionTypes DEF InputSent
  <2>2. x \in Message /\ p \in Device
    BY <1>4, <2>1 DEF Captured, Message, Sending
  <2>3. OwnStep(n, u)
    BY <1>11 DEF InputSent, Handle, Become, OwnStep, t
  <2> HIDE DEF x, p
  <2>4. /\ Pushing(n, u) /\ u.outgoing = t.outgoing
        /\ u.outbound[p] = Append(t.outbound[p], x)
    BY <2>1, <2>2, PushesSays
  <2> HIDE DEF u
  <2>5. PushesOn(t, u)
    BY <1>2, <2>1, <2>4 DEF PushesOn, IsSendingTo, IsPeer, p
  <2> QED
    BY <2>3, <2>4, <2>5
<1>12. CASE InputIgnored(n) \/ LocalInputIgnored(n)
  <2>1. OwnStep(n, t) /\ Pushing(n, t)
    BY <1>2, <1>5, <1>12 DEF InputIgnored, LocalInputIgnored, Handle, Become, OwnStep, t
  <2> QED
    BY <2>1 DEF PushesOn
<1>13. ~(BeginReturns(n) \/ LocalInputTakesOver(n))
  BY <1>3 DEF BeginReturns, ReturnsBorrowed, LocalInputTakesOver
<1>14. ~BeginIgnored(n)
  BY <1>2, <1>3, <1>5 DEF BeginIgnored, IsBusy
<1> QED
  BY <1>7, <1>8, <1>9, <1>10, <1>11, <1>12, <1>13, <1>14 DEF HandleCaptured

LEMMA PushesTickProbing ==
  ASSUME NEW n \in Device, NEW s, Pushing(n, s), NEW gap, NEW held
  PROVE  LET t == TickProbing(s, gap, held) IN Pushing(n, t) /\ PushesOn(s, t)
<1>1. CASE TickProbing(s, gap, held) = s
  BY <1>1 DEF PushesOn
<1>2. CASE IsProbing(s)
  <2>1. /\ s.outgoing # None /\ s.outgoing.peer \in Device \ {n} /\ s.outgoing.edge \in Edge
        /\ s.last_seen[s.outgoing.peer] = "recent"
        /\ s.active /\ Begins(s) = {} /\ s.incoming = None /\ s.takeover = None
        /\ Sound(s) /\ Fresh(n, s)
    BY <1>2, SessionTypes DEF Pushing, Pushes, Fresh, IsProbing
  <2>2. /\ Pushing(n, Enters(s, s.outgoing.peer, s.outgoing.edge))
        /\ PushesOn(s, Enters(s, s.outgoing.peer, s.outgoing.edge))
    BY <2>1, PushesEnters
  <2> DEFINE u == send(s, s.outgoing.peer, Say("leave"))
  <2>3. Pushing(n, u) /\ u.outgoing = s.outgoing
    <3> DEFINE p == s.outgoing.peer
    <3>1. p \in Device /\ Say("leave") \in Message
      BY <2>1, SaySends
    <3> HIDE DEF p
    <3>2. Pushing(n, send(s, p, Say("leave"))) /\ send(s, p, Say("leave")).outgoing = s.outgoing
      BY <3>1, PushesSays
    <3> QED
      BY <3>2 DEF p
  <2>4. u = send_force_leave(s, s.outgoing.peer)
    BY DEF send_force_leave
  <2> HIDE DEF u
  <2>5. Begins(u) = {}
    BY <2>1, <2>3 DEF Pushing, Pushes
  <2>6. Pushing(n, StopLending(u)) /\ StopLending(u).outgoing = None
    BY <2>3, <2>5, PushesStops
  <2>7. PushesOn(s, StopLending(u))
    BY <2>6 DEF PushesOn, IsSendingTo, IsPeer
  <2>8. \/ TickProbing(s, gap, held) = s
        \/ TickProbing(s, gap, held) = StopLending(u)
        \/ TickProbing(s, gap, held) = Enters(s, s.outgoing.peer, s.outgoing.edge)
    BY <2>4 DEF TickProbing
  <2> QED
    BY <1>1, <2>2, <2>6, <2>7, <2>8
<1> QED
  BY <1>1, <1>2 DEF TickProbing

LEMMA PushesTicks ==
  ASSUME SoundInv, NEW n \in Device, Pushing(n, dev[n]), Tick(n)
  PROVE  \E t : OwnStep(n, t) /\ Pushing(n, t) /\ PushesOn(dev[n], t)
<1>1. PICK gap \in If(IsProbing(dev[n])), held \in If(IsProbing(dev[n])),
           old \in If(dev[n].preview # None), again \in If(dev[n].takeover # None) :
        Become(n, TickTimeouts(TickPreview(TickProbing(
                    TickTakeover(TickTrust(TickEdges(dev[n])), again), gap, held), old)))
  BY Zenon DEF Tick, Handle
<1> DEFINE s == dev[n]
           edges == TickEdges(s)
           trust == TickTrust(edges)
           now == TickTakeover(trust, again)
           probing == TickProbing(now, gap, held)
           preview == TickPreview(probing, old)
<1>2. Pushing(n, edges) /\ Same(s, edges)
  BY TickEdgesSame, TickEdgesSound, SamePushes DEF Pushing, HeardMore, Handled
<1> HIDE DEF edges
<1>3. Pushing(n, trust) /\ Same(edges, trust)
  BY <1>2, TickTrustSame, TickTrustSound, SamePushes DEF Pushing, HeardMore, Handled
<1> HIDE DEF trust
<1>4. now = trust
  BY <1>3 DEF TickTakeover, Pushing, Pushes
<1>5. Pushing(n, now) /\ Same(s, now)
  BY <1>2, <1>3, <1>4, SameTwice
<1> HIDE DEF now
<1>6. Pushing(n, probing) /\ PushesOn(now, probing)
  BY <1>5, PushesTickProbing
<1> HIDE DEF probing
<1>7. Pushing(n, preview) /\ Same(probing, preview)
  BY <1>6, TickPreviewSame, TickPreviewSound, SamePushes DEF Pushing, HeardMore, Handled
<1> HIDE DEF preview
<1>8. TickTimeouts(preview) = preview
  BY <1>7, TickTimeoutsSame DEF Pushing
<1>9. PushesOn(s, preview)
  BY <1>5, <1>6, <1>7, PushesOnBetween
<1>10. OwnStep(n, preview)
  BY <1>1, <1>8 DEF Become, OwnStep, preview, probing, now, trust, edges
<1> QED
  BY <1>7, <1>9, <1>10

\* Its user crosses an edge, or does anything else.
LEMMA CaughtPushes ==
  ASSUME NEW n \in Device, NEW s, Sound(s), Fresh(n, s), s.incoming = None, s.takeover = None,
         NEW event \in Captured,
         IF event.kind = "begin" THEN ~s.active /\ s.outgoing = None /\ Begins(s) = {}
         ELSE Pushes(s)
  PROVE  LET t == Catch([s EXCEPT !.active = (s.active \/ event.kind = "begin")], event) IN
         /\ Pushing(n, t) /\ PushesOn(s, t)
         /\ t.outgoing = s.outgoing /\ t.outbound = s.outbound
<1> DEFINE on == s.active \/ event.kind = "begin"
           u == [s EXCEPT !.active = on]
           t == Catch(u, event)
<1>1. on \in BOOLEAN
  BY DEF Sound, State
<1> HIDE DEF on
<1>2. u \in State
  BY <1>1 DEF Sound, State
<1>3. Sound(u)
  BY <1>2 DEF Sound, State
<1>4. /\ u.outgoing = s.outgoing /\ u.incoming = None /\ u.takeover = None
      /\ u.trusted = s.trusted /\ u.active = on /\ u.events = s.events
      /\ u.last_seen = s.last_seen /\ u.outbound = s.outbound
  BY DEF Sound, State
<1> HIDE DEF u
<1>5. Sound(t)
  BY <1>3, CatchSound DEF Handled
<1>6. /\ t.outgoing = s.outgoing /\ t.incoming = None /\ t.takeover = None
      /\ t.trusted = s.trusted /\ t.active = on /\ t.events = Append(s.events, event)
      /\ t.last_seen = s.last_seen /\ t.outbound = s.outbound
  BY <1>3, <1>4 DEF Catch, Sound, State
<1> HIDE DEF t
<1>7. Fresh(n, t)
  BY <1>6 DEF Fresh
<1>8. /\ event.kind # "begin" => Begins(t) = Begins(s)
      /\ event.kind = "begin" => Begins(t) = Begins(s) \cup {Len(s.events) + 1}
  BY <1>6, BeginsCaught
<1>9. Pushes(t)
  <2>1. CASE event.kind = "begin"
    BY <1>6, <1>8, <2>1 DEF Pushes, on
  <2>2. CASE event.kind # "begin"
    BY <1>6, <1>8, <2>2 DEF Pushes, on
  <2> QED
    BY <2>1, <2>2
<1>10. PushesOn(s, t)
  BY <1>6 DEF PushesOn
<1> QED
  BY <1>5, <1>6, <1>7, <1>9, <1>10 DEF Pushing, t, u, on

LEMMA PushesUser ==
  ASSUME SoundInv, NEW n \in Device, Pushing(n, dev[n]), User(n)
  PROVE  \E t : OwnStep(n, t) /\ Pushing(n, t) /\ PushesOn(dev[n], t)
<1> DEFINE s == dev[n]
<1>1. Sound(s) /\ Fresh(n, s) /\ s.incoming = None /\ s.takeover = None /\ Pushes(s) /\ s \in State
  BY DEF Pushing, Pushes, Sound
<1>2. [s EXCEPT !.active = s.active] = s /\ s.active \in BOOLEAN
  BY <1>1 DEF State
<1>3. ASSUME NEW event \in Captured, event.kind # "begin", OwnStep(n, Catch(s, event))
      PROVE  \E t : OwnStep(n, t) /\ Pushing(n, t) /\ PushesOn(s, t)
  <2>1. (s.active \/ event.kind = "begin") = s.active
    BY <1>2, <1>3
  <2>2. LET t == Catch([s EXCEPT !.active = (s.active \/ event.kind = "begin")], event) IN
        Pushing(n, t) /\ PushesOn(s, t)
    <3> HIDE DEF s
    <3> QED
      BY <1>1, <1>3, CaughtPushes
  <2>3. Pushing(n, Catch(s, event)) /\ PushesOn(s, Catch(s, event))
    BY <1>2, <2>1, <2>2
  <2> QED
    BY <1>3, <2>3
<1>4. ASSUME NEW e \in Edge, UserCrosses(n, e)
      PROVE  \E t : OwnStep(n, t) /\ Pushing(n, t) /\ PushesOn(s, t)
  <2> DEFINE event == SayAt("begin", e)
             t == Catch([s EXCEPT !.active = TRUE], event)
  <2>1. event \in Captured /\ event.kind = "begin"
    BY DEF SayAt, Captured
  <2>2. OwnStep(n, t) /\ ~s.active
    BY <1>4 DEF UserCrosses, OwnStep, Catch, SoundInv
  <2> HIDE DEF s, event
  <2>3. s.outgoing = None /\ Begins(s) = {}
    BY <1>1, <2>2 DEF Pushes
  <2>4. LET v == Catch([s EXCEPT !.active = (s.active \/ event.kind = "begin")], event) IN
        Pushing(n, v) /\ PushesOn(s, v)
    BY <1>1, <2>1, <2>2, <2>3, CaughtPushes
  <2>5. (s.active \/ event.kind = "begin") = TRUE
    BY <2>1
  <2>6. Pushing(n, t) /\ PushesOn(s, t)
    BY <2>4, <2>5
  <2> QED
    BY <2>2, <2>6
<1>5. CASE UserTouches(n)
  <2>1. OwnStep(n, Catch(s, Say("localInput"))) /\ Say("localInput") \in Captured
        /\ Say("localInput").kind # "begin"
    BY <1>5 DEF UserTouches, Become, OwnStep, Say, Captured
  <2> QED
    BY <1>3, <2>1
<1>6. ASSUME NEW motion \in Motion, UserMoves(n, motion)
      PROVE  \E t : OwnStep(n, t) /\ Pushing(n, t) /\ PushesOn(s, t)
  <2> DEFINE event == [kind |-> "pointer", motion |-> motion]
  <2>1. OwnStep(n, Catch(s, event)) /\ event \in Captured /\ event.kind # "begin"
    BY <1>6 DEF UserMoves, Become, OwnStep, Captured
  <2> HIDE DEF event
  <2> QED
    BY <1>3, <2>1
<1>7. ASSUME NEW key \in Key, UserPresses(n, key)
      PROVE  \E t : OwnStep(n, t) /\ Pushing(n, t) /\ PushesOn(s, t)
  <2> DEFINE event == [kind |-> "keyboard", key |-> key]
  <2>1. OwnStep(n, Catch(s, event)) /\ event \in Captured /\ event.kind # "begin"
    BY <1>7 DEF UserPresses, Become, OwnStep, Captured
  <2> HIDE DEF event
  <2> QED
    BY <1>3, <2>1
<1> QED
  BY <1>4, <1>5, <1>6, <1>7 DEF User

LEMMA PushesHears ==
  ASSUME SoundInv, NEW n \in Device, NEW m \in Device, Pushing(n, dev[n]), Hear(n, m)
  PROVE  \E t : OwnStep(n, t) /\ Pushing(n, t) /\ PushesOn(dev[n], t)
<1>1. OwnStep(n, Heard(n, m))
  BY DEF Hear, Handle, Become, OwnStep
<1>2. Pushing(n, Heard(n, m)) /\ PushesOn(dev[n], Heard(n, m))
  BY HeardSame, SamePushes DEF Pushing, Heard
<1> QED
  BY <1>1, <1>2

\* What the device that is pushed makes of a reply x of m.
PushesAnswers(m, s, t, x) ==
  /\ t.outbound = s.outbound
  /\ \A p \in Device : IsSendingTo(t, p) =>
       /\ IsSendingTo(s, p) /\ t.outgoing.edge = s.outgoing.edge
       /\ s.outgoing.ready => t.outgoing.ready
       /\ p = m => x.kind # "leave" /\ (x.kind = "ack" => t.outgoing.ready)

\* A session that stays one with the same peer.
LEMMA PushesGoesOn ==
  ASSUME NEW n \in Device, NEW s, Pushing(n, s), s.outgoing # None,
         NEW session \in Probing \cup Sending, session.peer = s.outgoing.peer
  PROVE  LET t == [s EXCEPT !.outgoing = session] IN
         Pushing(n, t) /\ t.outgoing = session /\ t.outbound = s.outbound
<1>1. /\ Sound(s) /\ Fresh(n, s) /\ s.incoming = None /\ s.takeover = None
      /\ s.active /\ Begins(s) = {} /\ s.outgoing.peer \in Device \ {n}
      /\ s.last_seen[s.outgoing.peer] = "recent"
  BY SessionTypes DEF Pushing, Pushes, Fresh
<1>2. Pushing(n, [s EXCEPT !.outgoing = session])
  BY <1>1, PushesLends
<1> QED
  BY <1>1, <1>2 DEF Sound, State

LEMMA PushesHandlesReply ==
  ASSUME SoundInv, NEW m \in Device, NEW n \in Device, m # n, Pushing(n, dev[n]),
         NEW i, HandleMessage(m, n, i), dev[m].outbound[n][i] \in Reply
  PROVE  \E t : /\ Answer(m, n, i, t) /\ Pushing(n, t)
                /\ PushesAnswers(m, dev[n], t, dev[m].outbound[n][i])
<1> DEFINE s == dev[n]
           h == Heard(n, m)
           x == dev[m].outbound[n][i]
<1>1. Sound(s)
  BY DEF Pushing
<1>2. Pushing(n, h) /\ Same(s, h)
  <2>1. Same(s, h) /\ HeardMore(s, h) /\ Sound(h)
    BY <1>1, HeardSame DEF Heard
  <2> HIDE DEF h, s
  <2> QED
    BY <2>1, SamePushes DEF s
<1>3. h.outgoing = s.outgoing /\ h.outbound = s.outbound /\ h.incoming = None
  BY <1>2 DEF Same, Pushing, Pushes
<1>4. x.kind \in {"probeAck", "ack", "leave"}
  BY DEF Reply
<1>5. \A kind : IsOf(m, n, i, kind) <=> x.kind = kind
  BY DEF IsOf
<1>6. ProbeAcknowledged(m, n, i) \/ EnterAcknowledged(m, n, i) \/ LeaveHandled(m, n, i)
  BY <1>4, <1>5 DEF HandleMessage, ProbeRefused, ProbeAnswered, EnterRefused,
     EnterAccepted, InputRefused, InputDropped, PointerInjected, PointerLeaves, KeyInjected
<1>7. IsSendingTo(h, m) <=> IsSendingTo(s, m)
  BY <1>3 DEF IsSendingTo
<1>8. PushesAnswers(m, s, h, x) <=>
        (IsSendingTo(s, m) => x.kind = "probeAck" \/ (x.kind = "ack" /\ h.outgoing.ready))
  <2>1. \A p : IsSendingTo(h, p) <=> IsSendingTo(s, p)
    BY <1>3 DEF IsSendingTo
  <2> QED
    BY <1>3, <1>4, <2>1 DEF PushesAnswers
<1> HIDE DEF h, s, x
<1>9. CASE ProbeAcknowledged(m, n, i)
  <2>1. x.kind = "probeAck"
    BY <1>5, <1>9 DEF ProbeAcknowledged
  <2>2. CASE IsPeer(s.outgoing, m) /\ IsProbing(s)
    <3> DEFINE session == [h.outgoing EXCEPT !.acknowledged = TRUE]
               t == [h EXCEPT !.outgoing = session]
    <3>1. h.outgoing \in Probing /\ h.outgoing # None
      BY <1>1, <1>3, <2>2, SessionTypes DEF IsProbing
    <3>2. session \in Probing /\ session.peer = h.outgoing.peer /\ session.kind = "probing"
      BY <3>1 DEF Probing
    <3>3. Answer(m, n, i, t)
      BY <1>9, <2>2 DEF ProbeAcknowledged, h, s
    <3> HIDE DEF session
    <3>4. Pushing(n, t) /\ t.outgoing = session /\ t.outbound = h.outbound
      BY <1>2, <3>1, <3>2, PushesGoesOn
    <3> HIDE DEF t
    <3>5. PushesAnswers(m, s, t, x)
      BY <1>3, <3>2, <3>4 DEF PushesAnswers, IsSendingTo
    <3> QED
      BY <3>3, <3>4, <3>5 DEF s, x
  <2>3. CASE ~(IsPeer(s.outgoing, m) /\ IsProbing(s))
    <3>1. Answer(m, n, i, h)
      BY <1>9, <2>3 DEF ProbeAcknowledged, h, s
    <3> QED
      BY <1>2, <1>8, <2>1, <3>1 DEF s, x
  <2> QED
    BY <2>2, <2>3
<1>10. CASE EnterAcknowledged(m, n, i)
  <2>1. x.kind = "ack"
    BY <1>5, <1>10 DEF EnterAcknowledged
  <2>2. CASE IsSendingTo(s, m)
    <3> DEFINE session == [h.outgoing EXCEPT !.ready = TRUE]
               u == [h EXCEPT !.outgoing = session]
               t == remember(u, m, s.outgoing.edge)
    <3>1. h.outgoing \in Sending /\ h.outgoing # None /\ s.outgoing.edge \in Edge
      BY <1>1, <1>3, <2>2, SessionTypes DEF IsSendingTo, IsPeer
    <3>2. /\ session \in Sending /\ session.peer = h.outgoing.peer
          /\ session.edge = h.outgoing.edge /\ session.ready
      BY <3>1 DEF Sending
    <3>3. Answer(m, n, i, t)
      BY <1>10, <2>2 DEF EnterAcknowledged, h, s
    <3> HIDE DEF session
    <3>4. Pushing(n, u) /\ u.outgoing = session /\ u.outbound = h.outbound
      BY <1>2, <3>1, <3>2, PushesGoesOn
    <3> HIDE DEF u
    <3>5. Sound(u) /\ Sound(t)
      BY <3>1, <3>4, RememberSound DEF Pushing, Handled
    <3>6. Same(u, t) /\ HeardMore(u, t)
      BY <3>5 DEF Same, HeardMore, remember, Sound, State
    <3> HIDE DEF t
    <3>7. Pushing(n, t) /\ t.outgoing = session /\ t.outbound = s.outbound
      BY <1>3, <3>4, <3>5, <3>6, SamePushes DEF Same
    <3>8. PushesAnswers(m, s, t, x)
      BY <1>3, <2>1, <2>2, <3>2, <3>7 DEF PushesAnswers, IsSendingTo, IsPeer
    <3> QED
      BY <3>3, <3>7, <3>8 DEF s, x
  <2>3. CASE ~IsSendingTo(s, m)
    <3>1. Answer(m, n, i, h)
      BY <1>10, <2>3 DEF EnterAcknowledged, h, s
    <3> QED
      BY <1>2, <1>8, <2>3, <3>1 DEF s, x
  <2> QED
    BY <2>2, <2>3
<1>11. CASE LeaveHandled(m, n, i)
  <2>1. Answer(m, n, i, LeaveBorrowing(LeaveLending(h, m), m))
    BY <1>11 DEF LeaveHandled, h
  <2>2. CASE ~IsPeer(h.outgoing, m)
    <3>1. Answer(m, n, i, h)
      BY <1>3, <2>1, <2>2 DEF LeaveLending, LeaveBorrowing, IsPeer
    <3>2. ~IsSendingTo(s, m)
      BY <1>3, <2>2 DEF IsSendingTo
    <3> QED
      BY <1>2, <1>8, <3>1, <3>2 DEF s, x
  <2>3. CASE IsPeer(h.outgoing, m)
    <3>1. PICK u : /\ Pushing(n, u) /\ u.outgoing = h.outgoing /\ u.outbound = h.outbound
                   /\ LeaveLending(h, m) = StopLending(u)
      <4>1. CASE LeaveLending(h, m) = StopLending(h)
        BY <1>2, <4>1
      <4>2. CASE /\ IsSendingTo(h, m)
                 /\ LeaveLending(h, m) = StopLending(forget_portal_edge(h, m, h.outgoing.edge))
        <5> DEFINE u == forget_portal_edge(h, m, h.outgoing.edge)
        <5>1. Sound(h) /\ h.outgoing.edge \in Edge
          BY <1>2, <2>3, SessionTypes DEF Pushing, IsPeer
        <5>2. Sound(u)
          BY <5>1, RememberSound DEF Handled
        <5>3. Same(h, u) /\ HeardMore(h, u)
          BY <5>1 DEF Same, HeardMore, forget_portal_edge, Sound, State
        <5>4. u.outgoing = h.outgoing /\ u.outbound = h.outbound
          BY <5>3 DEF Same
        <5> HIDE DEF u
        <5>5. Pushing(n, u)
          BY <1>2, <5>2, <5>3, SamePushes
        <5> QED
          BY <4>2, <5>4, <5>5 DEF u
      <4> QED
        BY <2>3, <4>1, <4>2 DEF LeaveLending
    <3>2. Begins(u) = {}
      BY <2>3, <3>1 DEF Pushing, Pushes, IsPeer
    <3> DEFINE t == StopLending(u)
    <3>3. Pushing(n, t) /\ t.outgoing = None /\ t.outbound = u.outbound /\ t.incoming = None
      BY <3>1, <3>2, PushesStops
    <3> HIDE DEF t
    <3>4. Answer(m, n, i, t)
      BY <2>1, <3>1, <3>3 DEF LeaveBorrowing, IsPeer, t
    <3>5. PushesAnswers(m, s, t, x)
      BY <1>3, <3>1, <3>3 DEF PushesAnswers, IsSendingTo, IsPeer
    <3> QED
      BY <3>3, <3>4, <3>5 DEF s, x
  <2> QED
    BY <2>2, <2>3
<1> QED
  BY <1>6, <1>9, <1>10, <1>11

\* A message that is on its way no more.
LEMMA HandsOver ==
  ASSUME NEW m \in Device, NEW s, Sound(s), NEW n \in Device, NEW queue \in Seq(Message)
  PROVE  LET t == [s EXCEPT !.outbound[n] = queue] IN
         /\ t.outgoing = s.outgoing /\ t.incoming = s.incoming /\ t.takeover = s.takeover
         /\ t.outbound[n] = queue
         /\ \A p \in Device : p # n => t.outbound[p] = s.outbound[p]
         /\ Pushing(m, s) => Pushing(m, t)
         /\ Resting(m, s) /\ queue \in Seq(Reply) => Resting(m, t)
<1> DEFINE t == [s EXCEPT !.outbound[n] = queue]
<1>1. Sound(t)
  BY OutboundSound DEF Handled
<1>2. /\ t.outgoing = s.outgoing /\ t.incoming = s.incoming /\ t.takeover = s.takeover
      /\ t.trusted = s.trusted /\ t.active = s.active /\ t.events = s.events
      /\ t.last_seen = s.last_seen
  BY DEF Sound, State
<1>3. t.outbound[n] = queue /\ \A p \in Device : p # n => t.outbound[p] = s.outbound[p]
  BY DEF Sound, State
<1>4. t.outbound \in [Device -> Seq(Message)]
  BY <1>1 DEF Sound, State
<1> HIDE DEF t
<1>5. Begins(t) = Begins(s)
  BY <1>2 DEF Begins
<1>6. Fresh(m, s) => Fresh(m, t)
  BY <1>2 DEF Fresh
<1>7. Pushing(m, s) => Pushing(m, t)
  BY <1>1, <1>2, <1>5, <1>6 DEF Pushing, Pushes
<1>8. ASSUME Resting(m, s), queue \in Seq(Reply)
      PROVE  Resting(m, t)
  <2>1. \A p \in Device : t.outbound[p] \in Seq(Reply)
    BY <1>3, <1>8 DEF Resting, Rests
  <2>2. t.outbound \in [Device -> Seq(Reply)]
    BY <1>4, <2>1
  <2> QED
    BY <1>1, <1>2, <1>5, <1>6, <1>8, <2>2 DEF Resting, Rests
<1> QED
  BY <1>2, <1>3, <1>7, <1>8 DEF t

----------------------------------------------------------------------------
(* All devices *)

\* One device at most has been pushed.
OnePushed == \A n, m \in pushed : n = m

LEMMA SoloParts ==
  ASSUME SoundInv, Solo, NEW n \in Device
  PROVE  IF n \in pushed THEN Pushing(n, dev[n]) ELSE Resting(n, dev[n])
BY DEF SoundInv, Solo, Pushing, Resting

\* What is left of Solo once each device's part of it is known.
LEMMA SoloFrom ==
  ASSUME ~cut', pushed' \subseteq Device,
         \A n \in Device : IF n \in pushed' THEN Pushing(n, dev'[n]) ELSE Resting(n, dev'[n]),
         \A n \in pushed', p \in Device \ pushed' :
           IsSendingTo(dev'[n], p) => LendsTo(n, dev'[n], p, dev'[p]),
         OnePushed',
         pushed' = {} => \A n \in Device : dev'[n].incoming = None /\ dev'[n].takeover = None
  PROVE  Solo'
<1>1. ASSUME NEW n \in Device, NEW p \in Device
      PROVE  LendsTo(n, dev'[n], p, dev'[p])
  <2> SUFFICES ASSUME IsSendingTo(dev'[n], p)
               PROVE  LendsTo(n, dev'[n], p, dev'[p])
    BY DEF LendsTo
  <2>1. n \in pushed'
    BY DEF Resting, Rests, IsSendingTo, IsPeer
  <2>2. p # n
    BY <2>1 DEF Pushing, Fresh, IsSendingTo, IsPeer
  <2> QED
    BY <2>1, <2>2 DEF OnePushed
<1>2. \A n \in Device : Fresh(n, dev'[n])
  BY DEF Pushing, Resting
<1>3. \A n \in Device : IF n \in pushed' THEN Pushes(dev'[n]) ELSE Rests(dev'[n])
  BY DEF Pushing, Resting
<1> QED
  BY <1>1, <1>2, <1>3 DEF Solo

\* What is lent stays lent when a device that rests takes a step of its own, ...
LEMMA LentToRests ==
  ASSUME NEW n \in Device, NEW s, NEW p, NEW t, NEW u, LendsTo(n, s, p, t), RestsOn(t, u)
  PROVE  LendsTo(n, s, p, u)
<1> SUFFICES ASSUME IsSendingTo(s, p) PROVE LendsTo(n, s, p, u)
  BY DEF LendsTo
<1> DEFINE e == Opposite[s.outgoing.edge]
           portal == [peer |-> n, edge |-> e]
<1>1. \/ Says(t.outbound[n], "leave")
      \/ EnterComes(s.outbound[p], e)
      \/ /\ t.incoming = portal /\ ~Says(s.outbound[p], "leave")
         /\ s.outgoing.ready \/ Says(t.outbound[n], "ack")
  BY DEF LendsTo
<1>2. portal.peer = n
  OBVIOUS
<1> SUFFICES \/ Says(u.outbound[n], "leave")
             \/ EnterComes(s.outbound[p], e)
             \/ /\ u.incoming = portal /\ ~Says(s.outbound[p], "leave")
                /\ s.outgoing.ready \/ Says(u.outbound[n], "ack")
  BY DEF LendsTo
<1> HIDE DEF e, portal
<1> QED
  BY <1>1, <1>2 DEF RestsOn

\* ... and when the one that lends does.
LEMMA LentByPushes ==
  ASSUME NEW n \in Device, NEW s, Sound(s), NEW p \in Device, NEW t, NEW u,
         LendsTo(n, s, p, t), PushesOn(s, u)
  PROVE  LendsTo(n, u, p, t)
<1> SUFFICES ASSUME IsSendingTo(u, p) PROVE LendsTo(n, u, p, t)
  BY DEF LendsTo
<1>1. s.outbound[p] \in Seq(Message)
  BY DEF Sound, State
<1>2. CASE u.outbound[p] = Append(s.outbound[p], SayAt("enter", Opposite[u.outgoing.edge]))
  <2>1. EnterComes(u.outbound[p], Opposite[u.outgoing.edge])
    BY <1>1, <1>2, AppendSays
  <2> QED
    BY <2>1 DEF LendsTo
<1>3. CASE u.outgoing = s.outgoing /\ u.outbound[p] = s.outbound[p]
  BY <1>3 DEF LendsTo, IsSendingTo
<1>4. ASSUME u.outgoing = s.outgoing, NEW x, x.kind # "leave",
             u.outbound[p] = Append(s.outbound[p], x)
      PROVE  LendsTo(n, u, p, t)
  <2> DEFINE q == s.outbound[p]
             r == u.outbound[p]
             e == Opposite[s.outgoing.edge]
  <2>1. /\ Says(r, "leave") <=> Says(q, "leave") \/ x.kind = "leave"
        /\ EnterComes(q, e) /\ x.kind # "leave" => EnterComes(r, e)
    BY <1>1, <1>4, AppendSays
  <2>2. /\ Says(r, "leave") => Says(q, "leave")
        /\ EnterComes(q, e) => EnterComes(r, e)
    BY <1>4, <2>1
  <2>3. IsSendingTo(s, p)
    BY <1>4 DEF IsSendingTo
  <2> HIDE DEF q, r, e
  <2>4. \/ Says(t.outbound[n], "leave")
        \/ EnterComes(q, e)
        \/ /\ t.incoming = [peer |-> n, edge |-> e] /\ ~Says(q, "leave")
           /\ s.outgoing.ready \/ Says(t.outbound[n], "ack")
    BY <2>3 DEF LendsTo, q, e
  <2> QED
    BY <1>4, <2>2, <2>4 DEF LendsTo, r, e
<1> QED
  BY <1>2, <1>3, <1>4 DEF PushesOn

LEMMA OwnStepSolo ==
  ASSUME SoundInv, Solo, OnePushed, ~cut', pushed' = pushed, NEW n \in Device, NEW t,
         OwnStep(n, t),
         IF n \in pushed THEN Pushing(n, t) /\ PushesOn(dev[n], t)
         ELSE Resting(n, t) /\ RestsOn(dev[n], t)
  PROVE  Solo'
<1>1. dev'[n] = t /\ \A k \in Device : k # n => dev'[k] = dev[k]
  BY DEF OwnStep, SoundInv
<1>2. \A k \in Device : IF k \in pushed' THEN Pushing(k, dev'[k]) ELSE Resting(k, dev'[k])
  BY <1>1, SoloParts
<1>3. ASSUME NEW k \in pushed', NEW p \in Device \ pushed', IsSendingTo(dev'[k], p)
      PROVE  LendsTo(k, dev'[k], p, dev'[p])
  <2>1. k \in Device /\ LendsTo(k, dev[k], p, dev[p]) /\ Sound(dev[k])
    BY DEF Solo, SoundInv
  <2>2. CASE k = n
    <3>1. PushesOn(dev[k], t) /\ p # n
      BY <2>2
    <3>2. LendsTo(k, t, p, dev[p])
      BY <2>1, <3>1, LentByPushes
    <3> QED
      BY <1>1, <2>2, <3>1, <3>2
  <2>3. CASE p = n
    <3>1. LendsTo(k, dev[k], p, t)
      BY <2>1, <2>3, LentToRests
    <3>2. k # n
      BY <2>3
    <3> QED
      BY <1>1, <2>1, <2>3, <3>1, <3>2
  <2>4. CASE k # n /\ p # n
    BY <1>1, <2>1, <2>4
  <2> QED
    BY <2>2, <2>3, <2>4
<1>4. ASSUME pushed' = {}
      PROVE  \A k \in Device : dev'[k].incoming = None /\ dev'[k].takeover = None
  BY <1>1, <1>4 DEF Solo, RestsOn
<1> QED
  BY <1>2, <1>3, <1>4, SoloFrom DEF SoundInv, OnePushed

\* The first push.
LEMMA CrossesSolo ==
  ASSUME SoundInv, Solo, OnePushed', NEW n \in Device, User(n), pushed' # pushed
  PROVE  Solo'
<1>1. PICK e \in Edge : UserCrosses(n, e)
  BY DEF User, UserTouches, UserMoves, UserPresses, Become
<1>2. pushed' = pushed \cup {n} /\ cut' = cut
  BY <1>1 DEF UserCrosses
<1>3. pushed = {} /\ n \in pushed'
  BY <1>2 DEF OnePushed
<1> DEFINE s == dev[n]
           event == SayAt("begin", e)
           t == Catch([s EXCEPT !.active = TRUE], event)
<1>4. Resting(n, s) /\ s.incoming = None /\ s.takeover = None
  BY <1>3, SoloParts DEF Solo
<1>5. event \in Captured /\ event.kind = "begin"
  BY DEF SayAt, Captured
<1>6. OwnStep(n, t)
  BY <1>1 DEF UserCrosses, OwnStep, Catch, SoundInv
<1> HIDE DEF s, event
<1>7. Sound(s) /\ Fresh(n, s) /\ ~s.active /\ s.outgoing = None /\ Begins(s) = {}
  BY <1>4 DEF Resting, Rests
<1>8. LET v == Catch([s EXCEPT !.active = (s.active \/ event.kind = "begin")], event) IN
      Pushing(n, v) /\ v.outgoing = s.outgoing
  BY <1>4, <1>5, <1>7, CaughtPushes
<1>9. (s.active \/ event.kind = "begin") = TRUE
  BY <1>5
<1>10. Pushing(n, t) /\ t.outgoing = None
  BY <1>7, <1>8, <1>9
<1>11. dev'[n] = t /\ \A k \in Device : k # n => dev'[k] = dev[k]
  BY <1>6 DEF OwnStep, SoundInv
<1> HIDE DEF t
<1>12. \A k \in Device : IF k \in pushed' THEN Pushing(k, dev'[k]) ELSE Resting(k, dev'[k])
  BY <1>2, <1>3, <1>10, <1>11, SoloParts
<1>13. \A k \in pushed' : \A p : ~IsSendingTo(dev'[k], p)
  BY <1>2, <1>3, <1>10, <1>11 DEF IsSendingTo, IsPeer
<1> QED
  BY <1>2, <1>3, <1>12, <1>13, SoloFrom DEF SoundInv, Solo

\* A message that is handled, ...
LEMMA LentToAnswers ==
  ASSUME NEW n \in Device, NEW s, Sound(s), NEW p \in Device, NEW t, NEW u,
         LendsTo(n, s, p, t), 1 \in DOMAIN s.outbound[p],
         RestsAnswers(n, t, u, s.outbound[p][1]),
         NEW v, v.outgoing = s.outgoing, v.outbound[p] = Tail(s.outbound[p])
  PROVE  LendsTo(n, v, p, u)
<1> SUFFICES ASSUME IsSendingTo(v, p) PROVE LendsTo(n, v, p, u)
  BY DEF LendsTo
<1> DEFINE q == s.outbound[p]
           r == v.outbound[p]
           x == q[1]
           e == Opposite[s.outgoing.edge]
           portal == [peer |-> n, edge |-> e]
<1>1. IsSendingTo(s, p)
  BY DEF IsSendingTo
<1>2. q \in Seq(Message) /\ 1 \in DOMAIN q /\ r = Tail(q)
  BY DEF Sound, State
<1>3. portal.peer = n /\ portal # None
  <2>1. n \in Device
    OBVIOUS
  <2>2. e \in Edge
    BY <1>1, EdgeAssumption, SessionTypes DEF Sending
  <2> HIDE DEF e
  <2>3. portal \in Portal
    BY <2>1, <2>2 DEF Portal
  <2> QED
    BY <2>3, NoneAssumption
<1>4. \/ Says(t.outbound[n], "leave")
      \/ EnterComes(q, e)
      \/ /\ t.incoming = portal /\ ~Says(q, "leave")
         /\ s.outgoing.ready \/ Says(t.outbound[n], "ack")
  BY <1>1 DEF LendsTo
<1>5. RestsAnswers(n, t, u, x)
  OBVIOUS
<1>6. SayAt("enter", e).kind = "enter" /\ SayAt("enter", e).edge = e
  BY DEF SayAt
<1> SUFFICES \/ Says(u.outbound[n], "leave")
             \/ EnterComes(r, e)
             \/ /\ u.incoming = portal /\ ~Says(r, "leave")
                /\ s.outgoing.ready \/ Says(u.outbound[n], "ack")
  BY DEF LendsTo
<1> HIDE DEF e, q, r
<1>7. /\ Says(q, "leave") => q[1].kind = "leave" \/ Says(r, "leave")
      /\ Says(r, "leave") => Says(q, "leave")
      /\ EnterComes(q, e) => EnterComes(r, e) \/ (q[1] = SayAt("enter", e) /\ ~Says(r, "leave"))
  BY <1>2, TailSays
<1>8. CASE Says(t.outbound[n], "leave")
  BY <1>5, <1>8 DEF RestsAnswers
<1>9. CASE EnterComes(q, e)
  <2>1. CASE EnterComes(r, e)
    BY <2>1
  <2>2. CASE x = SayAt("enter", e) /\ ~Says(r, "leave")
    <3>1. x.kind = "enter" /\ x.edge = e
      BY <1>6, <2>2
    <3>2. \/ Says(u.outbound[n], "leave")
          \/ u.incoming = portal /\ Says(u.outbound[n], "ack")
      BY <1>5, <3>1 DEF RestsAnswers
    <3> QED
      BY <2>2, <3>2
  <2> QED
    BY <1>7, <1>9, <2>1, <2>2
<1>10. ASSUME t.incoming = portal, ~Says(q, "leave"), s.outgoing.ready \/ Says(t.outbound[n], "ack")
       PROVE  \/ Says(u.outbound[n], "leave")
              \/ /\ u.incoming = portal /\ ~Says(r, "leave")
                 /\ s.outgoing.ready \/ Says(u.outbound[n], "ack")
  <2>1. x.kind # "leave"
    BY <1>2, <1>10 DEF Says
  <2> HIDE DEF portal, x
  <2> QED
    BY <1>3, <1>5, <1>7, <1>10, <2>1 DEF RestsAnswers
<1> QED
  BY <1>4, <1>8, <1>9, <1>10

\* ... one that is a reply to somebody else, ...
LEMMA LentBesideReply ==
  ASSUME NEW n \in Device, NEW s, NEW p \in Device, NEW t, NEW u, LendsTo(n, s, p, t),
         NEW m \in Device, m # n, NEW x \in Reply, RestsAnswers(m, t, u, x)
  PROVE  LendsTo(n, s, p, u)
<1> SUFFICES ASSUME IsSendingTo(s, p) PROVE LendsTo(n, s, p, u)
  BY DEF LendsTo
<1> DEFINE e == Opposite[s.outgoing.edge]
           portal == [peer |-> n, edge |-> e]
<1>1. \/ Says(t.outbound[n], "leave")
      \/ EnterComes(s.outbound[p], e)
      \/ /\ t.incoming = portal /\ ~Says(s.outbound[p], "leave")
         /\ s.outgoing.ready \/ Says(t.outbound[n], "ack")
  BY DEF LendsTo
<1>2. portal.peer = n
  OBVIOUS
<1>3. x.kind # "enter"
  BY DEF Reply
<1> SUFFICES \/ Says(u.outbound[n], "leave")
             \/ EnterComes(s.outbound[p], e)
             \/ /\ u.incoming = portal /\ ~Says(s.outbound[p], "leave")
                /\ s.outgoing.ready \/ Says(u.outbound[n], "ack")
  BY DEF LendsTo
<1> HIDE DEF e, portal
<1>4. CASE Says(t.outbound[n], "leave")
  BY <1>4 DEF RestsAnswers
<1>5. ASSUME t.incoming = portal
      PROVE  u.incoming = portal \/ Says(u.outbound[n], "leave")
  <2>1. \/ t.incoming = None /\ x.kind = "enter"
        \/ u.incoming = t.incoming
        \/ Says(u.outbound[t.incoming.peer], "leave")
        \/ t.incoming.peer = m
    BY DEF RestsAnswers
  <2> QED
    BY <1>2, <1>3, <1>5, <2>1
<1>6. Says(t.outbound[n], "ack") => Says(u.outbound[n], "ack")
  BY DEF RestsAnswers
<1> QED
  BY <1>1, <1>4, <1>5, <1>6

\* ... and one that is a reply to the device that lends.
LEMMA LentByAnswers ==
  ASSUME NEW n \in Device, NEW s, NEW p \in Device, NEW t, LendsTo(n, s, p, t),
         NEW u, NEW x, PushesAnswers(p, s, u, x),
         NEW v, v.incoming = t.incoming, Resting(p, t), 1 \in DOMAIN t.outbound[n],
         t.outbound[n][1] = x, v.outbound[n] = Tail(t.outbound[n])
  PROVE  LendsTo(n, u, p, v)
<1> SUFFICES ASSUME IsSendingTo(u, p) PROVE LendsTo(n, u, p, v)
  BY DEF LendsTo
<1> DEFINE e == Opposite[s.outgoing.edge]
           portal == [peer |-> n, edge |-> e]
<1>1. /\ IsSendingTo(s, p) /\ u.outgoing.edge = s.outgoing.edge
      /\ s.outgoing.ready => u.outgoing.ready
      /\ x.kind # "leave" /\ (x.kind = "ack" => u.outgoing.ready)
      /\ u.outbound = s.outbound
  BY DEF PushesAnswers
<1>2. \/ Says(t.outbound[n], "leave")
      \/ EnterComes(s.outbound[p], e)
      \/ /\ t.incoming = portal /\ ~Says(s.outbound[p], "leave")
         /\ s.outgoing.ready \/ Says(t.outbound[n], "ack")
  BY <1>1 DEF LendsTo
<1>3. t.outbound[n] \in Seq(Reply)
  BY DEF Resting, Rests
<1>4. /\ Says(t.outbound[n], "leave") => Says(v.outbound[n], "leave")
      /\ Says(t.outbound[n], "ack") => x.kind = "ack" \/ Says(v.outbound[n], "ack")
  <2>1. \A kind : Says(t.outbound[n], kind) =>
          t.outbound[n][1].kind = kind \/ Says(Tail(t.outbound[n]), kind)
    BY <1>3, TailSays
  <2> QED
    BY <1>1, <2>1
<1> SUFFICES \/ Says(v.outbound[n], "leave")
             \/ EnterComes(s.outbound[p], e)
             \/ /\ v.incoming = portal /\ ~Says(s.outbound[p], "leave")
                /\ u.outgoing.ready \/ Says(v.outbound[n], "ack")
  BY <1>1 DEF LendsTo
<1> HIDE DEF e, portal
<1> QED
  BY <1>1, <1>2, <1>4

LEMMA MessageSolo ==
  ASSUME SoundInv, Solo, OnePushed, ~cut', pushed' = pushed,
         NEW m \in Device, NEW n \in Device, HandleMessage(m, n, 1)
  PROVE  Solo'
<1> DEFINE q == dev[m].outbound[n]
           x == q[1]
           u == [dev[m] EXCEPT !.outbound[n] = Tail(q)]
<1>1. Delivers(m, n, 1)
  BY DEF HandleMessage, ProbeRefused, ProbeAnswered, ProbeAcknowledged, EnterRefused,
         EnterAccepted, EnterAcknowledged, LeaveHandled, InputRefused, InputDropped,
         PointerInjected, PointerLeaves, KeyInjected, IsInjected
<1>2. m # n /\ 1 \in DOMAIN q
  BY <1>1 DEF Delivers, Connected, Solo, Fresh
<1>3. q \in Seq(Message) /\ Sound(dev[m])
  BY DEF SoundInv, State
<1>4. Without(q, 1) = Tail(q) /\ Tail(q) \in Seq(Message)
  BY <1>2, <1>3, WithoutFirst
<1>5. m \notin pushed => q \in Seq(Reply) /\ x \in Reply /\ Tail(q) \in Seq(Reply)
  <2> SUFFICES ASSUME m \notin pushed
               PROVE  q \in Seq(Reply) /\ x \in Reply /\ Tail(q) \in Seq(Reply)
    OBVIOUS
  <2>1. q \in Seq(Reply)
    BY SoloParts DEF Resting, Rests
  <2> QED
    BY <1>2, <2>1, WithoutFirst, ElementOfSeq
<1>6. /\ u.outgoing = dev[m].outgoing /\ u.incoming = dev[m].incoming
      /\ u.takeover = dev[m].takeover
      /\ u.outbound[n] = Tail(q)
      /\ \A p \in Device : p # n => u.outbound[p] = dev[m].outbound[p]
      /\ IF m \in pushed THEN Pushing(m, u) ELSE Resting(m, u)
  <2> DEFINE queue == Tail(q)
             s == dev[m]
             v == [s EXCEPT !.outbound[n] = queue]
  <2>1. queue \in Seq(Message) /\ (m \notin pushed => queue \in Seq(Reply))
    BY <1>4, <1>5
  <2>2. Sound(s) /\ IF m \in pushed THEN Pushing(m, s) ELSE Resting(m, s)
    BY <1>3, SoloParts
  <2> HIDE DEF queue, s
  <2>3. /\ v.outgoing = s.outgoing /\ v.incoming = s.incoming /\ v.takeover = s.takeover
        /\ v.outbound[n] = queue
        /\ \A p \in Device : p # n => v.outbound[p] = s.outbound[p]
        /\ Pushing(m, s) => Pushing(m, v)
        /\ Resting(m, s) /\ queue \in Seq(Reply) => Resting(m, v)
    BY <2>1, <2>2, HandsOver
  <2> HIDE DEF v
  <2>4. u = v
    BY DEF queue, s, v
  <2> QED
    BY <2>1, <2>2, <2>3, <2>4 DEF queue, s
<1> HIDE DEF u
<1>7. ASSUME NEW t, Answer(m, n, 1, t)
      PROVE  /\ dev'[n] = t /\ dev'[m] = u
             /\ \A k \in Device : k # n /\ k # m => dev'[k] = dev[k]
  <2>1. dev' = [dev EXCEPT ![m] = [dev[m] EXCEPT !.outbound[n] = Without(q, 1)], ![n] = t]
    BY <1>2, <1>7 DEF Answer, SoundInv
  <2>2. dev' = [dev EXCEPT ![m] = u, ![n] = t]
    BY <1>4, <2>1 DEF u
  <2> QED
    BY <1>2, <2>2 DEF SoundInv
<1>8. \A k \in Device : IF k \in pushed THEN Pushing(k, dev[k]) ELSE Resting(k, dev[k])
  BY SoloParts
<1>9. CASE n \in pushed
  <2>1. m \notin pushed
    BY <1>2, <1>9 DEF OnePushed
  <2>2. PICK t : /\ Answer(m, n, 1, t) /\ Pushing(n, t)
                 /\ PushesAnswers(m, dev[n], t, x)
    <3>1. Pushing(n, dev[n]) /\ x \in Reply
      BY <1>5, <1>8, <1>9, <2>1
    <3> QED
      BY <1>2, <3>1, PushesHandlesReply
  <2>3. /\ dev'[n] = t /\ dev'[m] = u
        /\ \A k \in Device : k # n /\ k # m => dev'[k] = dev[k]
    BY <1>7, <2>2
  <2>4. \A k \in Device : IF k \in pushed' THEN Pushing(k, dev'[k]) ELSE Resting(k, dev'[k])
    BY <1>6, <1>8, <1>9, <2>1, <2>2, <2>3
  <2>5. ASSUME NEW k \in pushed', NEW p \in Device \ pushed', IsSendingTo(dev'[k], p)
        PROVE  LendsTo(k, dev'[k], p, dev'[p])
    <3>1. k = n /\ p # n
      BY <1>9 DEF OnePushed
    <3>2. LendsTo(n, dev[n], p, dev[p])
      BY DEF Solo
    <3>3. CASE p = m
      <4>1. LendsTo(n, t, m, u)
        <5>1. Resting(m, dev[m]) /\ LendsTo(n, dev[n], m, dev[m])
          BY <1>8, <2>1, <3>2, <3>3
        <5> HIDE DEF x
        <5>2. q[1] = x
          BY DEF x
        <5>3. /\ 1 \in DOMAIN dev[m].outbound[n] /\ dev[m].outbound[n][1] = x
              /\ u.outbound[n] = Tail(dev[m].outbound[n])
          BY <1>2, <1>6, <5>2
        <5> QED
          BY <1>6, <2>2, <5>1, <5>3, LentByAnswers
      <4> QED
        BY <2>3, <3>1, <3>3, <4>1
    <3>4. CASE p # m
      <4>1. dev'[p] = dev[p] /\ dev'[n] = t
        BY <2>3, <3>1, <3>4
      <4>2. /\ IsSendingTo(t, p) /\ t.outbound = dev[n].outbound
            /\ IsSendingTo(dev[n], p) /\ t.outgoing.edge = dev[n].outgoing.edge
            /\ dev[n].outgoing.ready => t.outgoing.ready
        BY <2>2, <2>3, <2>5, <3>1 DEF PushesAnswers
      <4>3. LendsTo(n, t, p, dev[p])
        BY <3>2, <4>2 DEF LendsTo
      <4> QED
        BY <3>1, <4>1, <4>3
    <3> QED
      BY <3>3, <3>4
  <2> QED
    BY <1>9, <2>4, <2>5, SoloFrom DEF SoundInv, OnePushed
<1>10. CASE n \notin pushed
  <2>1. PICK t : /\ Answer(m, n, 1, t) /\ Resting(n, t)
                 /\ RestsAnswers(m, dev[n], t, x)
    <3>1. Resting(n, dev[n])
      BY <1>8, <1>10
    <3> QED
      BY <1>2, <3>1, RestsHandlesMessage
  <2>2. /\ dev'[n] = t /\ dev'[m] = u
        /\ \A k \in Device : k # n /\ k # m => dev'[k] = dev[k]
    BY <1>7, <2>1
  <2>3. \A k \in Device : IF k \in pushed' THEN Pushing(k, dev'[k]) ELSE Resting(k, dev'[k])
    BY <1>6, <1>8, <1>10, <2>1, <2>2
  <2>4. ASSUME NEW k \in pushed', NEW p \in Device \ pushed', IsSendingTo(dev'[k], p)
        PROVE  LendsTo(k, dev'[k], p, dev'[p])
    <3>1. k \in Device /\ k # n /\ p # k /\ Sound(dev[k])
      BY <1>10 DEF SoundInv
    <3>2. LendsTo(k, dev[k], p, dev[p])
      BY <3>1 DEF Solo
    <3>3. CASE k = m /\ p = n
      <4>1. LendsTo(m, u, n, t)
        <5>1. LendsTo(m, dev[m], n, dev[n])
          BY <3>2, <3>3
        <5> QED
          BY <1>2, <1>3, <1>6, <2>1, <5>1, LentToAnswers
      <4> QED
        BY <2>2, <3>3, <4>1
    <3>4. CASE k = m /\ p # n
      <4>1. dev'[p] = dev[p] /\ dev'[k] = u
        BY <2>2, <3>1, <3>4
      <4>2. u.outgoing = dev[k].outgoing /\ u.outbound[p] = dev[k].outbound[p]
        BY <1>6, <3>4
      <4>3. LendsTo(k, u, p, dev[p])
        BY <3>2, <4>2 DEF LendsTo, IsSendingTo
      <4> QED
        BY <4>1, <4>3
    <3>5. CASE k # m
      <4>1. dev'[k] = dev[k] /\ m \notin pushed
        BY <2>2, <3>1, <3>5 DEF OnePushed
      <4>2. CASE p = n
        <5>1. LendsTo(k, dev[k], n, t)
          BY <1>5, <2>1, <3>1, <3>2, <3>5, <4>1, <4>2, LentBesideReply
        <5> QED
          BY <2>2, <4>1, <4>2, <5>1
      <4>3. CASE p = m
        <5>1. u.incoming = dev[m].incoming /\ u.outbound[k] = dev[m].outbound[k]
          BY <1>6, <3>1
        <5>2. LendsTo(k, dev[k], m, u)
          BY <3>2, <4>3, <5>1 DEF LendsTo
        <5> QED
          BY <2>2, <4>1, <4>3, <5>2
      <4>4. CASE p # n /\ p # m
        BY <2>2, <3>2, <4>1, <4>4
      <4> QED
        BY <4>2, <4>3, <4>4
    <3> QED
      BY <3>3, <3>4, <3>5
  <2>5. ASSUME pushed' = {}
        PROVE  \A k \in Device : dev'[k].incoming = None /\ dev'[k].takeover = None
    <3>1. \A k \in Device : dev[k].incoming = None /\ dev[k].takeover = None
      BY <2>5 DEF Solo
    <3>2. x.kind # "enter"
      BY <1>5, <2>5 DEF Reply
    <3>3. t.incoming = None /\ t.takeover = None
      BY <2>1, <3>1, <3>2 DEF RestsAnswers
    <3> QED
      BY <1>6, <2>2, <3>1, <3>3
  <2> QED
    BY <2>3, <2>4, <2>5, SoloFrom DEF SoundInv, OnePushed
<1> QED
  BY <1>9, <1>10

\* Of what the environment does nothing is left: what a device would send to
\* itself could get lost.
LEMMA LoseSolo ==
  ASSUME SoundInv, Solo, OnePushed, NEW m \in Device, NEW i \in DOMAIN dev[m].outbound[m],
         Lose(m, m, i)
  PROVE  Solo'
<1> DEFINE s == dev[m]
           queue == Without(s.outbound[m], i)
           u == [s EXCEPT !.outbound[m] = queue]
<1>1. Sound(s) /\ s.outbound[m] \in Seq(Message)
  BY DEF SoundInv, State
<1>2. queue \in Seq(Message)
  BY <1>1, WithoutType
<1>3. m \notin pushed => queue \in Seq(Reply)
  BY SoloParts, WithoutType DEF Resting, Rests
<1>4. dev' = [dev EXCEPT ![m] = u] /\ pushed' = pushed /\ cut' = cut
  BY DEF Lose, Become
<1> HIDE DEF queue
<1>5. /\ u.outgoing = s.outgoing /\ u.incoming = s.incoming /\ u.takeover = s.takeover
      /\ \A p \in Device : p # m => u.outbound[p] = s.outbound[p]
      /\ Pushing(m, s) => Pushing(m, u)
      /\ Resting(m, s) /\ queue \in Seq(Reply) => Resting(m, u)
  <2> HIDE DEF s
  <2>1. u.outgoing = s.outgoing /\ u.incoming = s.incoming /\ u.takeover = s.takeover
    BY <1>1, <1>2, HandsOver
  <2>2. \A p \in Device : p # m => u.outbound[p] = s.outbound[p]
    BY <1>1, <1>2, HandsOver
  <2>3. Pushing(m, s) => Pushing(m, u)
    BY <1>1, <1>2, HandsOver
  <2>4. Resting(m, s) /\ queue \in Seq(Reply) => Resting(m, u)
    BY <1>1, <1>2, HandsOver
  <2> QED
    BY <2>1, <2>2, <2>3, <2>4
<1>6. IF m \in pushed THEN Pushing(m, u) ELSE Resting(m, u)
  BY <1>3, <1>5, SoloParts
<1> HIDE DEF u
<1>7. dev'[m] = u /\ \A k \in Device : k # m => dev'[k] = dev[k]
  BY <1>4 DEF SoundInv
<1>8. \A k \in Device : IF k \in pushed' THEN Pushing(k, dev'[k]) ELSE Resting(k, dev'[k])
  BY <1>4, <1>6, <1>7, SoloParts
<1>9. ASSUME NEW k \in pushed', NEW p \in Device \ pushed', IsSendingTo(dev'[k], p)
      PROVE  LendsTo(k, dev'[k], p, dev'[p])
  <2>1. k \in Device /\ p # k
    BY <1>4 DEF SoundInv
  <2>2. LendsTo(k, dev[k], p, dev[p])
    BY <2>1 DEF Solo
  <2>3. /\ dev'[k].outgoing = dev[k].outgoing /\ dev'[k].outbound[p] = dev[k].outbound[p]
        /\ dev'[p].incoming = dev[p].incoming /\ dev'[p].outbound[k] = dev[p].outbound[k]
    BY <1>5, <1>7, <2>1
  <2> QED
    BY <2>2, <2>3 DEF LendsTo, IsSendingTo
<1>10. ASSUME pushed' = {}
       PROVE  \A k \in Device : dev'[k].incoming = None /\ dev'[k].takeover = None
  BY <1>4, <1>5, <1>7, <1>10 DEF Solo
<1> QED
  BY <1>4, <1>8, <1>9, <1>10, SoloFrom DEF SoundInv, Solo, OnePushed

\* A step that the environment or a user is charged with.
LEMMA SpendStep ==
  ASSUME SoundInv, NEW kinds, Spend(kinds)
  PROVE  /\ spent' \in [EnvironmentKind -> Nat]
         /\ \A k \in EnvironmentKind : spent[k] <= spent'[k]
         /\ \A k \in EnvironmentKind : k \in kinds => spent'[k] > 0
BY DEF Spend, SoundInv

LEMMA SpentStep ==
  ASSUME SoundInv, [Next]_vars
  PROVE  \A k \in EnvironmentKind : spent[k] \in Nat /\ spent'[k] \in Nat /\ spent[k] <= spent'[k]
<1>1. CASE UNCHANGED spent
  BY <1>1 DEF SoundInv
<1>2. ASSUME NEW kinds, Spend(kinds)
      PROVE  \A k \in EnvironmentKind :
               spent[k] \in Nat /\ spent'[k] \in Nat /\ spent[k] <= spent'[k]
  BY <1>2, SpendStep DEF SoundInv
<1>3. ASSUME NEW n \in Device, User(n)
      PROVE  \E kinds : Spend(kinds)
  BY <1>3 DEF User, UserCrosses, UserTouches, UserMoves, UserPresses
<1>4. ASSUME NEW n \in Device, HandleCaptured(n) \/ Tick(n) \/ (\E m \in Device : Hear(n, m))
      PROVE  UNCHANGED spent
  BY <1>4 DEF HandleCaptured, BeginReturns, BeginIgnored, BeginNobody, BeginLends,
       PointerPresses, PointerReturns, InputSent, InputIgnored, LocalInputTakesOver,
       LocalInputIgnored, Tick, Hear, Handle
<1>5. ASSUME NEW m \in Device, NEW n \in Device, NEW i, HandleMessage(m, n, i)
      PROVE  \E kinds : Spend(kinds)
  <2>1. Delivers(m, n, i)
    BY <1>5 DEF HandleMessage, ProbeRefused, ProbeAnswered, ProbeAcknowledged, EnterRefused,
         EnterAccepted, EnterAcknowledged, LeaveHandled, InputRefused, InputDropped,
         PointerInjected, PointerLeaves, KeyInjected, IsInjected
  <2> QED
    BY <2>1 DEF Delivers
<1>6. ASSUME Environment
      PROVE  UNCHANGED spent \/ \E kinds : Spend(kinds)
  BY <1>6 DEF Environment, Miss, Unpair, Lose, Cut, Heal, Restart
<1>7. UNCHANGED vars => UNCHANGED spent
  BY DEF vars
<1> QED
  BY <1>1, <1>2, <1>3, <1>4, <1>5, <1>6, <1>7 DEF Next

LEMMA PushedStep ==
  ASSUME [Next]_vars
  PROVE  pushed' = pushed \/ \E n \in Device : User(n) /\ pushed' = pushed \cup {n}
<1>1. ASSUME NEW n \in Device, User(n)
      PROVE  pushed' = pushed \/ pushed' = pushed \cup {n}
  BY <1>1 DEF User, UserCrosses, UserTouches, UserMoves, UserPresses, Become
<1>2. ASSUME NEW n \in Device, HandleCaptured(n) \/ Tick(n) \/ (\E m \in Device : Hear(n, m))
      PROVE  pushed' = pushed
  BY <1>2 DEF HandleCaptured, BeginReturns, BeginIgnored, BeginNobody, BeginLends,
       PointerPresses, PointerReturns, InputSent, InputIgnored, LocalInputTakesOver,
       LocalInputIgnored, Tick, Hear, Handle, Become
<1>3. ASSUME NEW m \in Device, NEW n \in Device, NEW i, HandleMessage(m, n, i)
      PROVE  pushed' = pushed
  <2>1. \E s : Answer(m, n, i, s)
    BY <1>3 DEF HandleMessage, ProbeRefused, ProbeAnswered, ProbeAcknowledged, EnterRefused,
         EnterAccepted, EnterAcknowledged, LeaveHandled, InputRefused, InputDropped,
         PointerInjected, PointerLeaves, KeyInjected, IsInjected
  <2> QED
    BY <2>1 DEF Answer
<1>4. ASSUME Environment
      PROVE  pushed' = pushed
  BY <1>4 DEF Environment, Miss, Unpair, Lose, Cut, Heal, Restart, Become
<1>5. UNCHANGED vars => pushed' = pushed
  BY DEF vars
<1> QED
  BY <1>1, <1>2, <1>3, <1>4, <1>5 DEF Next

LEMMA OneAtMost ==
  ASSUME NEW S, IsFiniteSet(S), Cardinality(S) <= 1
  PROVE  \A x, y \in S : x = y
<1>1. Cardinality(S) \in Nat
  BY FS_CardinalityType
<1>2. CASE Cardinality(S) = 0
  BY <1>2, FS_EmptySet
<1>3. CASE Cardinality(S) = 1
  <2>1. PICK x : S = {x}
    BY <1>3, FS_Singleton
  <2> QED
    BY <2>1
<1> QED
  BY <1>1, <1>2, <1>3

\* What is undisturbed now always was.
LEMMA UndisturbedBefore ==
  ASSUME SoundInv, [Next]_vars, IsFiniteSet(pushed)
  PROVE  /\ IsFiniteSet(pushed')
         /\ Undisturbed' => Undisturbed /\ OnePushed /\ OnePushed'
<1>1. pushed \subseteq pushed' /\ IsFiniteSet(pushed')
  <2>1. CASE pushed' = pushed
    BY <2>1
  <2>2. ASSUME NEW n \in Device, pushed' = pushed \cup {n}
        PROVE  pushed \subseteq pushed' /\ IsFiniteSet(pushed')
    BY <2>2, FS_AddElement
  <2>3. pushed' = pushed \/ \E n \in Device : pushed' = pushed \cup {n}
    BY PushedStep
  <2> QED
    BY <2>1, <2>2, <2>3
<1>2. \A k \in EnvironmentKind : spent[k] \in Nat /\ spent'[k] \in Nat /\ spent[k] <= spent'[k]
  BY SpentStep
<1>3. SUFFICES ASSUME Undisturbed'
               PROVE  Undisturbed /\ OnePushed /\ OnePushed'
  BY <1>1
<1>4. /\ Cardinality(pushed') <= 1 /\ Cardinality(pushed') \in Nat
      /\ Cardinality(pushed) \in Nat /\ Cardinality(pushed) <= Cardinality(pushed')
  BY <1>1, <1>3, FS_CardinalityType, FS_Subset DEF Undisturbed
<1>5. Cardinality(pushed) <= 1
  BY <1>4
<1>6. \A k \in {"lose", "overtake", "cut", "restart", "unpair"} : spent[k] = 0
  <2> TAKE k \in {"lose", "overtake", "cut", "restart", "unpair"}
  <2>1. k \in EnvironmentKind /\ spent'[k] = 0
    BY <1>3 DEF Undisturbed, EnvironmentKind
  <2> QED
    BY <1>2, <2>1
<1> QED
  BY <1>1, <1>4, <1>5, <1>6, OneAtMost DEF Undisturbed, OnePushed

LEMMA SoloInit == Init => SoloInv
<1> SUFFICES ASSUME Init PROVE IsFiniteSet(pushed) /\ Solo
  BY DEF SoloInv
<1>1. IsFiniteSet(pushed) /\ pushed = {} /\ ~cut
  BY FS_EmptySet DEF Init
<1>2. ASSUME NEW n \in Device
      PROVE  /\ Fresh(n, dev[n]) /\ Rests(dev[n])
             /\ dev[n].incoming = None /\ dev[n].takeover = None /\ dev[n].outgoing = None
  <2>1. dev[n] = Started(Device \ {n}, [p \in Device |-> <<>>])
    BY DEF Init
  <2>2. [p \in Device |-> <<>>] \in [Device -> Seq(Reply)]
    BY EmptySeq
  <2>3. /\ dev[n].outgoing = None /\ dev[n].incoming = None /\ dev[n].takeover = None
        /\ dev[n].trusted = Device \ {n} /\ dev[n].active = FALSE /\ dev[n].events = <<>>
        /\ dev[n].outbound = [p \in Device |-> <<>>]
        /\ \A p \in Device : dev[n].last_seen[p] = "gone"
    BY <2>1 DEF Started
  <2>4. Begins(dev[n]) = {}
    BY <2>3 DEF Begins
  <2> QED
    BY <2>2, <2>3, <2>4 DEF Fresh, Rests
<1>3. \A n, p \in Device : LendsTo(n, dev[n], p, dev[p])
  BY <1>2 DEF LendsTo, IsSendingTo, IsPeer
<1> QED
  BY <1>1, <1>2, <1>3 DEF Solo

LEMMA SoloStep == SoundInv /\ SoloInv /\ [Next]_vars => SoloInv'
<1> SUFFICES ASSUME SoundInv, SoloInv, [Next]_vars, Undisturbed'
             PROVE  Solo'
  BY UndisturbedBefore DEF SoloInv
<1>1. Undisturbed /\ OnePushed /\ OnePushed' /\ Solo
  BY UndisturbedBefore DEF SoloInv
<1>2. \A k \in {"lose", "overtake", "cut", "restart", "unpair"} : ~(spent'[k] > 0)
  BY <1>1 DEF Undisturbed
<1>3. \A kinds : Spend(kinds) =>
        \A k \in {"lose", "overtake", "cut", "restart", "unpair"} : k \notin kinds
  <2> SUFFICES ASSUME NEW kinds, Spend(kinds),
                      NEW k \in {"lose", "overtake", "cut", "restart", "unpair"}, k \in kinds
               PROVE  FALSE
    OBVIOUS
  <2>1. k \in EnvironmentKind
    BY DEF EnvironmentKind
  <2> QED
    BY <1>2, <2>1, SpendStep
<1>4. ~cut /\ \A n, m \in Device : n # m => Connected(n, m)
  BY <1>1 DEF Solo, Fresh, Connected
<1>5. CASE UNCHANGED vars
  BY <1>1, <1>5 DEF vars, Solo
<1>6. ASSUME NEW n \in Device, NEW t, OwnStep(n, t), cut' = cut, pushed' = pushed,
             IF n \in pushed THEN Pushing(n, t) /\ PushesOn(dev[n], t)
             ELSE Resting(n, t) /\ RestsOn(dev[n], t)
      PROVE  Solo'
  BY <1>1, <1>4, <1>6, OwnStepSolo
<1>7. ASSUME NEW n \in Device, HandleCaptured(n) \/ Tick(n) \/ (\E m \in Device : Hear(n, m))
      PROVE  Solo'
  <2>1. cut' = cut /\ pushed' = pushed
    BY <1>7 DEF HandleCaptured, BeginReturns, BeginIgnored, BeginNobody, BeginLends,
       PointerPresses, PointerReturns, InputSent, InputIgnored, LocalInputTakesOver,
       LocalInputIgnored, Tick, Hear, Handle, Become
  <2>2. IF n \in pushed THEN Pushing(n, dev[n]) ELSE Resting(n, dev[n])
    BY <1>1, SoloParts
  <2>3. CASE n \in pushed
    <3>1. \E t : OwnStep(n, t) /\ Pushing(n, t) /\ PushesOn(dev[n], t)
      BY <1>7, <2>2, <2>3, PushesHandles, PushesTicks, PushesHears
    <3> QED
      BY <1>6, <2>1, <2>3, <3>1
  <2>4. CASE n \notin pushed
    <3>1. \E t : OwnStep(n, t) /\ Resting(n, t) /\ RestsOn(dev[n], t)
      BY <1>7, <2>2, <2>4, RestsHandles, RestsTicks, RestsHears
    <3> QED
      BY <1>6, <2>1, <2>4, <3>1
  <2> QED
    BY <2>3, <2>4
<1>8. ASSUME NEW n \in Device, User(n)
      PROVE  Solo'
  <2>1. IF n \in pushed THEN Pushing(n, dev[n]) ELSE Resting(n, dev[n])
    BY <1>1, SoloParts
  <2>2. cut' = cut
    BY <1>8 DEF User, UserCrosses, UserTouches, UserMoves, UserPresses, Become
  <2>3. CASE pushed' # pushed
    BY <1>1, <1>8, <2>3, CrossesSolo
  <2>4. CASE pushed' = pushed /\ n \in pushed
    <3>1. \E t : OwnStep(n, t) /\ Pushing(n, t) /\ PushesOn(dev[n], t)
      BY <1>8, <2>1, <2>4, PushesUser
    <3> QED
      BY <1>6, <2>2, <2>4, <3>1
  <2>5. CASE pushed' = pushed /\ n \notin pushed
    <3>1. Resting(n, dev[n]) /\ ~dev[n].active
      BY <2>1, <2>5 DEF Resting, Rests
    <3>2. UserTouches(n)
      BY <1>8, <2>5, <3>1 DEF User, UserCrosses, UserMoves, UserPresses
    <3>3. \E t : OwnStep(n, t) /\ Resting(n, t) /\ RestsOn(dev[n], t)
      BY <3>1, <3>2, RestsTouched
    <3> QED
      BY <1>6, <2>2, <2>5, <3>3
  <2> QED
    BY <2>3, <2>4, <2>5
<1>9. ASSUME NEW m \in Device, NEW n \in Device, NEW i, HandleMessage(m, n, i)
      PROVE  Solo'
  <2>1. Delivers(m, n, i) /\ \E s : Answer(m, n, i, s)
    BY <1>9 DEF HandleMessage, ProbeRefused, ProbeAnswered, ProbeAcknowledged, EnterRefused,
         EnterAccepted, EnterAcknowledged, LeaveHandled, InputRefused, InputDropped,
         PointerInjected, PointerLeaves, KeyInjected, IsInjected
  <2>2. cut' = cut /\ pushed' = pushed
    BY <2>1 DEF Answer
  <2>3. i = 1
    BY <1>3, <2>1 DEF Delivers
  <2> QED
    BY <1>1, <1>4, <1>9, <2>2, <2>3, MessageSolo
<1>10. CASE Environment
  <2>1. ~Cut /\ ~Heal /\ \A n \in Device : ~Restart(n)
    BY <1>3, <1>4 DEF Cut, Heal, Restart
  <2>2. \A n, m \in Device : ~Unpair(n, m)
    BY <1>3 DEF Unpair
  <2>3. \A n, m \in Device : ~Miss(n, m)
    BY <1>3, <1>4 DEF Miss
  <2>4. ASSUME NEW m \in Device, NEW n \in Device, NEW i \in DOMAIN dev[m].outbound[n],
               Lose(m, n, i)
        PROVE  Solo'
    <3>1. ~Connected(m, n)
      BY <1>3, <2>4 DEF Lose
    <3>2. m = n
      BY <1>4, <3>1
    <3> QED
      BY <1>1, <2>4, <3>2, LoseSolo
  <2> QED
    BY <1>10, <2>1, <2>2, <2>3, <2>4 DEF Environment
<1> QED
  BY <1>5, <1>7, <1>8, <1>9, <1>10 DEF Next

\* While one user pushes and nothing goes wrong, what is captured when all is
\* quiet goes into a session at the peer.
THEOREM WhatIsCapturedIsBorrowed == Spec => []CapturedIsBorrowed
<1>1. SoundInv /\ SoloInv => CapturedIsBorrowed
  <2> SUFFICES ASSUME SoundInv, Solo, Quiet, NEW n \in Device
               PROVE  /\ dev[n].active => IsReady(dev[n])
                      /\ IsReady(dev[n]) =>
                           /\ dev[n].active
                           /\ dev[dev[n].outgoing.peer].incoming =
                                [peer |-> n, edge |-> Opposite[dev[n].outgoing.edge]]
    BY DEF SoloInv, CapturedIsBorrowed, CapturedToSend
  <2>1. CASE n \notin pushed
    <3>1. Resting(n, dev[n])
      BY <2>1, SoloParts
    <3> QED
      BY <3>1 DEF Resting, Rests, IsReady
  <2>2. CASE n \in pushed
    <3> DEFINE s == dev[n]
               p == s.outgoing.peer
               e == Opposite[s.outgoing.edge]
    <3>1. Pushing(n, s)
      BY <2>2, SoloParts
    <3>2. Begins(s) = {}
      BY DEF Quiet, Begins
    <3>3. s.active <=> s.outgoing # None
      BY <3>1, <3>2 DEF Pushing, Pushes
    <3>4. SUFFICES ASSUME s.outgoing # None
                   PROVE  s.outgoing.kind = "sending" /\ s.outgoing.ready /\
                          dev[p].incoming = [peer |-> n, edge |-> e]
      BY <3>3 DEF IsReady
    <3>5. s.outgoing.kind = "sending" /\ p \in Device
      <4>1. Sound(s) /\ ~IsProbing(s)
        BY <3>1 DEF Pushing, Quiet
      <4> QED
        BY <3>4, <4>1, SessionTypes DEF Sound, State, Probing, Sending, IsProbing
    <3>6. LendsTo(n, s, p, dev[p]) /\ IsSendingTo(s, p)
      BY <3>4, <3>5 DEF Solo, IsSendingTo, IsPeer
    <3>7. s.outbound[p] = <<>> /\ dev[p].outbound[n] = <<>>
      BY <3>5 DEF Quiet
    <3>8. \A kind : ~Says(<<>>, kind) /\ ~EnterComes(<<>>, e)
      BY DEF Says, EnterComes
    <3>9. \/ Says(dev[p].outbound[n], "leave")
          \/ EnterComes(s.outbound[p], e)
          \/ /\ dev[p].incoming = [peer |-> n, edge |-> e]
             /\ s.outgoing.ready \/ Says(dev[p].outbound[n], "ack")
      BY <3>6 DEF LendsTo
    <3> QED
      BY <3>5, <3>7, <3>8, <3>9
  <2> QED
    BY <2>1, <2>2
<1>2. Spec => []SoloInv
  BY SoloInit, SoloStep, SoundAlways, PTL DEF Spec
<1> QED
  BY <1>1, <1>2, SoundAlways, PTL
=============================================================================
