----------------------------- MODULE WaylandProofs -----------------------------
(***************************************************************************)
(* Proofs about the two threads on Wayland.  About WaylandCapture, for     *)
(* every set of edges and all Budgets: its types, that one edge at most    *)
(* owns the pointer and the keyboard, and that what is captured is lent    *)
(* once the loop has seen it.  About WaylandClipboard, an instance of its  *)
(* own, for all Budgets: nothing a peer sent is reported as a copy.        *)
(***************************************************************************)
EXTENDS WaylandCapture, SequenceTheorems, TLAPS

\* What the thread keeps of its lock: OneEdgeOwnsInput, and that an edge that waits
\* for the compositor's answer counts as locked already.
LockSound(s) ==
  /\ s \in CaptureState
  /\ s.locked_pointer <=> constraint_edge(s) # None
  /\ s.exclusive \subseteq {constraint_edge(s)}
  /\ s.pending_edge # None => s.locked_edge = s.pending_edge

LockInv == TypeOK /\ LockSound(state)

----------------------------------------------------------------------------
(* What the handlers are made of *)

LEMMA ConstraintType ==
  ASSUME NEW s \in CaptureState
  PROVE  constraint_edge(s) \in MaybeEdge
BY DEF CaptureState, constraint_edge, MaybeEdge

\* Whatever was locked: nothing is afterwards.
LEMMA ResetSound ==
  ASSUME NEW s, LockSound(s), s.current_edge = None
  PROVE  LockSound(reset_lock(s))
<1>1. reset_lock(s) \in CaptureState
  BY DEF LockSound, CaptureState, reset_lock, MaybeEdge
<1> QED
  BY <1>1 DEF LockSound, CaptureState, reset_lock, constraint_edge

LEMMA FreedSound ==
  ASSUME NEW s, LockSound(s)
  PROVE  LockSound(Freed(s))
<1>1. reset_lock(s) \in CaptureState /\ Freed(s) \in CaptureState
  BY DEF LockSound, CaptureState, reset_lock, Freed, MaybeEdge
<1> QED
  BY <1>1 DEF LockSound, CaptureState, reset_lock, Freed, constraint_edge

\* Nothing but the lock and the keyboard tells of an edge.
LEMMA RequestSound ==
  ASSUME NEW s, LockSound(s), NEW e \in Edge
  PROVE  LockSound(request_lock(s, e))
<1>1. CASE ~MayRequest(s, e)
  BY <1>1 DEF request_lock
<1>2. CASE MayRequest(s, e)
  <2>1. s.exclusive = {}
    BY <1>2, NoneAssumption DEF MayRequest, LockSound, CaptureState, constraint_edge
  <2>2. request_lock(s, e) \in CaptureState
    BY <1>2 DEF LockSound, CaptureState, request_lock, MaybeEdge
  <2> QED
    BY <1>2, <2>1, <2>2, NoneAssumption
       DEF LockSound, CaptureState, MayRequest, request_lock, constraint_edge
<1> QED
  BY <1>1, <1>2

LEMMA HoveredSound ==
  ASSUME NEW s, LockSound(s), NEW e \in MaybeEdge
  PROVE  LockSound([s EXCEPT !.hovered = e])
<1>1. [s EXCEPT !.hovered = e] \in CaptureState
  BY DEF LockSound, CaptureState
<1> QED
  BY <1>1 DEF LockSound, CaptureState, constraint_edge

LEMMA BeginSound ==
  ASSUME NEW s, LockSound(s), s.current_edge = None,
         NEW e \in Edge, s.locked_edge = e
  PROVE  LockSound(begin_capture(s, e))
<1>1. begin_capture(s, e) \in CaptureState
  BY DEF LockSound, CaptureState, begin_capture, MaybeEdge
<1> QED
  BY <1>1, NoneAssumption DEF LockSound, CaptureState, begin_capture, constraint_edge

----------------------------------------------------------------------------
(* Every step *)

LEMMA ThreadSound ==
  ASSUME LockInv, Compositor \/ sync_release
  PROVE  LockSound(state')
<1>1. LockSound(state) /\ state \in CaptureState
  BY DEF LockInv, LockSound
<1>2. ASSUME NEW e \in Edge, PointerEnter(e)
      PROVE  LockSound(state')
  BY <1>1, <1>2, HoveredSound, RequestSound DEF PointerEnter, Becomes, MaybeEdge
<1>3. ASSUME NEW e \in Edge, Closed(e)
      PROVE  LockSound(state')
  <2> DEFINE t == [state EXCEPT !.layers = @ \ {e}, !.exclusive = @ \ {e}]
  <2>1. t \in CaptureState
    BY <1>1 DEF CaptureState
  <2>2. LockSound(t)
    BY <1>1, <2>1 DEF LockSound, CaptureState, constraint_edge
  <2> QED
    BY <1>3, <2>2 DEF Closed, Becomes
<1>4. CASE PointerLeave
  <2> DEFINE t == [state EXCEPT !.hovered = None]
  <2>1. LockSound(t) /\ t.current_edge = state.current_edge
    BY <1>1, HoveredSound DEF MaybeEdge, CaptureState
  <2> HIDE DEF t
  <2>2. \/ state' = state
        \/ state' = t
        \/ state.current_edge = None /\ state' = reset_lock(t)
    BY <1>4 DEF PointerLeave, Becomes, IsCapturing, t
  <2> QED
    BY <1>1, <2>1, <2>2, ResetSound
<1>5. CASE OutwardBegins
  <2>1. MovedEdge \in Edge /\ state.current_edge = None /\ state.locked_edge = MovedEdge
    BY <1>1, <1>5 DEF OutwardBegins, Moves, IsCapturing, CaptureState
  <2> QED
    BY <1>1, <1>5, <2>1, BeginSound DEF OutwardBegins, Becomes
<1>6. CASE OutwardLocks
  <2>1. MovedEdge \in Edge
    BY <1>1, <1>6, ConstraintType DEF OutwardLocks, Moves, MovedEdge, CaptureState, MaybeEdge
  <2> QED
    BY <1>1, <1>6, <2>1, RequestSound DEF OutwardLocks, Becomes
<1>7. CASE OutwardOfNoSurface \/ Inward \/ SyncDisallowed \/ SyncIdle
  BY <1>1, <1>7, ResetSound
     DEF OutwardOfNoSurface, Inward, SyncDisallowed, SyncIdle, Moves, IsCapturing, Becomes
<1>8. CASE InputCaptured
  BY <1>1, <1>8 DEF InputCaptured
<1>9. CASE Locked
  <2> DEFINE t == [state EXCEPT !.locked_edge = state.pending_edge, !.pending_edge = None,
                                !.lock_activated = TRUE]
  <2>1. t \in CaptureState
    BY <1>1 DEF CaptureState, MaybeEdge
  <2>2. LockSound(t)
    BY <1>1, <1>9, <2>1 DEF Locked, LockSound, CaptureState, constraint_edge
  <2> QED
    BY <1>9, <2>2 DEF Locked, Becomes
<1>10. CASE Unlocked
  BY <1>1, <1>10, FreedSound DEF Unlocked, Becomes
<1>11. CASE PointerRemoved \/ PointerAdded
  <2>1. PICK here \in BOOLEAN : state' = [state EXCEPT !.pointer = here]
    BY <1>11 DEF PointerRemoved, PointerAdded, Becomes
  <2>2. state' \in CaptureState
    BY <1>1, <2>1 DEF CaptureState
  <2> QED
    BY <1>1, <2>1, <2>2 DEF LockSound, CaptureState, constraint_edge
<1>12. CASE SyncReleased
  <2> DEFINE t == [state EXCEPT !.current_edge = None, !.exclusive = @ \ {state.current_edge}]
  <2>1. t \in CaptureState
    BY <1>1 DEF CaptureState, MaybeEdge
  <2>2. t.exclusive = {}
    BY <1>1, <1>12 DEF SyncReleased, IsCapturing, LockSound, CaptureState, constraint_edge
  <2>3. reset_lock(t) \in CaptureState
    BY <2>1 DEF CaptureState, reset_lock, MaybeEdge
  <2>4. t.current_edge = None
    BY <1>1 DEF CaptureState
  <2>5. state' = reset_lock(t)
    BY <1>12 DEF SyncReleased, Becomes
  <2> HIDE DEF t
  <2> QED
    BY <2>1, <2>2, <2>3, <2>4, <2>5 DEF LockSound, CaptureState, reset_lock, constraint_edge
<1> QED
  BY <1>2, <1>3, <1>4, <1>5, <1>6, <1>7, <1>8, <1>9, <1>10, <1>11, <1>12 DEF Compositor, sync_release

LEMMA ServiceKeepsState ==
  ASSUME TakeEvent \/ LendingEnds \/ BorrowingEnds \/ (\E e \in Edge : Entered(e))
           \/ (\E edges \in SUBSET Edge : TickEdges(edges)) \/ UserTouches
  PROVE  state' = state
BY DEF TakeEvent, BeginReturns, BeginIgnored, BeginNobody, BeginLends, InputTaken, InputReturns,
       LostTaken, LocalInputTaken, Takes, LendingEnds, BorrowingEnds, Entered, TickEdges,
       UserTouches, Goes

LEMMA StateStep ==
  ASSUME LockInv, [Next]_vars
  PROVE  LockSound(state')
<1>1. CASE UNCHANGED vars
  BY <1>1 DEF vars, LockInv
<1> QED
  BY <1>1, ThreadSound, ServiceKeepsState DEF Next, LockInv

\* The queue.
LEMMA EventsStep ==
  ASSUME LockInv, [Next]_vars
  PROVE  events' \in Seq(CaptureEvent)
<1>1. events \in Seq(CaptureEvent) /\ state \in CaptureState
  BY DEF LockInv, TypeOK
<1>2. CASE UNCHANGED events
  BY <1>1, <1>2
<1>3. CASE events # <<>> /\ events' = Tail(events)
  BY <1>1, <1>3, HeadTailProperties
<1>4. ASSUME NEW kind \in {"input", "localInput", "captureLost"}, Says(kind)
      PROVE  events' \in Seq(CaptureEvent)
  <2>1. [kind |-> kind] \in CaptureEvent
    BY DEF CaptureEvent
  <2> QED
    BY <1>1, <1>4, <2>1, AppendProperties DEF Says
<1>5. CASE OutwardBegins
  <2> DEFINE both == <<[kind |-> "begin", edge |-> MovedEdge], [kind |-> "input"]>>
  <2>1. MovedEdge \in Edge
    BY <1>1, <1>5 DEF OutwardBegins, Moves, CaptureState
  <2>2. [kind |-> "begin", edge |-> MovedEdge] \in CaptureEvent /\ [kind |-> "input"] \in CaptureEvent
    BY <2>1 DEF CaptureEvent
  <2>3. both \in Seq(CaptureEvent)
    BY <2>2
  <2>4. events' = events \o both
    BY <1>5 DEF OutwardBegins
  <2> QED
    BY <1>1, <2>3, <2>4, ConcatProperties
<1>6. Compositor /\ ~OutwardBegins =>
        UNCHANGED events \/ \E kind \in {"input", "localInput", "captureLost"} : Says(kind)
  BY DEF Compositor, PointerEnter, Closed, PointerLeave, OutwardLocks, OutwardOfNoSurface,
         Inward, InputCaptured, Locked, Unlocked, PointerRemoved, PointerAdded, Quietly
<1>7. sync_release => UNCHANGED events
  BY DEF sync_release, SyncReleased, SyncDisallowed, SyncIdle, Quietly
<1>8. TakeEvent => events # <<>> /\ events' = Tail(events)
  BY DEF TakeEvent, BeginReturns, BeginIgnored, BeginNobody, BeginLends, InputTaken,
         InputReturns, LostTaken, LocalInputTaken, Takes, NextIs
<1>9. ASSUME LendingEnds \/ BorrowingEnds \/ (\E e \in Edge : Entered(e))
               \/ (\E edges \in SUBSET Edge : TickEdges(edges))
      PROVE  UNCHANGED events
  BY <1>9 DEF LendingEnds, BorrowingEnds, Entered, TickEdges, Goes
<1>10. UserTouches => Says("localInput")
  BY DEF UserTouches
<1> QED
  BY <1>2, <1>3, <1>4, <1>5, <1>6, <1>7, <1>8, <1>9, <1>10 DEF Next, vars

\* What the thread shares with the loop, and what each has of its own.
LEMMA RestStep ==
  ASSUME LockInv, [Next]_vars
  PROVE  /\ active' \in BOOLEAN /\ allowed_edges' \subseteq Edge
         /\ over' \in MaybeEdge
         /\ outgoing' \in BOOLEAN /\ incoming' \in MaybeEdge
         /\ spent' \in [EnvironmentKind -> Nat]
<1>1. /\ active \in BOOLEAN /\ allowed_edges \subseteq Edge
      /\ over \in MaybeEdge
      /\ outgoing \in BOOLEAN /\ incoming \in MaybeEdge
      /\ spent \in [EnvironmentKind -> Nat]
  BY DEF LockInv, TypeOK
<1>2. \A kind \in EnvironmentKind : Spend(kind) => spent' \in [EnvironmentKind -> Nat]
  BY <1>1 DEF Spend
<1>3. CASE UNCHANGED vars
  BY <1>1, <1>3 DEF vars, shared, session
<1>4. CASE Compositor
  BY <1>1, <1>2, <1>4
     DEF Compositor, PointerEnter, Closed, PointerLeave, OutwardBegins, OutwardLocks,
         OutwardOfNoSurface, Inward, InputCaptured, Locked, Unlocked, PointerRemoved,
         PointerAdded, Quietly, Becomes, Activates, shared, session, MaybeEdge, EnvironmentKind
<1>5. CASE sync_release
  BY <1>1, <1>5 DEF sync_release, SyncReleased, SyncDisallowed, SyncIdle, Quietly, Becomes,
                    shared, session
<1>6. CASE TakeEvent
  BY <1>1, <1>6
     DEF TakeEvent, BeginReturns, BeginIgnored, BeginNobody, BeginLends, InputTaken,
         InputReturns, LostTaken, LocalInputTaken, Takes, release, releaseUnwanted,
         allow_all_edges, shared, session, MaybeEdge
<1>7. CASE \/ LendingEnds \/ BorrowingEnds \/ \E e \in Edge : Entered(e)
           \/ \E edges \in SUBSET Edge : TickEdges(edges)
  BY <1>1, <1>2, <1>7
     DEF LendingEnds, BorrowingEnds, Entered, TickEdges, Goes, release, AllowOnly,
         allow_all_edges, session, MaybeEdge, EnvironmentKind
<1>8. CASE UserTouches
  BY <1>1, <1>2, <1>8 DEF UserTouches, shared, session, EnvironmentKind
<1> QED
  BY <1>3, <1>4, <1>5, <1>6, <1>7, <1>8 DEF Next

LEMMA LockInit == Init => LockInv
<1> SUFFICES ASSUME Init PROVE LockInv
  OBVIOUS
<1>1. state \in CaptureState
  BY DEF Init, CaptureState, MaybeEdge
<1>2. LockSound(state)
  BY <1>1 DEF Init, LockSound, constraint_edge
<1>3. events \in Seq(CaptureEvent)
  BY EmptySeq DEF Init
<1> QED
  BY <1>1, <1>2, <1>3 DEF Init, LockInv, TypeOK, MaybeEdge

LEMMA LockStep == LockInv /\ [Next]_vars => LockInv'
<1> SUFFICES ASSUME LockInv, [Next]_vars PROVE LockInv'
  OBVIOUS
<1>1. LockSound(state')
  BY StateStep
<1> QED
  BY <1>1, EventsStep, RestStep DEF LockInv, TypeOK, LockSound

THEOREM LockCorrect == Spec => []LockInv
BY LockInit, LockStep, PTL DEF Spec

\* The state of the capture thread, the atomics and the queue have their types.
THEOREM TypeCorrect == Spec => []TypeOK
<1>1. LockInv => TypeOK
  BY DEF LockInv
<1> QED
  BY <1>1, LockCorrect, PTL

\* One edge at most owns the pointer and the keyboard, and it has the lock.
THEOREM OneOwner == Spec => []OneEdgeOwnsInput
<1>1. LockInv => OneEdgeOwnsInput
  BY DEF LockInv, LockSound, OneEdgeOwnsInput
<1> QED
  BY <1>1, LockCorrect, PTL

----------------------------------------------------------------------------
(* What is captured is lent *)

HasBegin(q) == \E i \in 1..Len(q) : q[i].kind = "begin"
OneBegin(q) == \A i, j \in 1..Len(q) : q[i].kind = "begin" /\ q[j].kind = "begin" => i = j
LosesNothing(q) == \A i \in 1..Len(q) : q[i].kind # "captureLost"

\* A capture that has not been released and is not lent has its Begin in the
\* queue; and if no lock is taken away, a Begin in the queue is that of the
\* capture there is, which nothing ends before the loop has taken it.
LentInv ==
  /\ LockInv
  /\ spent["enter"] = 0 =>
       /\ incoming = None
       /\ IsCapturing /\ active /\ ~outgoing => HasBegin(events)
  /\ spent["enter"] = 0 /\ spent["unlock"] = 0 =>
       /\ OneBegin(events) /\ LosesNothing(events)
       /\ HasBegin(events) => IsCapturing /\ active /\ ~outgoing
       /\ outgoing => IsCapturing /\ active

LEMMA TailOf ==
  ASSUME NEW S, NEW q \in Seq(S), q # <<>>
  PROVE  /\ Len(q) \in Nat /\ Len(q) >= 1
         /\ Len(Tail(q)) = Len(q) - 1
         /\ \A i \in 1..Len(Tail(q)) : Tail(q)[i] = q[i + 1]
         /\ Head(q) = q[1]
BY HeadTailProperties, LenProperties, EmptySeq

LEMMA TailBegins ==
  ASSUME NEW q \in Seq(CaptureEvent), q # <<>>
  PROVE  /\ HasBegin(Tail(q)) => HasBegin(q)
         /\ OneBegin(q) => OneBegin(Tail(q))
         /\ LosesNothing(q) => LosesNothing(Tail(q)) /\ Head(q).kind # "captureLost"
         /\ Head(q).kind # "begin" /\ HasBegin(q) => HasBegin(Tail(q))
         /\ Head(q).kind = "begin" => HasBegin(q)
         /\ Head(q).kind = "begin" /\ OneBegin(q) => ~HasBegin(Tail(q))
<1>1. /\ Len(q) \in Nat /\ Len(q) >= 1
      /\ Len(Tail(q)) = Len(q) - 1
      /\ \A i \in 1..Len(Tail(q)) : Tail(q)[i] = q[i + 1]
      /\ Head(q) = q[1]
  BY TailOf
<1>2. \A i \in 1..Len(Tail(q)) : i + 1 \in 1..Len(q) /\ Tail(q)[i] = q[i + 1]
  BY <1>1
<1>3. \A i \in 1..Len(q) : \/ i = 1
                           \/ i - 1 \in 1..Len(Tail(q)) /\ Tail(q)[i - 1] = q[i]
  BY <1>1
<1>4. 1 \in 1..Len(q)
  BY <1>1
<1>5. HasBegin(Tail(q)) => HasBegin(q)
  BY <1>2 DEF HasBegin
<1>6. OneBegin(q) => OneBegin(Tail(q))
  <2> SUFFICES ASSUME OneBegin(q), NEW i \in 1..Len(Tail(q)), NEW j \in 1..Len(Tail(q)),
                      Tail(q)[i].kind = "begin", Tail(q)[j].kind = "begin"
               PROVE  i = j
    BY DEF OneBegin
  <2>1. i + 1 = j + 1
    BY <1>2 DEF OneBegin
  <2> QED
    BY <1>1, <2>1
<1>7. LosesNothing(q) => LosesNothing(Tail(q)) /\ Head(q).kind # "captureLost"
  BY <1>1, <1>2, <1>4 DEF LosesNothing
<1>8. Head(q).kind # "begin" /\ HasBegin(q) => HasBegin(Tail(q))
  BY <1>1, <1>3 DEF HasBegin
<1>9. Head(q).kind = "begin" => HasBegin(q)
  BY <1>1, <1>4 DEF HasBegin
<1>10. ASSUME Head(q).kind = "begin", OneBegin(q), HasBegin(Tail(q))
       PROVE  FALSE
  <2>1. PICK i \in 1..Len(Tail(q)) : Tail(q)[i].kind = "begin"
    BY <1>10 DEF HasBegin
  <2>2. i + 1 = 1
    BY <1>1, <1>2, <1>4, <1>10, <2>1 DEF OneBegin
  <2> QED
    BY <1>1, <2>2
<1> QED
  BY <1>5, <1>6, <1>7, <1>8, <1>9, <1>10

LEMMA AppendBegins ==
  ASSUME NEW q \in Seq(CaptureEvent), NEW event \in CaptureEvent, event.kind # "begin"
  PROVE  /\ HasBegin(Append(q, event)) <=> HasBegin(q)
         /\ OneBegin(q) => OneBegin(Append(q, event))
         /\ LosesNothing(q) /\ event.kind # "captureLost" => LosesNothing(Append(q, event))
<1>1. /\ Len(q) \in Nat
      /\ Len(Append(q, event)) = Len(q) + 1
      /\ \A i \in 1..Len(q) : Append(q, event)[i] = q[i]
      /\ Append(q, event)[Len(q) + 1] = event
  BY AppendProperties, LenProperties
<1>2. \A i \in 1..Len(Append(q, event)) : i \in 1..Len(q) \/ i = Len(q) + 1
  BY <1>1
<1>3. 1..Len(q) \subseteq 1..Len(Append(q, event))
  BY <1>1
<1> QED
  BY <1>1, <1>2, <1>3 DEF HasBegin, OneBegin, LosesNothing

LEMMA BeginBegins ==
  ASSUME NEW q \in Seq(CaptureEvent), NEW e
  PROVE  LET both == q \o <<[kind |-> "begin", edge |-> e], [kind |-> "input"]>>
         IN  /\ HasBegin(both)
             /\ ~HasBegin(q) => OneBegin(both)
             /\ LosesNothing(q) => LosesNothing(both)
<1> DEFINE pair == <<[kind |-> "begin", edge |-> e], [kind |-> "input"]>>
           both == q \o pair
<1>1. /\ Len(q) \in Nat
      /\ Len(both) = Len(q) + 2
      /\ \A i \in 1..Len(both) :
           both[i].kind = IF i <= Len(q) THEN q[i].kind ELSE IF i = Len(q) + 1 THEN "begin" ELSE "input"
  <2>1. Len(q) \in Nat
    BY LenProperties
  <2>2. Len(pair) = 2 /\ pair[1].kind = "begin" /\ pair[2].kind = "input"
    OBVIOUS
  <2>3. Len(both) = Len(q) + 2
    BY <2>1, <2>2
  <2>4. \A i \in 1..Len(both) : both[i] = IF i <= Len(q) THEN q[i] ELSE pair[i - Len(q)]
    BY <2>1, <2>2
  <2>5. ASSUME NEW i \in 1..Len(both)
        PROVE  i <= Len(q) \/ i - Len(q) = 1 \/ i - Len(q) = 2
    BY <2>1, <2>3
  <2> HIDE DEF pair, both
  <2> QED
    BY <2>1, <2>2, <2>3, <2>4, <2>5
<1> HIDE DEF both
<1>2. HasBegin(both)
  <2>1. Len(q) + 1 \in 1..Len(both) /\ both[Len(q) + 1].kind = "begin"
    BY <1>1
  <2> QED
    BY <2>1 DEF HasBegin
<1>3. ~HasBegin(q) => OneBegin(both)
  <2>1. ~HasBegin(q) => \A i \in 1..Len(both) : both[i].kind = "begin" => i = Len(q) + 1
    BY <1>1 DEF HasBegin
  <2> QED
    BY <2>1 DEF OneBegin
<1>4. LosesNothing(q) => LosesNothing(both)
  BY <1>1 DEF LosesNothing
<1> QED
  BY <1>2, <1>3, <1>4 DEF both

LEMMA LentInit == Init => LentInv
<1> SUFFICES ASSUME Init PROVE LentInv
  OBVIOUS
<1>1. LockInv
  BY LockInit
<1>2. /\ events = <<>> /\ incoming = None /\ outgoing = FALSE /\ active = FALSE
  BY DEF Init
<1>3. Len(events) = 0
  BY <1>2
<1>4. ~HasBegin(events) /\ OneBegin(events) /\ LosesNothing(events)
  BY <1>3 DEF HasBegin, OneBegin, LosesNothing
<1> QED
  BY <1>1, <1>2, <1>4 DEF LentInv

\* What the environment has spent stays spent.
LEMMA SpentStep ==
  ASSUME LockInv, [Next]_vars
  PROVE  /\ spent["enter"] \in Nat /\ spent["unlock"] \in Nat
         /\ spent'["enter"] = 0 => spent["enter"] = 0
         /\ spent'["unlock"] = 0 => spent["unlock"] = 0
<1>1. spent \in [EnvironmentKind -> Nat]
  BY DEF LockInv, TypeOK
<1>2. "enter" \in EnvironmentKind /\ "unlock" \in EnvironmentKind
  BY DEF EnvironmentKind
<1>3. \A kind \in EnvironmentKind : Spend(kind) =>
        \A k \in EnvironmentKind : spent'[k] = 0 => spent[k] = 0
  BY <1>1 DEF Spend
<1>4. spent' = spent \/ \E kind \in EnvironmentKind : Spend(kind)
  <2>1. CASE UNCHANGED vars
    BY <2>1 DEF vars
  <2>2. CASE Compositor
    BY <2>2 DEF Compositor, PointerEnter, Closed, PointerLeave, OutwardBegins, OutwardLocks,
         OutwardOfNoSurface, Inward, InputCaptured, Locked, Unlocked, PointerRemoved,
         PointerAdded, Quietly, EnvironmentKind
  <2>3. CASE sync_release
    BY <2>3 DEF sync_release, SyncReleased, SyncDisallowed, SyncIdle, Quietly
  <2>4. CASE TakeEvent
    BY <2>4 DEF TakeEvent, BeginReturns, BeginIgnored, BeginNobody, BeginLends, InputTaken,
         InputReturns, LostTaken, LocalInputTaken, Takes
  <2>5. CASE \/ LendingEnds \/ BorrowingEnds \/ \E e \in Edge : Entered(e)
             \/ \E edges \in SUBSET Edge : TickEdges(edges)
    BY <2>5 DEF LendingEnds, BorrowingEnds, Entered, TickEdges, EnvironmentKind
  <2>6. CASE UserTouches
    BY <2>6 DEF UserTouches, EnvironmentKind
  <2> QED
    BY <2>1, <2>2, <2>3, <2>4, <2>5, <2>6 DEF Next
<1> QED
  BY <1>1, <1>2, <1>3, <1>4

\* The second half of LentInv, of the variables it is about.
Lent(capturing, released, lending, entering, queue, enter, unlock) ==
  /\ enter = 0 =>
       /\ entering = None
       /\ capturing /\ ~released /\ ~lending => HasBegin(queue)
  /\ enter = 0 /\ unlock = 0 =>
       /\ OneBegin(queue) /\ LosesNothing(queue)
       /\ HasBegin(queue) => capturing /\ ~released /\ ~lending
       /\ lending => capturing /\ ~released

LentNow == Lent(IsCapturing, ~active, outgoing, incoming, events, spent["enter"], spent["unlock"])

LEMMA LentIs == LentInv <=> LockInv /\ LentNow
BY DEF LentInv, LentNow, Lent

\* What leaves the capture, the queue and the loop alone keeps it.
LEMMA LentKept ==
  ASSUME LockInv, LentNow, [Next]_vars,
         state'.current_edge = state.current_edge,
         UNCHANGED <<active, outgoing, incoming, events>>
  PROVE  LentNow'
BY SpentStep DEF LentNow, Lent, IsCapturing

LEMMA ResetKeepsEdge ==
  ASSUME NEW s \in CaptureState
  PROVE  reset_lock(s).current_edge = s.current_edge
BY DEF reset_lock, CaptureState

LEMMA RequestKeepsEdge ==
  ASSUME NEW s \in CaptureState, NEW e
  PROVE  request_lock(s, e).current_edge = s.current_edge
BY DEF request_lock, CaptureState

LEMMA LentQuiet ==
  ASSUME LockInv, LentNow, [Next]_vars,
         \/ \E e \in Edge : PointerEnter(e) \/ Closed(e)
         \/ PointerLeave \/ OutwardLocks \/ OutwardOfNoSurface \/ Inward
         \/ Locked \/ PointerRemoved \/ PointerAdded
         \/ SyncDisallowed \/ SyncIdle
  PROVE  LentNow'
<1>1. state \in CaptureState
  BY DEF LockInv, TypeOK
<1>2. UNCHANGED <<active, outgoing, incoming, events>>
  BY DEF PointerEnter, Closed, PointerLeave, OutwardLocks, OutwardOfNoSurface, Inward, Locked,
         PointerRemoved, PointerAdded, SyncDisallowed, SyncIdle, Becomes, Quietly, shared, session
<1>3. state'.current_edge = state.current_edge
  <2>1. ASSUME NEW e \in Edge, PointerEnter(e) PROVE state'.current_edge = state.current_edge
    <3>1. [state EXCEPT !.hovered = e] \in CaptureState
      BY <1>1 DEF CaptureState, MaybeEdge
    <3> QED
      BY <1>1, <2>1, <3>1, RequestKeepsEdge DEF PointerEnter, Becomes, CaptureState
  <2>2. ASSUME PointerLeave PROVE state'.current_edge = state.current_edge
    <3>1. [state EXCEPT !.hovered = None] \in CaptureState
      BY <1>1 DEF CaptureState, MaybeEdge
    <3> QED
      BY <1>1, <2>2, <3>1, ResetKeepsEdge DEF PointerLeave, Becomes, CaptureState
  <2>3. ASSUME OutwardLocks PROVE state'.current_edge = state.current_edge
    BY <1>1, <2>3, RequestKeepsEdge DEF OutwardLocks, Becomes
  <2>4. ASSUME OutwardOfNoSurface \/ Inward \/ SyncDisallowed \/ SyncIdle
        PROVE  state'.current_edge = state.current_edge
    BY <1>1, <2>4, ResetKeepsEdge DEF OutwardOfNoSurface, Inward, SyncDisallowed, SyncIdle, Becomes
  <2>5. ASSUME Locked \/ PointerRemoved \/ PointerAdded \/ \E e \in Edge : Closed(e)
        PROVE  state'.current_edge = state.current_edge
    BY <1>1, <2>5 DEF Locked, PointerRemoved, PointerAdded, Closed, Becomes, CaptureState
  <2> QED
    BY <2>1, <2>2, <2>3, <2>4, <2>5
<1> QED
  BY <1>2, <1>3, LentKept

LEMMA LentBegins ==
  ASSUME LockInv, LentNow, [Next]_vars, OutwardBegins
  PROVE  LentNow'
<1>1. /\ state \in CaptureState /\ events \in Seq(CaptureEvent)
      /\ active \in BOOLEAN /\ outgoing \in BOOLEAN
  BY DEF LockInv, TypeOK
<1> DEFINE both == events \o <<[kind |-> "begin", edge |-> MovedEdge], [kind |-> "input"]>>
<1>2. /\ ~IsCapturing /\ active' /\ events' = both
      /\ state' = begin_capture(state, MovedEdge) /\ MovedEdge # None
      /\ UNCHANGED <<outgoing, incoming>>
  BY DEF OutwardBegins, Moves, Becomes, Activates, session
<1>3. IsCapturing'
  BY <1>1, <1>2 DEF IsCapturing, begin_capture, CaptureState
<1>4. /\ HasBegin(both)
      /\ ~HasBegin(events) => OneBegin(both)
      /\ LosesNothing(events) => LosesNothing(both)
  BY <1>1, BeginBegins
<1> HIDE DEF both
<1>5. /\ spent["enter"] \in Nat /\ spent["unlock"] \in Nat
      /\ spent'["enter"] = 0 => spent["enter"] = 0
      /\ spent'["unlock"] = 0 => spent["unlock"] = 0
  BY SpentStep
<1> QED
  BY <1>2, <1>3, <1>4, <1>5 DEF LentNow, Lent

\* An input is captured, or a user touches a device: nothing but the queue grows.
LEMMA LentSaid ==
  ASSUME LockInv, LentNow, [Next]_vars, InputCaptured \/ UserTouches
  PROVE  LentNow'
<1>1. events \in Seq(CaptureEvent)
  BY DEF LockInv, TypeOK
<1>2. /\ UNCHANGED <<state, active, outgoing, incoming>>
      /\ \/ events' = Append(events, [kind |-> "input"])
         \/ events' = Append(events, [kind |-> "localInput"])
  BY DEF InputCaptured, UserTouches, Says, shared, session
<1>3. /\ HasBegin(events') <=> HasBegin(events)
      /\ OneBegin(events) => OneBegin(events')
      /\ LosesNothing(events) => LosesNothing(events')
  <2>1. /\ [kind |-> "input"] \in CaptureEvent /\ [kind |-> "localInput"] \in CaptureEvent
        /\ [kind |-> "input"].kind = "input" /\ [kind |-> "localInput"].kind = "localInput"
    BY DEF CaptureEvent
  <2>2. CASE events' = Append(events, [kind |-> "input"])
    BY <1>1, <2>1, <2>2, AppendBegins
  <2>3. CASE events' = Append(events, [kind |-> "localInput"])
    BY <1>1, <2>1, <2>3, AppendBegins
  <2> QED
    BY <1>2, <2>2, <2>3
<1> QED
  BY <1>2, <1>3, SpentStep DEF LentNow, Lent, IsCapturing

\* The compositor frees what was captured; what counts as released is released.
LEMMA LentFreed ==
  ASSUME LockInv, LentNow, [Next]_vars, Unlocked \/ SyncReleased
  PROVE  LentNow'
<1>1. state \in CaptureState /\ spent \in [EnvironmentKind -> Nat]
  BY DEF LockInv, TypeOK
<1>2. ~IsCapturing' /\ UNCHANGED <<outgoing, incoming>>
  <2>1. CASE Unlocked
    <3>1. reset_lock(state) \in CaptureState
      BY <1>1 DEF reset_lock, CaptureState, MaybeEdge
    <3> QED
      BY <2>1, <3>1 DEF Unlocked, Becomes, Freed, CaptureState, IsCapturing, session
  <2>2. CASE SyncReleased
    <3> DEFINE s == [state EXCEPT !.current_edge = None,
                                  !.exclusive = @ \ {state.current_edge}]
    <3>1. s \in CaptureState /\ s.current_edge = None
      BY <1>1 DEF CaptureState, MaybeEdge
    <3>2. state' = reset_lock(s) /\ UNCHANGED <<outgoing, incoming>>
      BY <2>2 DEF SyncReleased, Becomes, session
    <3> HIDE DEF s
    <3> QED
      BY <3>1, <3>2, ResetKeepsEdge DEF IsCapturing
  <2> QED
    BY <2>1, <2>2
<1>3. CASE Unlocked
  <2>1. spent'["unlock"] # 0
    BY <1>1, <1>3 DEF Unlocked, Spend, EnvironmentKind
  <2> QED
    BY <1>2, <2>1, SpentStep DEF LentNow, Lent
<1>4. CASE SyncReleased
  <2>1. ~active /\ UNCHANGED <<active, events>>
    BY <1>4 DEF SyncReleased, Quietly, shared
  <2> QED
    BY <1>2, <2>1, SpentStep DEF LentNow, Lent
<1> QED
  BY <1>3, <1>4

LEMMA LentTaken ==
  ASSUME LockInv, LentNow, [Next]_vars, TakeEvent
  PROVE  LentNow'
<1>1. events \in Seq(CaptureEvent) /\ active \in BOOLEAN /\ outgoing \in BOOLEAN
  BY DEF LockInv, TypeOK
<1>2. events # <<>> /\ events' = Tail(events) /\ state' = state /\ spent' = spent
  BY DEF TakeEvent, BeginReturns, BeginIgnored, BeginNobody, BeginLends, InputTaken,
         InputReturns, LostTaken, LocalInputTaken, Takes, NextIs
<1>3. /\ HasBegin(events') => HasBegin(events)
      /\ OneBegin(events) => OneBegin(events')
      /\ LosesNothing(events) => LosesNothing(events') /\ Head(events).kind # "captureLost"
      /\ Head(events).kind # "begin" /\ HasBegin(events) => HasBegin(events')
      /\ Head(events).kind = "begin" => HasBegin(events)
      /\ Head(events).kind = "begin" /\ OneBegin(events) => ~HasBegin(events')
  BY <1>1, <1>2, TailBegins
<1>4. SUFFICES ASSUME spent["enter"] = 0
               PROVE  LentNow'
  BY <1>2 DEF LentNow, Lent
<1>5. incoming = None
  BY <1>4 DEF LentNow, Lent
<1>6. CASE BeginReturns \/ BeginIgnored \/ BeginNobody \/ BeginLends
  <2>1. Head(events).kind = "begin"
    BY <1>6 DEF BeginReturns, BeginIgnored, BeginNobody, BeginLends, NextIs
  <2>2. \/ active' = FALSE /\ outgoing' = outgoing /\ incoming' = None /\ ~outgoing
        \/ active' = FALSE /\ outgoing' = outgoing /\ incoming' = None /\ outgoing
        \/ active' = active /\ outgoing' = outgoing /\ incoming' = None /\ outgoing
        \/ active' = active /\ outgoing' = TRUE /\ incoming' = None /\ ~outgoing
    BY <1>1, <1>5, <1>6 DEF BeginReturns, BeginIgnored, BeginNobody, BeginLends, Takes, session,
                       shared, release, releaseUnwanted
  <2> QED
    BY <1>1, <1>2, <1>3, <1>5, <2>1, <2>2 DEF LentNow, Lent, IsCapturing
<1>7. CASE InputTaken \/ InputReturns \/ LostTaken \/ LocalInputTaken
  <2>1. Head(events).kind # "begin"
    BY <1>7 DEF InputTaken, InputReturns, LostTaken, LocalInputTaken, NextIs
  <2>2. \/ active' = active /\ outgoing' = outgoing /\ incoming' = None
        \/ active' = FALSE /\ outgoing /\ outgoing' = FALSE /\ incoming' = None
        \/ /\ active' = FALSE /\ outgoing' = FALSE /\ incoming' = None
           /\ Head(events).kind = "captureLost"
    BY <1>1, <1>5, <1>7 DEF InputTaken, InputReturns, LostTaken, LocalInputTaken, Takes, session,
                       shared, release, NextIs
  <2> QED
    BY <1>1, <1>2, <1>3, <1>5, <2>1, <2>2 DEF LentNow, Lent, IsCapturing
<1> QED
  BY <1>6, <1>7 DEF TakeEvent

LEMMA LentStep == LentInv /\ [Next]_vars => LentInv'
<1> SUFFICES ASSUME LockInv, LentNow, [Next]_vars PROVE LentNow' /\ LockInv'
  BY LentIs, Zenon DEF LentInv, LentNow, Lent
<1>1. LockInv'
  BY LockStep
<1>2. spent \in [EnvironmentKind -> Nat]
  BY DEF LockInv, TypeOK
<1>3. CASE UNCHANGED vars
  BY <1>1, <1>3, LentKept DEF vars, shared, session
<1>4. CASE Compositor
  BY <1>1, <1>4, LentQuiet, LentBegins, LentSaid, LentFreed, Zenon DEF Compositor
<1>5. CASE sync_release
  BY <1>1, <1>5, LentQuiet, LentFreed DEF sync_release
<1>6. CASE TakeEvent
  BY <1>1, <1>6, LentTaken
<1>7. CASE LendingEnds
  <2>1. /\ outgoing /\ outgoing' = FALSE /\ active' = FALSE
        /\ UNCHANGED <<state, events, incoming, spent>>
    BY <1>7 DEF LendingEnds, release, Goes
  <2> QED
    BY <1>1, <2>1 DEF LentNow, Lent, IsCapturing
<1>8. CASE BorrowingEnds
  <2>1. incoming # None /\ incoming' = None /\ UNCHANGED <<state, events, outgoing, active, spent>>
    BY <1>8 DEF BorrowingEnds, Goes
  <2> QED
    BY <1>1, <2>1 DEF LentNow, Lent, IsCapturing
<1>9. CASE \E e \in Edge : Entered(e)
  <2>1. spent'["enter"] # 0
    BY <1>2, <1>9 DEF Entered, Spend, EnvironmentKind
  <2> QED
    BY <1>1, <2>1 DEF LentNow, Lent
<1>10. CASE \E edges \in SUBSET Edge : TickEdges(edges)
  BY <1>1, <1>10, LentKept DEF TickEdges, Goes, session
<1>11. CASE UserTouches
  BY <1>1, <1>11, LentSaid
<1> QED
  BY <1>1, <1>3, <1>4, <1>5, <1>6, <1>7, <1>8, <1>9, <1>10, <1>11 DEF Next

\* With no peer's pointer coming in, the loop lends what is captured, and if the
\* compositor takes no lock away, what it lends is captured.
THEOREM CapturesAreLent == Spec => []CapturedIsLent
<1>1. LentInv => CapturedIsLent
  <2> SUFFICES ASSUME LentInv, Quiet, spent["enter"] = 0
               PROVE  /\ IsCapturing => outgoing
                      /\ spent["unlock"] = 0 => (outgoing => IsCapturing)
    BY DEF CapturedIsLent
  <2>1. ~HasBegin(events)
    <3>1. Len(events) = 0
      BY DEF Quiet
    <3> QED
      BY <3>1 DEF HasBegin
  <2>2. active \in BOOLEAN /\ outgoing \in BOOLEAN
    BY DEF LentInv, LockInv, TypeOK
  <2> QED
    BY <2>1, <2>2 DEF LentInv, Quiet
<1> QED
  BY <1>1, LentInit, LentStep, PTL DEF Spec

----------------------------------------------------------------------------
(* The clipboard thread *)

CONSTANT ClipBudgets
VARIABLES thread, commands, selection, watch, reported, dropped, forgotten, clip_spent

Clip == INSTANCE WaylandClipboard WITH Budgets <- ClipBudgets, spent <- clip_spent

\* Whatever of a peer's is in the clipboard, the thread knows it for what it wrote, or
\* has forgotten it: a text by what it wrote or read last, files by the paths it wrote
\* last.
KnownToThread ==
  selection \in Clip!Content /\ selection.by = "peer" =>
    \/ selection \in forgotten
    \/ IF selection.files THEN thread.injected_files = selection
       ELSE selection \in {thread.baseline, thread.injected}

EchoInv == Clip!TypeOK /\ Clip!NoEcho /\ KnownToThread

\* A payload is a text or files.
LEMMA ContentIs ==
  ASSUME NEW c
  PROVE  /\ c \in Clip!Texts => c \in Clip!Content /\ ~c.files
         /\ c \in Clip!Files => c \in Clip!Content /\ c.files
         /\ c \in Clip!Content => /\ c.files \in BOOLEAN /\ c.by \in {"user", "peer"}
                                  /\ c.files => c \in Clip!Files
                                  /\ ~c.files => c \in Clip!Texts
BY DEF Clip!Texts, Clip!Files, Clip!Content

\* ... and TextOf and FilesOf tell which.
LEMMA OfContent ==
  ASSUME NEW c \in Clip!MaybeContent
  PROVE  /\ Clip!TextOf(c) \in Clip!Texts \cup {None}
         /\ Clip!FilesOf(c) \in Clip!Files \cup {None}
BY ContentIs DEF Clip!MaybeContent, Clip!TextOf, Clip!FilesOf

\* A read that fails finds nothing, or part of a text.
LEMMA MisreadType ==
  ASSUME NEW c \in Clip!MaybeContent, NEW found \in Clip!Misread(c)
  PROVE  found \in Clip!Texts \cup {None}
<1>1. CASE Clip!TextOf(c) = None
  BY <1>1 DEF Clip!Misread
<1>2. CASE Clip!TextOf(c) # None
  <2>1. c \in Clip!Texts
    BY <1>2, OfContent DEF Clip!TextOf
  <2>2. [c EXCEPT !.whole = FALSE] \in Clip!Texts
    BY <2>1 DEF Clip!Texts
  <2> QED
    BY <2>2 DEF Clip!Misread
<1> QED
  BY <1>1, <1>2

\* The payloads that Init and New make.
LEMMA MadeType ==
  ASSUME NEW who \in {"user", "peer"}, NEW no \in Nat
  PROVE  /\ [by |-> who, files |-> TRUE, no |-> no, whole |-> TRUE] \in Clip!Files
         /\ [by |-> who, files |-> FALSE, no |-> no, whole |-> TRUE] \in Clip!Texts
BY DEF Clip!Files, Clip!Texts

LEMMA EchoInit ==
  ASSUME None \notin Clip!Content, Clip!Init
  PROVE  EchoInv
<1>1. selection # None => selection \in Clip!Content /\ selection.by = "user"
  <2>1. ASSUME selection # None
        PROVE  selection \in [by : {"user"}, files : BOOLEAN, no : {0}, whole : {TRUE}]
    BY <2>1 DEF Clip!Init
  <2>2. ASSUME selection # None
        PROVE  selection \in Clip!Content /\ selection.by = "user"
    <3>1. PICK files \in BOOLEAN :
            selection = [by |-> "user", files |-> files, no |-> 0, whole |-> TRUE]
      BY <2>1, <2>2
    <3>2. \/ selection = [by |-> "user", files |-> TRUE, no |-> 0, whole |-> TRUE]
          \/ selection = [by |-> "user", files |-> FALSE, no |-> 0, whole |-> TRUE]
      BY <3>1
    <3>3. selection \in Clip!Content
      BY <3>2, MadeType DEF Clip!Content
    <3> QED
      BY <3>1, <3>3
  <2> QED
    BY <2>2
<1>2. selection \in Clip!MaybeContent /\ None \in Clip!MaybeContent
  BY <1>1 DEF Clip!MaybeContent
<1>3. PICK found \in {None, selection} :
        thread = [baseline |-> Clip!TextOf(found), baseline_files |-> Clip!FilesOf(found),
                  injected |-> None, injected_files |-> None, handled_files |-> None,
                  watcher_active |-> TRUE]
  BY DEF Clip!Init
<1>4. /\ Clip!TextOf(found) \in Clip!Texts \cup {None}
      /\ Clip!FilesOf(found) \in Clip!Files \cup {None}
  BY <1>2, OfContent
<1>5. thread \in Clip!Thread
  BY <1>3, <1>4 DEF Clip!Thread, Clip!MaybeContent
<1>6. Clip!TypeOK
  BY <1>2, <1>5 DEF Clip!Init, Clip!TypeOK, Clip!EnvironmentKind
<1> QED
  BY <1>1, <1>6 DEF Clip!Init, EchoInv, KnownToThread, Clip!NoEcho

LEMMA ClipSpendType ==
  ASSUME Clip!TypeOK, NEW kind \in Clip!EnvironmentKind, Clip!Spend(kind)
  PROVE  clip_spent' \in [Clip!EnvironmentKind -> Nat]
BY DEF Clip!TypeOK, Clip!Spend

\* A command is put behind the others.
LEMMA OrdersStep ==
  ASSUME EchoInv, clip_spent' \in [Clip!EnvironmentKind -> Nat],
         NEW command \in Clip!Command, Clip!Orders(command)
  PROVE  EchoInv'
<1>1. /\ commands' = Append(commands, command)
      /\ UNCHANGED <<thread, selection, watch, reported, dropped, forgotten>>
  BY DEF Clip!Orders
<1>2. Clip!TypeOK'
  BY <1>1 DEF EchoInv, Clip!TypeOK
<1> QED
  BY <1>1, <1>2 DEF EchoInv, Clip!NoEcho, KnownToThread

\* What a user copies is no echo, and what is copied again a user copied, or the
\* thread knows or has forgotten.
LEMMA ShownStep ==
  ASSUME EchoInv, clip_spent' \in [Clip!EnvironmentKind -> Nat],
         NEW content \in Clip!Content, Clip!Shows(content),
         UNCHANGED <<thread, commands, reported, dropped, forgotten>>, None \notin Clip!Content,
         content.by = "user" \/ content \in forgotten \/ content = thread.baseline
  PROVE  EchoInv'
<1>1. watch' \in [selection : {"no", "seen", "sent"}, child : {"alive", "ended", "known"}]
  BY DEF EchoInv, Clip!TypeOK, Clip!Shows
<1>2. Clip!TypeOK'
  BY <1>1 DEF EchoInv, Clip!TypeOK, Clip!Shows, Clip!MaybeContent
<1>3. content = thread.baseline => ~content.files \/ content = None
  <2>1. thread.baseline \in Clip!Texts \cup {None}
    BY DEF EchoInv, Clip!TypeOK, Clip!Thread
  <2> QED
    BY <2>1, ContentIs
<1>4. KnownToThread'
  BY <1>3 DEF KnownToThread, Clip!Shows
<1> QED
  BY <1>2, <1>4 DEF EchoInv, Clip!NoEcho

\* A payload of its own.
LEMMA NewContent ==
  ASSUME Clip!TypeOK, NEW who \in {"user", "peer"}, NEW files \in BOOLEAN
  PROVE  \E content \in Clip!Content :
           content = Clip!New(who, files) /\ content.by = who /\ content.files = files
<1> DEFINE no == 1 + clip_spent["copyText"] + clip_spent["copyFiles"] + clip_spent["setText"]
                 + clip_spent["setFiles"]
<1>1. no \in Nat
  <2>1. \A kind \in {"copyText", "copyFiles", "setText", "setFiles"} : clip_spent[kind] \in Nat
    BY DEF Clip!TypeOK, Clip!EnvironmentKind
  <2> QED
    BY <2>1
<1>2. Clip!New(who, files) = [by |-> who, files |-> files, no |-> no, whole |-> TRUE]
  BY DEF Clip!New
<1> HIDE DEF no
<1>3. Clip!New(who, files) \in Clip!Content
  BY <1>1, <1>2, MadeType DEF Clip!Content
<1> QED
  BY <1>2, <1>3

LEMMA CopyStep ==
  ASSUME None \notin Clip!Content, EchoInv, NEW files \in BOOLEAN, Clip!UserCopies(files)
  PROVE  EchoInv'
<1>1. PICK kind \in Clip!EnvironmentKind : Clip!Spend(kind)
  BY DEF Clip!UserCopies, Clip!EnvironmentKind
<1>2. PICK content \in Clip!Content : content = Clip!New("user", files) /\ content.by = "user"
  BY NewContent DEF EchoInv
<1>3. Clip!Shows(content) /\ UNCHANGED <<thread, commands, reported, dropped, forgotten>>
  BY <1>2 DEF Clip!UserCopies
<1> QED
  BY <1>1, <1>2, <1>3, ClipSpendType, ShownStep DEF EchoInv

LEMMA CopyAgainStep ==
  ASSUME None \notin Clip!Content, EchoInv, NEW content, Clip!UserCopiesAgain(content)
  PROVE  EchoInv'
<1>1. clip_spent' \in [Clip!EnvironmentKind -> Nat]
  BY ClipSpendType DEF Clip!UserCopiesAgain, Clip!EnvironmentKind, EchoInv
<1>2. content \in Clip!Content
  BY DEF Clip!UserCopiesAgain, EchoInv, Clip!TypeOK, Clip!Thread, Clip!Content
<1>3. content.by = "user" \/ content \in forgotten \/ content = thread.baseline
  BY DEF Clip!UserCopiesAgain, EchoInv, Clip!NoEcho
<1> QED
  BY <1>1, <1>2, <1>3, ShownStep DEF Clip!UserCopiesAgain

LEMMA WatcherStep ==
  ASSUME EchoInv, Clip!WatcherPrints \/ Clip!WatcherEnds
  PROVE  EchoInv'
<1>1. clip_spent' \in [Clip!EnvironmentKind -> Nat]
  BY ClipSpendType
     DEF Clip!WatcherPrints, Clip!WatcherEnds, Clip!EnvironmentKind, EchoInv, Clip!TypeOK
<1>2. UNCHANGED <<thread, commands, selection, reported, dropped, forgotten>>
  BY DEF Clip!WatcherPrints, Clip!WatcherEnds
<1>3. watch' \in [selection : {"no", "seen", "sent"}, child : {"alive", "ended", "known"}]
  BY DEF EchoInv, Clip!TypeOK, Clip!WatcherPrints, Clip!WatcherEnds
<1>4. Clip!TypeOK'
  BY <1>1, <1>2, <1>3 DEF EchoInv, Clip!TypeOK
<1> QED
  BY <1>2, <1>4 DEF EchoInv, Clip!NoEcho, KnownToThread

LEMMA DaemonStep ==
  ASSUME EchoInv,
         \/ \E files \in BOOLEAN : Clip!SetPayload(files)
         \/ \E content \in reported : Clip!MarkFilesHandled(content)
         \/ Clip!Rebaseline
  PROVE  EchoInv'
<1>1. clip_spent' \in [Clip!EnvironmentKind -> Nat]
  BY ClipSpendType
     DEF Clip!SetPayload, Clip!MarkFilesHandled, Clip!Rebaseline, Clip!EnvironmentKind, EchoInv
<1>2. ASSUME NEW files \in BOOLEAN, Clip!SetPayload(files)
      PROVE  EchoInv'
  <2>1. PICK content \in Clip!Content : content = Clip!New("peer", files)
    BY NewContent DEF EchoInv
  <2>2. Clip!Orders([op |-> "Set", content |-> content])
    BY <1>2, <2>1 DEF Clip!SetPayload
  <2>3. [op |-> "Set", content |-> content] \in Clip!Command
    BY DEF Clip!Command
  <2> QED
    BY <1>1, <2>2, <2>3, OrdersStep
<1>3. ASSUME NEW content \in reported, Clip!MarkFilesHandled(content)
      PROVE  EchoInv'
  <2>1. content \in Clip!Files
    BY <1>3, ContentIs DEF EchoInv, Clip!TypeOK, Clip!MarkFilesHandled
  <2>2. [op |-> "MarkFilesHandled", content |-> content] \in Clip!Command
    BY <2>1 DEF Clip!Command
  <2> QED
    BY <1>1, <1>3, <2>2, OrdersStep DEF Clip!MarkFilesHandled
<1>4. CASE Clip!Rebaseline
  <2>1. [op |-> "Rebaseline"] \in Clip!Command
    BY DEF Clip!Command
  <2> QED
    BY <1>1, <1>4, <2>1, OrdersStep DEF Clip!Rebaseline
<1> QED
  BY <1>2, <1>3, <1>4

\* A command taken: the thread knows what it has written.
LEMMA CommandStep ==
  ASSUME None \notin Clip!Content, EchoInv, Clip!TakeCommand
  PROVE  EchoInv'
<1>1. commands # <<>> /\ commands' = Tail(commands) /\ UNCHANGED reported
  BY DEF Clip!TakeCommand, Clip!SetWritten, Clip!SetFails, Clip!FilesHandled,
         Clip!TakeRebaseline, Clip!TakeRebaselineMisread, Clip!TakesRebaseline, Clip!NextIs,
         Clip!Takes
<1>2. /\ commands \in Seq(Clip!Command) /\ commands' \in Seq(Clip!Command)
      /\ Head(commands) \in Clip!Command
  BY <1>1 DEF EchoInv, Clip!TypeOK
<1>3. thread \in Clip!Thread /\ selection \in Clip!MaybeContent
  BY DEF EchoInv, Clip!TypeOK
<1>4. clip_spent' \in [Clip!EnvironmentKind -> Nat]
  BY ClipSpendType
     DEF Clip!TakeCommand, Clip!SetWritten, Clip!SetFails, Clip!FilesHandled,
         Clip!TakeRebaseline, Clip!TakeRebaselineMisread, Clip!EnvironmentKind, EchoInv,
         Clip!TypeOK
<1>5. ASSUME thread' \in Clip!Thread, selection' \in Clip!MaybeContent,
             watch' = watch \/ Clip!Shows(selection'),
             dropped' \subseteq dropped \cup {selection},
             forgotten \subseteq forgotten', forgotten' \subseteq forgotten \cup {selection},
             KnownToThread'
      PROVE  EchoInv'
  <2>1. watch' \in [selection : {"no", "seen", "sent"}, child : {"alive", "ended", "known"}]
    BY <1>5 DEF EchoInv, Clip!TypeOK, Clip!Shows
  <2>2. Clip!TypeOK'
    BY <1>1, <1>2, <1>3, <1>4, <1>5, <2>1 DEF EchoInv, Clip!TypeOK
  <2> QED
    BY <1>1, <1>5, <2>2 DEF EchoInv, Clip!NoEcho
<1>6. CASE Clip!SetWritten
  <2> DEFINE content == Head(commands).content
  <2>1. /\ selection' = content /\ thread' = Clip!Set(thread, content) /\ Clip!Shows(content)
        /\ Head(commands).op = "Set" /\ UNCHANGED <<dropped, forgotten>>
    BY <1>6 DEF Clip!SetWritten, Clip!NextIs, Clip!Shows, Clip!Takes
  <2>2. content \in Clip!Content /\ content # None
    BY <1>2, <2>1 DEF Clip!Command, Clip!Content
  <2> HIDE DEF content
  <2>3. Clip!FilesOf(content) \in Clip!Files \cup {None}
    BY <2>2, OfContent DEF Clip!MaybeContent
  <2>4. /\ thread' = [thread EXCEPT !.injected = content, !.injected_files = Clip!FilesOf(content)]
        /\ thread' \in Clip!Thread
    BY <1>3, <2>1, <2>2, <2>3 DEF Clip!Thread, Clip!Set, Clip!MaybeContent
  <2>5. thread'.injected = content /\ (content.files => thread'.injected_files = content)
    BY <1>3, <2>2, <2>4 DEF Clip!Thread, Clip!FilesOf
  <2>6. KnownToThread'
    BY <2>1, <2>5 DEF KnownToThread
  <2> QED
    BY <1>5, <2>1, <2>2, <2>4, <2>6 DEF Clip!MaybeContent
<1>7. CASE Clip!SetFails
  <2>1. UNCHANGED <<thread, selection, watch, dropped, forgotten>>
    BY <1>7 DEF Clip!SetFails, Clip!Takes
  <2>2. KnownToThread'
    BY <2>1 DEF EchoInv, KnownToThread
  <2> QED
    BY <1>3, <1>5, <2>1, <2>2
<1>8. CASE Clip!FilesHandled
  <2> DEFINE paths == Head(commands).content
  <2>1. /\ Head(commands).op = "MarkFilesHandled" /\ UNCHANGED <<selection, watch, dropped>>
        /\ thread' = [thread EXCEPT !.baseline_files = paths, !.injected_files = paths,
                                    !.handled_files = paths, !.injected = None]
        /\ forgotten' = forgotten \cup ({selection} \ {thread.baseline})
    BY <1>8 DEF Clip!FilesHandled, Clip!NextIs, Clip!Takes
  <2>2. paths \in Clip!Files
    BY <1>2, <2>1 DEF Clip!Command
  <2> HIDE DEF paths
  <2>3. thread' \in Clip!Thread /\ thread'.baseline = thread.baseline
    BY <1>3, <2>1, <2>2 DEF Clip!Thread, Clip!MaybeContent
  <2>4. selection \in Clip!Content /\ selection = thread.baseline => ~selection.files
    BY <1>3, ContentIs DEF Clip!Thread
  <2>5. KnownToThread'
    BY <2>1, <2>3, <2>4 DEF KnownToThread
  <2> QED
    BY <1>3, <1>5, <2>1, <2>3, <2>5
<1>9. ASSUME NEW content \in Clip!MaybeContent, Clip!TakesRebaseline(content)
      PROVE  /\ thread' \in Clip!Thread /\ thread'.baseline = Clip!TextOf(content)
             /\ UNCHANGED <<selection, watch>> /\ dropped' = dropped \cup {selection}
  <2>1. /\ thread' = Clip!Rebaselined(thread, content) /\ UNCHANGED <<selection, watch>>
        /\ dropped' = dropped \cup {selection}
    BY <1>9 DEF Clip!TakesRebaseline, Clip!Takes
  <2>2. /\ Clip!TextOf(content) \in Clip!Texts \cup {None}
        /\ Clip!FilesOf(content) \in Clip!Files \cup {None}
    BY OfContent
  <2> QED
    BY <1>3, <2>1, <2>2 DEF Clip!Thread, Clip!Rebaselined, Clip!MaybeContent
<1>10. CASE Clip!TakeRebaseline
  <2>1. /\ Clip!TakesRebaseline(selection)
        /\ forgotten' = forgotten \cup ({Clip!FilesOf(selection)} \ {None})
    BY <1>10 DEF Clip!TakeRebaseline
  <2>2. forgotten \subseteq forgotten' /\ forgotten' \subseteq forgotten \cup {selection}
    BY <2>1 DEF Clip!FilesOf
  <2>3. selection \in Clip!Content => IF selection.files THEN selection \in forgotten'
                                      ELSE Clip!TextOf(selection) = selection
    BY <2>1, ContentIs DEF Clip!FilesOf, Clip!TextOf
  <2>4. KnownToThread'
    BY <1>3, <1>9, <2>1, <2>3 DEF KnownToThread
  <2> QED
    BY <1>3, <1>5, <1>9, <2>1, <2>2, <2>4
<1>11. CASE Clip!TakeRebaselineMisread
  <2>1. PICK content \in Clip!Misread(selection) : Clip!TakesRebaseline(content)
    BY <1>11 DEF Clip!TakeRebaselineMisread
  <2>2. content \in Clip!MaybeContent
    BY <1>3, <2>1, MisreadType DEF Clip!MaybeContent, Clip!Content
  <2>3. forgotten' = forgotten \cup {selection}
    BY <1>11 DEF Clip!TakeRebaselineMisread
  <2>4. KnownToThread'
    BY <1>9, <2>1, <2>2, <2>3 DEF KnownToThread
  <2> QED
    BY <1>3, <1>5, <1>9, <2>1, <2>2, <2>3, <2>4
<1> QED
  BY <1>6, <1>7, <1>8, <1>10, <1>11 DEF Clip!TakeCommand

\* A look at the clipboard, which finds what is there, or nothing, or what it then
\* does not know for what is there.
LEMMA ReadsStep ==
  ASSUME None \notin Clip!Content, EchoInv,
         NEW found \in Clip!MaybeContent, NEW changed \in BOOLEAN,
         Clip!Reads(found, changed),
         clip_spent' \in [Clip!EnvironmentKind -> Nat],
         forgotten \subseteq forgotten', forgotten' \subseteq Clip!MaybeContent,
         found \in {None, selection} \/ {found, selection} \subseteq forgotten'
  PROVE  EchoInv'
<1> DEFINE t == Clip!ActiveAfter(thread)
<1>1. /\ thread \in Clip!Thread /\ selection \in Clip!MaybeContent /\ reported \subseteq Clip!Content
      /\ watch \in [selection : {"no", "seen", "sent"}, child : {"alive", "ended", "known"}]
  BY DEF EchoInv, Clip!TypeOK
<1>2. /\ t \in Clip!Thread /\ t.baseline = thread.baseline /\ t.injected = thread.injected
      /\ t.injected_files = thread.injected_files
  BY <1>1 DEF Clip!Thread, Clip!ActiveAfter
<1> HIDE DEF t
<1>3. /\ UNCHANGED <<commands, selection, dropped>>
      /\ watch' \in [selection : {"no", "seen", "sent"}, child : {"alive", "ended", "known"}]
  BY <1>1 DEF Clip!Reads, Clip!Drained
<1>4. ASSUME thread' \in Clip!Thread, reported' \subseteq reported \cup {found},
             found = None => reported' = reported /\ KnownToThread',
             found = selection /\ found # None /\ found.by = "peer" /\ found \notin forgotten
               => KnownToThread' /\ reported' = reported
      PROVE  EchoInv'
  <2>1. reported' \subseteq Clip!Content
    BY <1>1, <1>4 DEF Clip!MaybeContent
  <2>2. Clip!TypeOK'
    BY <1>3, <1>4, <2>1 DEF EchoInv, Clip!TypeOK
  <2>3. KnownToThread'
    <3>1. SUFFICES ASSUME selection' \in Clip!Content, selection'.by = "peer",
                          selection' \notin forgotten'
                   PROVE  KnownToThread'
      BY DEF KnownToThread
    <3>2. selection \notin forgotten /\ selection # None /\ found \in {None, selection}
      BY <1>3, <3>1
    <3> QED
      BY <1>3, <1>4, <3>1, <3>2
  <2>4. ASSUME NEW content \in reported'
        PROVE  content.by = "user" \/ content \in forgotten'
    <3>1. CASE content \in reported
      BY <3>1 DEF EchoInv, Clip!NoEcho
    <3>2. CASE content \notin reported
      <4>1. content = found /\ found # None /\ found \in Clip!Content
        BY <1>4, <2>1, <2>4, <3>2
      <4>2. CASE found = selection
        <5>1. found.by = "peer" => found \in forgotten
          BY <1>4, <3>2, <4>1, <4>2
        <5> QED
          BY <4>1, <5>1, ContentIs
      <4> QED
        BY <4>1, <4>2
    <3> QED
      BY <3>1, <3>2
  <2> QED
    BY <2>2, <2>3, <2>4 DEF EchoInv, Clip!NoEcho
<1>5. KnownToThread
  BY DEF EchoInv
<1>6. CASE found = None
  <2>1. thread' = t /\ reported' = reported
    BY <1>6 DEF Clip!Reads, t
  <2>2. KnownToThread'
    BY <1>2, <1>3, <1>5, <2>1 DEF KnownToThread
  <2> QED
    BY <1>2, <1>4, <1>6, <2>1, <2>2
<1>7. CASE found # None /\ found.files
  <2>1. Clip!ReadFiles(t, found, changed)
    BY <1>7 DEF Clip!Reads, t
  <2>2. found \in Clip!Files
    BY <1>7, ContentIs DEF Clip!MaybeContent
  <2> DEFINE seen == [t EXCEPT !.baseline_files = found, !.baseline = None, !.handled_files = None]
  <2>3. /\ seen \in Clip!Thread /\ [seen EXCEPT !.injected = None] \in Clip!Thread
        /\ seen.injected_files = t.injected_files
    BY <1>2, <2>2 DEF Clip!Thread, Clip!MaybeContent
  <2> HIDE DEF seen
  <2>4. \/ thread' = t /\ reported' = reported
        \/ thread' = seen /\ reported' = reported
        \/ /\ thread' = [seen EXCEPT !.injected = None] /\ reported' \subseteq reported \cup {found}
           /\ found # t.injected_files
    BY <2>1 DEF Clip!ReadFiles, seen
  <2>5. ASSUME found = selection, found.by = "peer", found \notin forgotten
        PROVE  KnownToThread' /\ reported' = reported
    <3>1. t.injected_files = selection
      BY <1>2, <1>5, <1>7, <2>2, <2>5, ContentIs DEF KnownToThread
    <3>2. thread'.injected_files = selection /\ reported' = reported
      BY <2>3, <2>4, <2>5, <3>1
    <3> QED
      BY <1>3, <1>7, <2>5, <3>1, <3>2 DEF KnownToThread
  <2> QED
    BY <1>2, <1>4, <1>7, <2>3, <2>4, <2>5
<1>8. CASE found # None /\ ~found.files
  <2>1. Clip!ReadText(t, found)
    BY <1>8 DEF Clip!Reads, t
  <2>2. found \in Clip!Texts
    BY <1>8, ContentIs DEF Clip!MaybeContent
  <2> DEFINE seen == [t EXCEPT !.baseline_files = None, !.handled_files = None]
             read == [seen EXCEPT !.baseline = found, !.injected_files = None, !.injected = None]
  <2>3. /\ seen \in Clip!Thread /\ read \in Clip!Thread
        /\ seen.baseline = t.baseline /\ read.baseline = found
    BY <1>2, <2>2 DEF Clip!Thread, Clip!MaybeContent
  <2>4. /\ thread' = IF t.baseline = found THEN seen ELSE read
        /\ reported' = IF t.baseline = found \/ t.injected = found THEN reported
                       ELSE reported \cup {found}
    BY <2>1 DEF Clip!ReadText, Clip!IsInjected
  <2> HIDE DEF seen, read
  <2>5. thread'.baseline = found
    BY <2>3, <2>4
  <2>6. ASSUME found = selection, found.by = "peer", found \notin forgotten
        PROVE  KnownToThread' /\ reported' = reported
    <3>1. selection \in {t.baseline, t.injected}
      BY <1>2, <1>5, <1>8, <2>2, <2>6, ContentIs DEF KnownToThread
    <3> QED
      BY <1>3, <1>8, <2>4, <2>5, <2>6, <3>1 DEF KnownToThread
  <2> QED
    BY <1>4, <1>8, <2>3, <2>4, <2>6
<1> QED
  BY <1>6, <1>7, <1>8

LEMMA ReadFailsStep ==
  ASSUME None \notin Clip!Content, EchoInv, Clip!ReadFails
  PROVE  EchoInv'
<1>1. clip_spent' \in [Clip!EnvironmentKind -> Nat]
  BY ClipSpendType DEF Clip!ReadFails, Clip!EnvironmentKind, EchoInv
<1>2. PICK found \in Clip!Misread(selection) :
        /\ Clip!Reads(found, watch.selection = "sent")
        /\ forgotten' = IF found = None THEN forgotten ELSE forgotten \cup {found, selection}
  BY DEF Clip!ReadFails
<1>3. /\ selection \in Clip!MaybeContent /\ found \in Clip!MaybeContent
      /\ forgotten \subseteq Clip!MaybeContent
  BY <1>2, MisreadType DEF EchoInv, Clip!TypeOK, Clip!MaybeContent, Clip!Content
<1>4. PICK changed \in BOOLEAN : Clip!Reads(found, changed)
  BY <1>2
<1> QED
  BY <1>1, <1>2, <1>3, <1>4, ReadsStep

LEMMA EchoStep ==
  ASSUME None \notin Clip!Content, EchoInv, [Clip!Next]_Clip!vars
  PROVE  EchoInv'
<1>1. CASE UNCHANGED Clip!vars
  BY <1>1 DEF Clip!vars, EchoInv, Clip!TypeOK, Clip!NoEcho, KnownToThread
<1>2. CASE Clip!Look
  <2>1. PICK changed \in BOOLEAN : Clip!Reads(selection, changed) /\ UNCHANGED <<forgotten, clip_spent>>
    BY <1>2 DEF Clip!Look, Clip!SelectionRead, Clip!FallbackRead, Clip!Read
  <2>2. /\ selection \in Clip!MaybeContent /\ forgotten \subseteq Clip!MaybeContent
        /\ clip_spent \in [Clip!EnvironmentKind -> Nat]
    BY DEF EchoInv, Clip!TypeOK
  <2> QED
    BY <2>1, <2>2, ReadsStep
<1>3. CASE Clip!Next /\ ~Clip!Look
  BY <1>3, CopyStep, CopyAgainStep, WatcherStep, DaemonStep, CommandStep, ReadFailsStep DEF Clip!Next
<1> QED
  BY <1>1, <1>2, <1>3

\* Whatever users, peers and failures do and however often, nothing that a peer sent
\* is reported as a copy, but for what the thread has forgotten as NoEcho says.
THEOREM NothingEchoes ==
  ASSUME None \notin Clip!Content
  PROVE  Clip!Spec => []Clip!NoEcho
<1>1. Clip!Init => EchoInv
  BY EchoInit
<1>2. EchoInv /\ [Clip!Next]_Clip!vars => EchoInv'
  BY EchoStep
<1>3. EchoInv => Clip!NoEcho
  BY DEF EchoInv
<1> QED
  BY <1>1, <1>2, <1>3, PTL DEF Clip!Spec

=============================================================================
