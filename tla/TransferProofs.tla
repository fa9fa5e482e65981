--------------------------- MODULE TransferProofs ---------------------------
(***************************************************************************)
(* Proofs about Transfer, for every set of transfers, all manifests and    *)
(* Budgets: its types, what is put in place and what the sender is told of *)
(* it, the .part directory, one chunk or acknowledgement at a time, and    *)
(* how a transfer ends while the daemons stay connected.                   *)
(***************************************************************************)
EXTENDS Transfer, SequenceTheorems, FiniteSetTheorems, TLAPS

----------------------------------------------------------------------------
(* Messages, files and queues *)

LEMMA MsgType ==
  ASSUME NEW kind \in MessageKind, NEW t \in Transfer
  PROVE  Msg(kind, t) \in Message
BY DEF Msg, Message

LEMMA ChunkType ==
  ASSUME NEW t \in Transfer, NEW i \in Nat, NEW k \in Nat
  PROVE  Chunk(t, i, k) \in Message /\ Ack(t, i, k) \in Message
BY DEF Chunk, Ack, Message, MessageKind

\* A manifest has a first file, and files of a name and a size.
LEMMA FilesFacts ==
  ASSUME NEW t \in Transfer
  PROVE  /\ Len(Manifest[t]) \in Nat \ {0}
         /\ Files(t) \subseteq Nat \ {0}
         /\ \A i \in Files(t) : Size(t, i) \in Nat /\ Manifest[t][i].name \in Name
<1>1. Manifest[t] \in Seq([name : Name, size : Nat]) /\ Manifest[t] # <<>>
  BY ManifestAssumption
<1>2. Len(Manifest[t]) \in Nat \ {0}
  BY <1>1, EmptySeq, LenProperties
<1>3. \A i \in Files(t) : Manifest[t][i] \in [name : Name, size : Nat]
  BY <1>1, ElementOfSeq DEF Files
<1> QED
  BY <1>2, <1>3 DEF Files, Size

\* A function on the files of a transfer is a sequence as long as its manifest.
LEMMA PerFile ==
  ASSUME NEW t \in Transfer, NEW f \in [Files(t) -> Nat]
  PROVE  f \in Seq(Nat) /\ Len(f) = Len(Manifest[t])
<1>1. Len(Manifest[t]) \in Nat /\ Files(t) = 1..Len(Manifest[t])
  BY FilesFacts DEF Files
<1>2. f \in Seq(Nat)
  BY <1>1
<1>3. DOMAIN f = 1..Len(f) /\ Len(f) \in Nat
  BY <1>2, LenProperties
<1>4. DOMAIN f = 1..Len(Manifest[t])
  BY <1>1
<1> QED
  BY <1>1, <1>2, <1>3, <1>4

LEMMA PerFileInverse ==
  ASSUME NEW t \in Transfer, NEW s \in Seq(Nat), Len(s) = Len(Manifest[t])
  PROVE  s \in [Files(t) -> Nat]
BY LenProperties DEF Files

LEMMA SendType ==
  ASSUME TypeOK, NEW side \in Side, NEW m \in Message, send(side, m)
  PROVE  outbound' \in [Side -> Seq(Message)]
<1>1. Append(outbound[side], m) \in Seq(Message)
  BY AppendProperties DEF TypeOK
<1> QED
  BY <1>1 DEF TypeOK, send

LEMMA ReceiveType ==
  ASSUME TypeOK, NEW side \in Side, NEW kind, NEW t, Receive(side, kind, t)
  PROVE  /\ wire' \in [Side -> Seq(Message)]
         /\ Other(side) \in Side
         /\ wire[Other(side)] \in Seq(Message) /\ wire[Other(side)] # <<>>
         /\ Head(wire[Other(side)]) \in Message
         /\ Head(wire[Other(side)]).kind = kind /\ Head(wire[Other(side)]).t = t
<1>1. Other(side) \in Side
  BY DEF Other, Side
<1>2. wire[Other(side)] \in Seq(Message) /\ wire[Other(side)] # <<>>
  BY <1>1 DEF TypeOK, Receive
<1>3. Head(wire[Other(side)]) \in Message /\ Tail(wire[Other(side)]) \in Seq(Message)
  BY <1>2, HeadTailProperties
<1> QED
  BY <1>1, <1>2, <1>3 DEF TypeOK, Receive

LEMMA SpendType ==
  ASSUME TypeOK, NEW kind \in EnvironmentKind, Spend(kind)
  PROVE  /\ spent' \in [EnvironmentKind -> Nat]
         /\ spent'[kind] = spent[kind] + 1
         /\ \A k \in EnvironmentKind : k # kind => spent'[k] = spent[k]
BY DEF TypeOK, Spend

LEMMA RouteSignalType ==
  ASSUME TypeOK, NEW t \in Transfer, NEW m \in Message, route_signal(t, m)
  PROVE  signals' \in [Transfer -> Seq(Message)]
<1>1. Append(signals[t], m) \in Seq(Message) /\ signals[t] \in Seq(Message)
  BY AppendProperties DEF TypeOK
<1> QED
  BY <1>1 DEF TypeOK, route_signal

LEMMA SignalledType ==
  ASSUME TypeOK, NEW t \in Transfer, Signalled(t)
  PROVE  /\ signals' \in [Transfer -> Seq(Message)]
         /\ signals[t] \in Seq(Message) /\ signals[t] # <<>>
         /\ Head(signals[t]) \in Message
<1>1. Tail(signals[t]) \in Seq(Message) /\ Head(signals[t]) \in Message
  BY HeadTailProperties DEF TypeOK, Signalled
<1> QED
  BY <1>1 DEF TypeOK, Signalled

LEMMA FailType ==
  ASSUME TypeOK, NEW t \in Transfer, fail(t)
  PROVE  /\ outbound' \in [Side -> Seq(Message)]
         /\ sState' \in [Transfer -> TransferState]
         /\ registered' \in [Transfer -> BOOLEAN]
         /\ pc' \in [Transfer -> Place]
<1>1. Msg("Cancel", t) \in Message
  BY MsgType DEF MessageKind
<1>2. outbound' \in [Side -> Seq(Message)]
  <2>1. CASE sState[t] \in Settled
    BY <2>1 DEF fail, TypeOK
  <2>2. CASE sState[t] \notin Settled
    BY <2>2, <1>1, SendType DEF fail, Side
  <2> QED
    BY <2>1, <2>2
<1> QED
  BY <1>2 DEF fail, TypeOK, TransferState, Place

LEMMA PrefixType ==
  ASSUME NEW S, NEW s \in Seq(S), NEW i \in 0..Len(s)
  PROVE  /\ SubSeq(s, 1, i) \in Seq(S) /\ Len(SubSeq(s, 1, i)) = i
         /\ \A j \in 1..i : SubSeq(s, 1, i)[j] = s[j] /\ j \in 1..Len(s)
<1>1. Len(s) \in Nat
  BY LenProperties
<1>2. \A j \in 1..i : j \in 1..Len(s) /\ s[j] \in S
  <2>1. SUFFICES ASSUME NEW j \in 1..i
                 PROVE  j \in 1..Len(s) /\ s[j] \in S
    OBVIOUS
  <2>2. j \in 1..Len(s)
    BY <1>1
  <2> QED
    BY <2>2, ElementOfSeq
<1> QED
  BY <1>1, <1>2, SubSeqProperties

LEMMA RenamedType ==
  ASSUME TypeOK, NEW t \in Transfer, NEW k \in 0..Len(Manifest[t]), Renamed(t, k)
  PROVE  /\ dest' \in [Name -> Transfer \cup {Nobody, Someone}]
         /\ placed' \in SUBSET [t : Transfer, file : Nat, bytes : Nat]
<1>1. dest' \in [Name -> Transfer \cup {Nobody, Someone}]
  BY DEF Renamed, TypeOK
<1>2. offsets[t] \in [Files(t) -> Nat]
  BY PerFileInverse DEF TypeOK
<1>3. \A i \in 1..k : i \in Files(t) /\ i \in Nat
  BY FilesFacts DEF Files
<1>4. \A i \in 1..k : [t |-> t, file |-> i, bytes |-> offsets[t][i]]
                        \in [t : Transfer, file : Nat, bytes : Nat]
  BY <1>2, <1>3
<1>5. {[t |-> t, file |-> i, bytes |-> offsets[t][i]] : i \in 1..k}
        \subseteq [t : Transfer, file : Nat, bytes : Nat]
  BY <1>4
<1>6. placed \in SUBSET [t : Transfer, file : Nat, bytes : Nat]
  BY DEF TypeOK
<1>7. placed' = placed \cup {[t |-> t, file |-> i, bytes |-> offsets[t][i]] : i \in 1..k}
  BY DEF Renamed
<1>8. placed' \in SUBSET [t : Transfer, file : Nat, bytes : Nat]
  BY <1>5, <1>6, <1>7
<1> QED
  BY <1>1, <1>8

----------------------------------------------------------------------------
(* Types *)

\* The variables of the sending side, and what they need to be of their types.
SenderTyped ==
  /\ sState \in [Transfer -> TransferState]
  /\ progress \in [Transfer -> Nat]
  /\ pc \in [Transfer -> Place]
  /\ file \in [Transfer -> Nat]
  /\ offset \in [Transfer -> Nat]
  /\ signals \in [Transfer -> Seq(Message)]
  /\ registered \in [Transfer -> BOOLEAN]
  /\ \A t \in Transfer : file[t] \in Files(t)
  /\ overtaken \in SUBSET Transfer

SourceTyped ==
  /\ source \in [Transfer -> Seq(Nat)]
  /\ \A t \in Transfer : Len(source[t]) = Len(Manifest[t])

ReceiverTyped ==
  /\ rState \in [Transfer -> TransferState]
  /\ bytes \in [Transfer -> Nat]
  /\ offsets \in [Transfer -> Seq(Nat)]
  /\ \A t \in Transfer : Len(offsets[t]) = Len(Manifest[t])
  /\ partDir \in [Transfer -> BOOLEAN]
  /\ parts \in [Transfer -> BOOLEAN]
  /\ dest \in [Name -> Transfer \cup {Nobody, Someone}]
  /\ placed \in SUBSET [t : Transfer, file : Nat, bytes : Nat]
  /\ unremoved \in SUBSET Transfer

QueuesTyped ==
  /\ connected \in BOOLEAN
  /\ outbound \in [Side -> Seq(Message)]
  /\ wire \in [Side -> Seq(Message)]

LEMMA TypedParts ==
  TypeOK <=> /\ QueuesTyped /\ SenderTyped /\ SourceTyped /\ ReceiverTyped
             /\ spent \in [EnvironmentKind -> Nat]
BY DEF TypeOK, QueuesTyped, SenderTyped, SourceTyped, ReceiverTyped

LEMMA SourceUnchanged ==
  ASSUME SourceTyped, UNCHANGED source
  PROVE  SourceTyped'
BY DEF SourceTyped

LEMMA SenderUnchanged ==
  ASSUME SenderTyped, UNCHANGED senderVars
  PROVE  SenderTyped'
BY DEF SenderTyped, senderVars

LEMMA ReceiverUnchanged ==
  ASSUME ReceiverTyped, UNCHANGED receiverVars
  PROVE  ReceiverTyped'
BY DEF ReceiverTyped, receiverVars

LEMMA InitTyped == Init => TypeOK
<1>1. SUFFICES ASSUME Init
               PROVE  TypeOK
  OBVIOUS
<1>2. <<>> \in Seq(Message)
  BY EmptySeq
<1>3. \A t \in Transfer : /\ NoBytes(t) \in Seq(Nat)
                          /\ Len(NoBytes(t)) = Len(Manifest[t])
  <2>1. \A t \in Transfer : NoBytes(t) \in [Files(t) -> Nat]
    BY DEF NoBytes
  <2> QED
    BY <2>1, PerFile
<1>4. \A t \in Transfer : /\ [i \in Files(t) |-> Size(t, i)] \in Seq(Nat)
                          /\ Len([i \in Files(t) |-> Size(t, i)]) = Len(Manifest[t])
  <2>1. \A t \in Transfer : [i \in Files(t) |-> Size(t, i)] \in [Files(t) -> Nat]
    BY FilesFacts
  <2> QED
    BY <2>1, PerFile
<1>5. QueuesTyped
  BY <1>1, <1>2 DEF Init, QueuesTyped
<1>6. SenderTyped
  <2>1. \A t \in Transfer : 1 \in Files(t)
    BY FilesFacts DEF Files
  <2> QED
    BY <1>1, <1>2, <2>1 DEF Init, SenderTyped, TransferState, Place
<1>7. SourceTyped
  BY <1>1, <1>4 DEF Init, SourceTyped
<1>8. ReceiverTyped
  BY <1>1, <1>3 DEF Init, ReceiverTyped, TransferState
<1> QED
  BY <1>1, <1>5, <1>6, <1>7, <1>8, TypedParts DEF Init

\* What run_sender, its user and what arrives for it do to the types.
LEMMA SenderStepTyped ==
  ASSUME TypeOK, NEW t \in Transfer,
         \/ RunSender(t) \/ SenderReadFails(t) \/ start(t) \/ SenderCancels(t)
         \/ SenderHandlesAnswer(t) \/ SenderHandlesCancel(t)
  PROVE  TypeOK'
<1>0. /\ QueuesTyped /\ SenderTyped /\ SourceTyped /\ ReceiverTyped
      /\ spent \in [EnvironmentKind -> Nat]
  BY TypedParts
<1>a. UNCHANGED <<source, receiverVars>>
  BY DEF RunSender, SenderAccepted, SenderRejected, SenderAcked, SenderFinished,
         SenderStopped, Signalled, SenderTimeout, SenderReads, SenderNextFile,
         SenderCompletes, SenderReadFails, start, startOffers, SenderCancels,
         SenderHandlesAnswer, SenderHandlesCancel
<1>b. spent' \in [EnvironmentKind -> Nat]
  <2>1. CASE SenderReadFails(t) \/ SenderCancels(t)
    BY <2>1, SpendType DEF SenderReadFails, SenderCancels, EnvironmentKind
  <2>2. CASE \/ RunSender(t) \/ start(t) \/ SenderHandlesAnswer(t)
             \/ SenderHandlesCancel(t)
    BY <1>0, <2>2
       DEF RunSender, SenderAccepted, SenderRejected, SenderAcked, SenderFinished,
           SenderStopped, Signalled, SenderTimeout, SenderReads, SenderNextFile,
           SenderCompletes, start, startOffers, SenderHandlesAnswer,
           SenderHandlesCancel
  <2> QED
    BY <2>1, <2>2
<1>c. SUFFICES QueuesTyped' /\ SenderTyped'
  BY <1>0, <1>a, <1>b, TypedParts, SourceUnchanged, ReceiverUnchanged DEF TypeOK,
     QueuesTyped, SenderTyped, SourceTyped, ReceiverTyped
<1>1. CASE SenderAccepted(t) \/ SenderRejected(t) \/ SenderFinished(t)
  BY <1>0, <1>1, SignalledType
     DEF SenderAccepted, SenderRejected, SenderFinished, Signalled, QueuesTyped,
         SenderTyped, TransferState, Place
<1>2. CASE SenderAcked(t)
  BY <1>0, <1>2, SignalledType
     DEF SenderAcked, Signalled, QueuesTyped, SenderTyped, TransferState, Place
<1>3. CASE SenderStopped(t)
  BY <1>0, <1>3, SignalledType, FailType
     DEF SenderStopped, Signalled, QueuesTyped, SenderTyped
<1>4. CASE SenderTimeout(t) \/ SenderReadFails(t)
  BY <1>0, <1>4, FailType
     DEF SenderTimeout, SenderReadFails, QueuesTyped, SenderTyped
<1>5. CASE SenderReads(t)
  <2>1. Chunk(t, file[t], offset[t]) \in Message
    BY <1>0, ChunkType DEF SenderTyped
  <2>2. outbound' \in [Side -> Seq(Message)]
    BY <1>5, <2>1, SendType DEF SenderReads, Side
  <2> QED
    BY <1>0, <1>5, <2>2 DEF SenderReads, QueuesTyped, SenderTyped, Place
<1>6. CASE SenderNextFile(t)
  <2>1. file[t] \in Files(t) /\ file[t] # Len(Manifest[t])
    BY <1>0, <1>6 DEF SenderNextFile, EndOfFile, LastFile, SenderTyped
  <2>2. file[t] + 1 \in Files(t)
    BY <2>1, FilesFacts DEF Files
  <2>3. file[t] + 1 \in Nat
    BY <2>2, FilesFacts
  <2> QED
    BY <1>0, <1>6, <2>2, <2>3 DEF SenderNextFile, QueuesTyped, SenderTyped
<1>7. CASE SenderCompletes(t)
  <2>1. outbound' \in [Side -> Seq(Message)]
    BY <1>7, MsgType, SendType DEF SenderCompletes, Side, MessageKind
  <2> QED
    BY <1>0, <1>7, <2>1 DEF SenderCompletes, EndOfFile, QueuesTyped, SenderTyped, Place
<1>8. CASE start(t)
  BY <1>0, <1>8 DEF start, QueuesTyped, SenderTyped, Place, TransferState
<1>12. CASE startOffers(t)
  <2>1. outbound' \in [Side -> Seq(Message)]
    BY <1>12, MsgType, SendType DEF startOffers, Side, MessageKind
  <2> QED
    BY <1>0, <1>12, <2>1 DEF startOffers, QueuesTyped, SenderTyped, Place
<1>9. CASE SenderCancels(t)
  <2>1. outbound' \in [Side -> Seq(Message)] /\ signals' \in [Transfer -> Seq(Message)]
    BY <1>9, MsgType, SendType, RouteSignalType DEF SenderCancels, Side, MessageKind
  <2> QED
    BY <1>0, <1>9, <2>1 DEF SenderCancels, QueuesTyped, SenderTyped, TransferState
<1>10. CASE SenderHandlesAnswer(t)
  <2>1. PICK kind \in {"Accepted", "Rejected", "Ack", "Finished"} :
          Receive("sender", kind, t)
    BY <1>10 DEF SenderHandlesAnswer
  <2>2. /\ wire' \in [Side -> Seq(Message)]
        /\ Head(wire["receiver"]) \in Message
    BY <2>1, ReceiveType DEF Side, Other
  <2>3. signals' \in [Transfer -> Seq(Message)]
    BY <1>10, <2>2, RouteSignalType DEF SenderHandlesAnswer
  <2> QED
    BY <1>0, <1>10, <2>2, <2>3 DEF SenderHandlesAnswer, QueuesTyped, SenderTyped
<1>11. CASE SenderHandlesCancel(t)
  <2>2. /\ wire' \in [Side -> Seq(Message)]
        /\ Head(wire["receiver"]) \in Message
    BY <1>11, ReceiveType DEF Side, Other, SenderHandlesCancel
  <2>3. signals' \in [Transfer -> Seq(Message)]
    BY <1>11, <2>2, RouteSignalType DEF SenderHandlesCancel
  <2> QED
    BY <1>0, <1>11, <2>2, <2>3
       DEF SenderHandlesCancel, QueuesTyped, SenderTyped, TransferState
<1> QED
  BY <1>1, <1>2, <1>3, <1>4, <1>5, <1>6, <1>7, <1>8, <1>9, <1>10, <1>11, <1>12
     DEF RunSender

LEMMA WholeFits ==
  ASSUME TypeOK, NEW t \in Transfer, NEW i \in Files(t), NEW n \in Nat
  PROVE  /\ [offsets EXCEPT ![t][i] = n] \in [Transfer -> Seq(Nat)]
         /\ \A u \in Transfer : Len([offsets EXCEPT ![t][i] = n][u]) = Len(Manifest[u])
         /\ [source EXCEPT ![t][i] = n] \in [Transfer -> Seq(Nat)]
         /\ \A u \in Transfer : Len([source EXCEPT ![t][i] = n][u]) = Len(Manifest[u])
<1>1. offsets[t] \in [Files(t) -> Nat] /\ source[t] \in [Files(t) -> Nat]
  BY PerFileInverse DEF TypeOK
<1>2. [offsets[t] EXCEPT ![i] = n] \in [Files(t) -> Nat]
  BY <1>1
<1>3. [source[t] EXCEPT ![i] = n] \in [Files(t) -> Nat]
  BY <1>1
<1>4. /\ [offsets[t] EXCEPT ![i] = n] \in Seq(Nat)
      /\ Len([offsets[t] EXCEPT ![i] = n]) = Len(Manifest[t])
      /\ [source[t] EXCEPT ![i] = n] \in Seq(Nat)
      /\ Len([source[t] EXCEPT ![i] = n]) = Len(Manifest[t])
  BY <1>2, <1>3, PerFile
<1> QED
  BY <1>4 DEF TypeOK

\* What the receiver, its user and what arrives for it do to the types.
LEMMA ReceiverStepTyped ==
  ASSUME TypeOK, NEW t \in Transfer,
         \/ accept(t) \/ AcceptFails(t) \/ reject(t) \/ ReceiverCancels(t)
         \/ ReceiverHandlesOffer(t) \/ ReceiverHandlesCancel(t)
         \/ ReceiverWritesChunk(t) \/ ReceiverDropsChunk(t)
         \/ ReceiverFinishes(t) \/ ReceiverFinishFails(t)
  PROVE  TypeOK'
<1>0. /\ QueuesTyped /\ SenderTyped /\ SourceTyped /\ ReceiverTyped
      /\ spent \in [EnvironmentKind -> Nat]
  BY TypedParts
<1>a. UNCHANGED <<source, senderVars>>
  BY DEF accept, AcceptFails, reject, ReceiverCancels, ReceiverHandlesOffer,
         ReceiverHandlesCancel, ReceiverWritesChunk, ReceiverDropsChunk,
         ReceiverFinishes, ReceiverFinishFails
<1>b. spent' \in [EnvironmentKind -> Nat]
  <2>1. CASE AcceptFails(t) \/ ReceiverCancels(t)
    BY <2>1, SpendType DEF AcceptFails, ReceiverCancels, EnvironmentKind
  <2>2. CASE ReceiverDropsChunk(t) \/ ReceiverFinishFails(t)
    <3>1. Spend("io") \/ UNCHANGED spent
      BY <2>2 DEF ReceiverDropsChunk, ReceiverFinishFails
    <3> QED
      BY <1>0, <3>1, SpendType DEF EnvironmentKind
  <2>3. CASE \/ accept(t) \/ reject(t) \/ ReceiverHandlesOffer(t)
             \/ ReceiverHandlesCancel(t) \/ ReceiverWritesChunk(t) \/ ReceiverFinishes(t)
    BY <1>0, <2>3 DEF accept, reject, ReceiverHandlesOffer, ReceiverHandlesCancel,
                      ReceiverWritesChunk, ReceiverFinishes
  <2> QED
    BY <2>1, <2>2, <2>3
<1>c. SUFFICES QueuesTyped' /\ ReceiverTyped'
  BY <1>0, <1>a, <1>b, SourceUnchanged, SenderUnchanged DEF TypeOK,
     QueuesTyped, SenderTyped, SourceTyped, ReceiverTyped
<1>1. CASE accept(t)
  <2>1. outbound' \in [Side -> Seq(Message)]
    BY <1>1, MsgType, SendType DEF accept, Side, MessageKind
  <2> QED
    BY <1>0, <1>1, <2>1 DEF accept, QueuesTyped, ReceiverTyped, TransferState
<1>2. CASE AcceptFails(t)
  BY <1>0, <1>2 DEF AcceptFails, QueuesTyped, ReceiverTyped
<1>3. CASE reject(t)
  <2>1. outbound' \in [Side -> Seq(Message)]
    BY <1>3, MsgType, SendType DEF reject, Side, MessageKind
  <2> QED
    BY <1>0, <1>3, <2>1 DEF reject, QueuesTyped, ReceiverTyped, TransferState
<1>4. CASE ReceiverCancels(t)
  <2>1. outbound' \in [Side -> Seq(Message)]
    BY <1>4, MsgType, SendType DEF ReceiverCancels, Side, MessageKind
  <2> QED
    BY <1>0, <1>4, <2>1 DEF ReceiverCancels, cleanup, QueuesTyped, ReceiverTyped, TransferState
<1>5. CASE ReceiverHandlesOffer(t)
  <2>1. wire' \in [Side -> Seq(Message)]
    BY <1>5, ReceiveType DEF Side, ReceiverHandlesOffer
  <2>2. NoBytes(t) \in Seq(Nat) /\ Len(NoBytes(t)) = Len(Manifest[t])
    BY PerFile DEF NoBytes
  <2>3. UNCHANGED <<connected, outbound, partDir, parts, dest, placed, unremoved>>
    BY <1>5 DEF ReceiverHandlesOffer
  <2>4. CASE rState[t] = "Unknown"
    <3>1. /\ rState' = [rState EXCEPT ![t] = "Waiting"]
          /\ bytes' = [bytes EXCEPT ![t] = 0]
          /\ offsets' = [offsets EXCEPT ![t] = NoBytes(t)]
      BY <1>5, <2>4 DEF ReceiverHandlesOffer
    <3> QED
      BY <1>0, <2>1, <2>2, <2>3, <3>1 DEF QueuesTyped, ReceiverTyped, TransferState
  <2>5. CASE rState[t] # "Unknown"
    <3>1. UNCHANGED <<rState, bytes, offsets>>
      BY <1>5, <2>5 DEF ReceiverHandlesOffer
    <3> QED
      BY <1>0, <2>1, <2>3, <3>1 DEF QueuesTyped, ReceiverTyped
  <2> QED
    BY <2>4, <2>5
<1>6. CASE ReceiverHandlesCancel(t)
  <2>1. wire' \in [Side -> Seq(Message)]
    BY <1>6, ReceiveType DEF Side, ReceiverHandlesCancel
  <2>2. UNCHANGED <<connected, outbound, bytes, offsets, dest, placed>>
    BY <1>6 DEF ReceiverHandlesCancel
  <2>3. CASE rState[t] = "Unknown"
    BY <1>0, <1>6, <2>1, <2>2, <2>3
       DEF ReceiverHandlesCancel, QueuesTyped, ReceiverTyped
  <2>4. CASE rState[t] # "Unknown"
    <3>1. cleanup(t) /\ rState' = [rState EXCEPT ![t] = "Cancelled"]
      BY <1>6, <2>4 DEF ReceiverHandlesCancel
    <3>2. /\ partDir' \in [Transfer -> BOOLEAN] /\ parts' \in [Transfer -> BOOLEAN]
          /\ unremoved' \in SUBSET Transfer
      BY <1>0, <3>1 DEF cleanup, ReceiverTyped
    <3> QED
      BY <1>0, <2>1, <2>2, <3>1, <3>2 DEF QueuesTyped, ReceiverTyped, TransferState
  <2> QED
    BY <2>3, <2>4
<1>7. CASE ReceiverWritesChunk(t)
  <2> DEFINE m == Head(wire["sender"])
  <2>1. wire' \in [Side -> Seq(Message)] /\ m \in Message
    BY <1>7, ReceiveType DEF Side, Other, ReceiverWritesChunk
  <2>2. m.file \in Files(t) /\ m.file \in Nat /\ m.offset + 1 \in Nat
    BY <1>7, <2>1 DEF ReceiverWritesChunk, ChunkFits, Message
  <2>3. outbound' \in [Side -> Seq(Message)]
    BY <1>7, <2>2, ChunkType, SendType DEF ReceiverWritesChunk, Side
  <2>4. offsets' \in [Transfer -> Seq(Nat)]
        /\ \A u \in Transfer : Len(offsets'[u]) = Len(Manifest[u])
    BY <1>7, <2>2, WholeFits DEF ReceiverWritesChunk
  <2> HIDE DEF m
  <2>5. UNCHANGED <<connected, rState, partDir, parts, dest, placed, unremoved>>
    BY <1>7 DEF ReceiverWritesChunk
  <2>6. bytes' = [bytes EXCEPT ![t] = @ + 1]
    BY <1>7 DEF ReceiverWritesChunk
  <2>7. bytes' \in [Transfer -> Nat]
    BY <1>0, <2>6 DEF ReceiverTyped
  <2> QED
    BY <1>0, <2>1, <2>3, <2>4, <2>5, <2>7 DEF QueuesTyped, ReceiverTyped
<1>8. CASE ReceiverDropsChunk(t)
  <2>1. wire' \in [Side -> Seq(Message)]
    BY <1>8, ReceiveType DEF Side, ReceiverDropsChunk
  <2> QED
    BY <1>0, <1>8, <2>1, ReceiverUnchanged DEF ReceiverDropsChunk, QueuesTyped
<1>9. CASE ReceiverFinishes(t)
  <2>1. wire' \in [Side -> Seq(Message)]
    BY <1>9, ReceiveType DEF Side, ReceiverFinishes
  <2>2. outbound' \in [Side -> Seq(Message)]
    BY <1>9, MsgType, SendType DEF ReceiverFinishes, Side, MessageKind
  <2>3. /\ dest' \in [Name -> Transfer \cup {Nobody, Someone}]
        /\ placed' \in SUBSET [t : Transfer, file : Nat, bytes : Nat]
    <3>1. Len(Manifest[t]) \in 0..Len(Manifest[t])
      BY FilesFacts
    <3> QED
      BY <1>9, <3>1, RenamedType DEF ReceiverFinishes
  <2> QED
    BY <1>0, <1>9, <2>1, <2>2, <2>3
       DEF ReceiverFinishes, QueuesTyped, ReceiverTyped, TransferState
<1>10. CASE ReceiverFinishFails(t)
  <2>1. wire' \in [Side -> Seq(Message)]
    BY <1>10, ReceiveType DEF Side, ReceiverFinishFails
  <2>2. /\ dest' \in [Name -> Transfer \cup {Nobody, Someone}]
        /\ placed' \in SUBSET [t : Transfer, file : Nat, bytes : Nat]
    <3>1. CASE Whole(t)
      <4>1. PICK k \in 0..Len(Manifest[t]) : Renamed(t, k)
        BY <1>10, <3>1 DEF ReceiverFinishFails
      <4> QED
        BY <4>1, RenamedType
    <3>2. CASE ~Whole(t)
      BY <1>0, <1>10, <3>2 DEF ReceiverFinishFails, ReceiverTyped
    <3> QED
      BY <3>1, <3>2
  <2> QED
    BY <1>0, <1>10, <2>1, <2>2 DEF ReceiverFinishFails, QueuesTyped, ReceiverTyped
<1> QED
  BY <1>1, <1>2, <1>3, <1>4, <1>5, <1>6, <1>7, <1>8, <1>9, <1>10

\* What the environment and the connection do.
LEMMA OtherStepTyped ==
  ASSUME TypeOK,
         \/ \E t \in Transfer : SourceResized(t)
         \/ \E side \in Side : Route(side)
         \/ \E f \in Name : FileCreated(f)
         \/ Connect \/ Disconnect \/ SenderCrashes \/ ReceiverCrashes
  PROVE  TypeOK'
<1>0. /\ QueuesTyped /\ SenderTyped /\ SourceTyped /\ ReceiverTyped
      /\ spent \in [EnvironmentKind -> Nat]
  BY TypedParts
<1>e. <<>> \in Seq(Message)
  BY EmptySeq
<1>1. CASE \E t \in Transfer : SourceResized(t)
  <2>1. PICK t \in Transfer : SourceResized(t)
    BY <1>1
  <2>2. PICK i \in Files(t) : \E size \in 0..(Size(t, i) + 1) :
          source' = [source EXCEPT ![t][i] = size]
    BY <2>1 DEF SourceResized
  <2>3. PICK size \in 0..(Size(t, i) + 1) : source' = [source EXCEPT ![t][i] = size]
    BY <2>2
  <2>4. size \in Nat
    BY FilesFacts
  <2>5. SourceTyped'
    BY <2>3, <2>4, WholeFits DEF SourceTyped
  <2>6. spent' \in [EnvironmentKind -> Nat]
    BY <2>1, SpendType DEF SourceResized, EnvironmentKind
  <2> QED
    BY <1>0, <2>1, <2>5, <2>6, SenderUnchanged, ReceiverUnchanged
       DEF SourceResized, TypeOK, QueuesTyped, SenderTyped, SourceTyped, ReceiverTyped
<1>2. CASE \E side \in Side : Route(side)
  <2>1. PICK side \in Side : Route(side)
    BY <1>2
  <2>2. outbound[side] \in Seq(Message) /\ outbound[side] # <<>> /\ wire[side] \in Seq(Message)
    BY <1>0, <2>1 DEF Route, QueuesTyped
  <2>3. Tail(outbound[side]) \in Seq(Message) /\ Head(outbound[side]) \in Message
    BY <2>2, HeadTailProperties
  <2>4. Append(wire[side], Head(outbound[side])) \in Seq(Message)
    BY <2>2, <2>3, AppendProperties
  <2>5. QueuesTyped'
    BY <1>0, <2>1, <2>3, <2>4 DEF Route, QueuesTyped
  <2> QED
    BY <1>0, <2>1, <2>5, SourceUnchanged, SenderUnchanged, ReceiverUnchanged
       DEF Route, TypeOK, QueuesTyped, SenderTyped, SourceTyped, ReceiverTyped
<1>3. CASE \E f \in Name : FileCreated(f)
  <2>1. PICK f \in Name : FileCreated(f)
    BY <1>3
  <2>2. spent' \in [EnvironmentKind -> Nat]
    BY <2>1, SpendType DEF FileCreated, EnvironmentKind
  <2>3. ReceiverTyped'
    BY <1>0, <2>1 DEF FileCreated, ReceiverTyped
  <2> QED
    BY <1>0, <2>1, <2>2, <2>3, SourceUnchanged, SenderUnchanged
       DEF FileCreated, TypeOK, QueuesTyped, SenderTyped, SourceTyped, ReceiverTyped
<1>4. CASE Connect
  BY <1>0, <1>4, SourceUnchanged, SenderUnchanged, ReceiverUnchanged
     DEF Connect, TypeOK, QueuesTyped, SenderTyped, SourceTyped, ReceiverTyped
<1>5. CASE Disconnect
  <2>1. PICK i \in 0..Len(wire["sender"]), j \in 0..Len(wire["receiver"]) :
          wire' = [wire EXCEPT !["sender"] = SubSeq(@, 1, i),
                               !["receiver"] = SubSeq(@, 1, j)]
    BY <1>5 DEF Disconnect
  <2>2. SubSeq(wire["sender"], 1, i) \in Seq(Message)
    BY <1>0, PrefixType DEF QueuesTyped, Side
  <2>3. SubSeq(wire["receiver"], 1, j) \in Seq(Message)
    BY <1>0, PrefixType DEF QueuesTyped, Side
  <2>4. QueuesTyped'
    BY <1>0, <1>5, <2>1, <2>2, <2>3 DEF Disconnect, QueuesTyped
  <2>5. spent' \in [EnvironmentKind -> Nat]
    BY <1>5, SpendType DEF Disconnect, EnvironmentKind
  <2> QED
    BY <1>0, <1>5, <2>4, <2>5, SourceUnchanged, SenderUnchanged, ReceiverUnchanged
       DEF Disconnect, TypeOK, QueuesTyped, SenderTyped, SourceTyped, ReceiverTyped
<1>6. ASSUME NEW side \in Side, Interrupted(side)
      PROVE  QueuesTyped' /\ spent' \in [EnvironmentKind -> Nat]
  <2>1. PICK i \in 0..Len(wire[side]) :
          wire' = [wire EXCEPT ![side] = SubSeq(@, 1, i), ![Other(side)] = <<>>]
    BY <1>6 DEF Interrupted
  <2>2. SubSeq(wire[side], 1, i) \in Seq(Message)
    BY <1>0, PrefixType DEF QueuesTyped
  <2>3. QueuesTyped'
    BY <1>0, <1>6, <1>e, <2>1, <2>2 DEF Interrupted, QueuesTyped
  <2> QED
    BY <1>6, <2>3, SpendType DEF Interrupted, EnvironmentKind
<1>7. CASE SenderCrashes
  <2>1. QueuesTyped' /\ spent' \in [EnvironmentKind -> Nat]
    BY <1>6, <1>7 DEF SenderCrashes, Side
  <2>2. SenderTyped'
    BY <1>0, <1>e, <1>7 DEF SenderCrashes, SenderTyped, TransferState, Place
  <2> QED
    BY <1>0, <1>7, <2>1, <2>2, SourceUnchanged, ReceiverUnchanged
       DEF SenderCrashes, TypeOK, QueuesTyped, SenderTyped, SourceTyped, ReceiverTyped
<1>8. CASE ReceiverCrashes
  <2>1. QueuesTyped' /\ spent' \in [EnvironmentKind -> Nat]
    BY <1>6, <1>8 DEF ReceiverCrashes, Side
  <2>2. \A t \in Transfer : NoBytes(t) \in Seq(Nat) /\ Len(NoBytes(t)) = Len(Manifest[t])
    BY PerFile DEF NoBytes
  <2>3. ReceiverTyped'
    BY <1>0, <2>2, <1>8 DEF ReceiverCrashes, ReceiverTyped, TransferState
  <2> QED
    BY <1>0, <1>8, <2>1, <2>3, SourceUnchanged, SenderUnchanged
       DEF ReceiverCrashes, TypeOK, QueuesTyped, SenderTyped, SourceTyped, ReceiverTyped
<1> QED
  BY <1>1, <1>2, <1>3, <1>4, <1>5, <1>7, <1>8

LEMMA NextTyped == TypeOK /\ [Next]_vars => TypeOK'
<1>1. SUFFICES ASSUME TypeOK, Next \/ UNCHANGED vars
               PROVE  TypeOK'
  OBVIOUS
<1>2. CASE UNCHANGED vars
  BY <1>1, <1>2 DEF vars, senderVars, receiverVars, TypeOK
<1>3. CASE Next
  BY <1>1, <1>3, SenderStepTyped, ReceiverStepTyped, OtherStepTyped
     DEF Next, Handle, User
<1> QED
  BY <1>1, <1>2, <1>3

\* Every reachable state has its variables in their types: a file that is
\* being sent is one of its manifest's, and there is an offset for each.
THEOREM TypeCorrect == Spec => []TypeOK
<1> QED
  BY InitTyped, NextTyped, PTL DEF Spec

----------------------------------------------------------------------------
(* What is put in place, and what the sender is told of it *)

\* Every file of t is in place, whole.
AllPlaced(t) ==
  \A i \in Files(t) : [t |-> t, file |-> i, bytes |-> Size(t, i)] \in placed

\* The messages that may be on their way to a sender.
Justified == {m \in Message : m.kind = "Finished" => AllPlaced(m.t)}

\* Nobody says Finished, and no sender believes it, before all is in place.
PlacedInv ==
  /\ outbound["receiver"] \in Seq(Justified)
  /\ wire["receiver"] \in Seq(Justified)
  /\ \A t \in Transfer : signals[t] \in Seq({m \in Justified : m.t = t})
  /\ PlacedIsWhole
  /\ CompletedIsPlaced

LEMMA SeqMonotone ==
  ASSUME NEW S, NEW T, S \subseteq T, NEW s \in Seq(S)
  PROVE  s \in Seq(T)
BY ElementOfSeq, LenProperties

LEMMA TailIn ==
  ASSUME NEW S, NEW s \in Seq(S), s # <<>>
  PROVE  Tail(s) \in Seq(S) /\ Head(s) \in S
BY HeadTailProperties

LEMMA AppendIn ==
  ASSUME NEW S, NEW s \in Seq(S), NEW x \in S
  PROVE  Append(s, x) \in Seq(S)
BY AppendProperties

LEMMA InitPlaced == Init => PlacedInv
<1>1. \A S : <<>> \in Seq(S)
  BY EmptySeq
<1> QED
  BY <1>1 DEF Init, PlacedInv, PlacedIsWhole, CompletedIsPlaced, Side

\* Placing more files takes no justification away.
LEMMA PlacedGrows ==
  ASSUME placed \subseteq placed'
  PROVE  /\ Justified \subseteq Justified'
         /\ \A t \in Transfer : AllPlaced(t) => AllPlaced(t)'
BY DEF Justified, AllPlaced

\* Whatever leaves the queues towards the sender and its view alone.
LEMMA PlacedUndisturbed ==
  ASSUME PlacedInv, placed \subseteq placed', PlacedIsWhole',
         UNCHANGED <<sState, signals>>,
         \/ outbound'["receiver"] = outbound["receiver"]
         \/ \E m \in Justified' : outbound'["receiver"] = Append(outbound["receiver"], m),
         UNCHANGED wire["receiver"]
  PROVE  PlacedInv'
<1>1. Justified \subseteq Justified'
  BY PlacedGrows
<1>2. outbound["receiver"] \in Seq(Justified') /\ wire["receiver"] \in Seq(Justified')
  BY <1>1, SeqMonotone DEF PlacedInv
<1>3. outbound'["receiver"] \in Seq(Justified')
  BY <1>2, AppendIn
<1>4. \A t \in Transfer : signals[t] \in Seq({m \in Justified' : m.t = t})
  <2> TAKE t \in Transfer
  <2> DEFINE Own == {m \in Justified : m.t = t}
             Now == {m \in Justified' : m.t = t}
  <2>1. Own \subseteq Now
    BY <1>1
  <2>2. signals[t] \in Seq(Own)
    BY DEF PlacedInv
  <2> HIDE DEF Own, Now
  <2>3. signals[t] \in Seq(Now)
    BY <2>1, <2>2, SeqMonotone
  <2> QED
    BY <2>3 DEF Now
<1>5. CompletedIsPlaced'
  <2>1. CompletedIsPlaced
    BY DEF PlacedInv
  <2>2. \A t \in Transfer : sState'[t] = "Completed" => AllPlaced(t)
    BY <2>1 DEF CompletedIsPlaced, AllPlaced
  <2>3. \A t \in Transfer : sState'[t] = "Completed" => AllPlaced(t)'
    BY <2>2, PlacedGrows
  <2> QED
    BY <2>3 DEF CompletedIsPlaced, AllPlaced
<1> QED
  BY <1>2, <1>3, <1>4, <1>5 DEF PlacedInv

LEMMA SenderStepPlaced ==
  ASSUME TypeOK, PlacedInv, NEW t \in Transfer,
         \/ RunSender(t) \/ SenderReadFails(t) \/ start(t) \/ SenderCancels(t)
         \/ SenderHandlesAnswer(t) \/ SenderHandlesCancel(t)
  PROVE  PlacedInv'
<1> DEFINE Own(u) == {m \in Justified : m.t = u}
<1>1. UNCHANGED <<placed, dest>>
  BY DEF RunSender, SenderAccepted, SenderRejected, SenderAcked, SenderFinished,
         SenderStopped, Signalled, SenderTimeout, SenderReads, SenderNextFile,
         SenderCompletes, SenderReadFails, start, startOffers, SenderCancels,
         SenderHandlesAnswer, SenderHandlesCancel, receiverVars
<1>2. outbound'["receiver"] = outbound["receiver"]
  <2>1. UNCHANGED outbound \/ \E m : send("sender", m)
    BY DEF RunSender, SenderAccepted, SenderRejected, SenderAcked, SenderFinished,
           SenderStopped, fail, SenderTimeout, SenderReads, SenderNextFile,
           SenderCompletes, SenderReadFails, start, startOffers, SenderCancels,
           SenderHandlesAnswer, SenderHandlesCancel
  <2> QED
    BY <2>1 DEF send, TypeOK, Side
<1>3. Justified' = Justified /\ PlacedIsWhole'
  BY <1>1 DEF Justified, AllPlaced, PlacedInv, PlacedIsWhole
<1>4. \A u \in Transfer : signals[u] \in Seq(Own(u))
  BY DEF PlacedInv
<1>5. SUFFICES /\ wire'["receiver"] \in Seq(Justified)
               /\ \A u \in Transfer : signals'[u] \in Seq(Own(u))
               /\ CompletedIsPlaced'
  BY <1>2, <1>3 DEF PlacedInv
<1>6. CASE SenderHandlesAnswer(t) \/ SenderHandlesCancel(t)
  <2>1. PICK kind \in MessageKind : Receive("sender", kind, t)
    BY <1>6 DEF SenderHandlesAnswer, SenderHandlesCancel, MessageKind
  <2> DEFINE m == Head(wire["receiver"])
  <2>2. /\ wire["receiver"] # <<>> /\ m.t = t
        /\ wire'["receiver"] = Tail(wire["receiver"])
    BY <2>1 DEF Receive, Other, TypeOK, Side
  <2>3. m \in Justified /\ wire'["receiver"] \in Seq(Justified)
    BY <2>2, TailIn DEF PlacedInv
  <2>4. Append(signals[t], m) \in Seq(Own(t))
    BY <1>4, <2>2, <2>3, AppendIn
  <2>5. route_signal(t, m)
    BY <1>6 DEF SenderHandlesAnswer, SenderHandlesCancel
  <2>6. \A u \in Transfer : signals'[u] \in Seq(Own(u))
    BY <1>4, <2>4, <2>5 DEF route_signal, TypeOK
  <2>7. CompletedIsPlaced'
    BY <1>1, <1>6
       DEF SenderHandlesAnswer, SenderHandlesCancel, PlacedInv, CompletedIsPlaced, TypeOK
  <2> QED
    BY <2>3, <2>6, <2>7
<1>7. CASE SenderCancels(t)
  <2>1. Msg("Cancel", t) \in Own(t)
    <3>1. /\ Msg("Cancel", t) \in Message
          /\ Msg("Cancel", t).kind = "Cancel" /\ Msg("Cancel", t).t = t
      BY MsgType DEF Msg, MessageKind
    <3> QED
      BY <3>1 DEF Justified
  <2>2. Append(signals[t], Msg("Cancel", t)) \in Seq(Own(t))
    BY <1>4, <2>1, AppendIn
  <2>3. \A u \in Transfer : signals'[u] \in Seq(Own(u))
    BY <1>4, <1>7, <2>2 DEF SenderCancels, route_signal, TypeOK
  <2> QED
    BY <1>1, <1>7, <2>3 DEF SenderCancels, PlacedInv, CompletedIsPlaced, TypeOK
<1>8. CASE Signalled(t)
  <2>1. signals[t] # <<>> /\ signals' = [signals EXCEPT ![t] = Tail(@)] /\ UNCHANGED wire
    BY <1>8 DEF Signalled
  <2>2. Tail(signals[t]) \in Seq(Own(t)) /\ Head(signals[t]) \in Own(t)
    BY <1>4, <2>1, TailIn
  <2>3. \A u \in Transfer : signals'[u] \in Seq(Own(u))
    BY <1>4, <2>1, <2>2 DEF TypeOK
  <2>4. CASE SenderFinished(t)
    <3>1. AllPlaced(t)
      BY <2>2, <2>4 DEF SenderFinished, Justified
    <3>2. CompletedIsPlaced'
      BY <1>1, <2>4, <3>1
         DEF SenderFinished, PlacedInv, CompletedIsPlaced, AllPlaced, TypeOK
    <3> QED
      BY <2>1, <2>3, <3>2 DEF PlacedInv
  <2>5. CASE ~SenderFinished(t)
    <3>1. \/ UNCHANGED sState
          \/ \E x \in TransferState \ {"Completed"} : sState' = [sState EXCEPT ![t] = x]
      BY <1>8, <2>5 DEF RunSender, SenderAccepted, SenderRejected, SenderAcked,
         SenderStopped, fail, SenderTimeout, SenderReads, SenderNextFile, EndOfFile,
         SenderCompletes, SenderReadFails, start, startOffers, SenderCancels, Signalled,
         SenderHandlesAnswer, SenderHandlesCancel, TransferState
    <3>2. CompletedIsPlaced'
      BY <1>1, <3>1 DEF PlacedInv, CompletedIsPlaced, TypeOK
    <3> QED
      BY <2>1, <2>3, <3>2 DEF PlacedInv
  <2> QED
    BY <2>4, <2>5
<1>9. CASE \/ SenderTimeout(t) \/ SenderReads(t) \/ SenderNextFile(t)
           \/ SenderCompletes(t) \/ SenderReadFails(t) \/ start(t)
           \/ startOffers(t)
  <2>1. UNCHANGED <<wire, signals>>
    BY <1>9 DEF SenderTimeout, SenderReads, SenderNextFile, SenderCompletes,
                SenderReadFails, start, startOffers
  <2>2. \/ UNCHANGED sState
        \/ \E x \in TransferState \ {"Completed"} : sState' = [sState EXCEPT ![t] = x]
    BY <1>9 DEF fail, SenderTimeout, SenderReads, SenderNextFile, SenderCompletes,
                SenderReadFails, start, startOffers, TransferState
  <2>3. CompletedIsPlaced'
    BY <1>1, <2>2 DEF PlacedInv, CompletedIsPlaced, TypeOK
  <2> QED
    BY <1>4, <2>1, <2>3 DEF PlacedInv
<1> QED
  BY <1>6, <1>7, <1>8, <1>9
     DEF RunSender, SenderAccepted, SenderRejected, SenderAcked, SenderFinished, SenderStopped

\* Renaming files in adds them, as they are.
LEMMA RenamedFacts ==
  ASSUME TypeOK, PlacedIsWhole, NEW t \in Transfer, NEW k \in 0..Len(Manifest[t]),
         Whole(t), Renamed(t, k)
  PROVE  /\ placed \subseteq placed'
         /\ PlacedIsWhole'
         /\ k = Len(Manifest[t]) => AllPlaced(t)'
<1>1. placed' = placed \cup {[t |-> t, file |-> i, bytes |-> offsets[t][i]] : i \in 1..k}
  BY DEF Renamed
<1>2. \A i \in 1..k : i \in Files(t) /\ offsets[t][i] = Size(t, i)
  BY FilesFacts DEF Files, Whole
<1>3. \A i \in 1..k : [t |-> t, file |-> i, bytes |-> Size(t, i)] \in placed'
  BY <1>1, <1>2
<1>4. k = Len(Manifest[t]) => AllPlaced(t)'
  BY <1>3 DEF AllPlaced, Files
<1>5. ASSUME NEW p \in placed'
      PROVE  p.bytes = Size(p.t, p.file)
  <2>1. CASE p \in placed
    BY <2>1 DEF PlacedIsWhole
  <2>2. CASE p \notin placed
    <3>1. PICK i \in 1..k : p = [t |-> t, file |-> i, bytes |-> offsets[t][i]]
      BY <1>1, <1>5, <2>2
    <3> QED
      BY <1>2, <3>1
  <2> QED
    BY <2>1, <2>2
<1> QED
  BY <1>1, <1>4, <1>5 DEF PlacedIsWhole

LEMMA ReceiverStepPlaced ==
  ASSUME TypeOK, PlacedInv, NEW t \in Transfer,
         \/ accept(t) \/ AcceptFails(t) \/ reject(t) \/ ReceiverCancels(t)
         \/ ReceiverHandlesOffer(t) \/ ReceiverHandlesCancel(t)
         \/ ReceiverWritesChunk(t) \/ ReceiverDropsChunk(t)
         \/ ReceiverFinishes(t) \/ ReceiverFinishFails(t)
  PROVE  PlacedInv'
<1>1. UNCHANGED <<sState, signals>>
  BY DEF accept, AcceptFails, reject, ReceiverCancels, ReceiverHandlesOffer,
         ReceiverHandlesCancel, ReceiverWritesChunk, ReceiverDropsChunk,
         ReceiverFinishes, ReceiverFinishFails, senderVars
<1>2. UNCHANGED wire["receiver"]
  <2>1. UNCHANGED wire \/ \E kind : Receive("receiver", kind, t)
    BY DEF accept, AcceptFails, reject, ReceiverCancels, ReceiverHandlesOffer,
           ReceiverHandlesCancel, ReceiverWritesChunk, ReceiverDropsChunk,
           ReceiverFinishes, ReceiverFinishFails
  <2> QED
    BY <2>1 DEF Receive, Other, TypeOK, Side
<1>3. ASSUME NEW m \in Message, m.kind # "Finished", send("receiver", m)
      PROVE  /\ m \in Justified'
             /\ outbound'["receiver"] = Append(outbound["receiver"], m)
  BY <1>3 DEF Justified, send, TypeOK, Side
<1>4. CASE ReceiverFinishes(t)
  <2>1. Whole(t) /\ Renamed(t, Len(Manifest[t])) /\ send("receiver", Msg("Finished", t))
    BY <1>4 DEF ReceiverFinishes
  <2>2. Len(Manifest[t]) \in 0..Len(Manifest[t])
    BY FilesFacts
  <2>3. placed \subseteq placed' /\ PlacedIsWhole' /\ AllPlaced(t)'
    BY <2>1, <2>2, RenamedFacts DEF PlacedInv
  <2>4. /\ Msg("Finished", t) \in Message /\ Msg("Finished", t).t = t
    BY MsgType DEF Msg, MessageKind
  <2>5. Msg("Finished", t) \in Justified'
    BY <2>3, <2>4 DEF Justified
  <2>6. outbound'["receiver"] = Append(outbound["receiver"], Msg("Finished", t))
    BY <2>1 DEF send, TypeOK, Side
  <2> QED
    BY <1>1, <1>2, <2>3, <2>5, <2>6, PlacedUndisturbed
<1>5. CASE ReceiverFinishFails(t)
  <2>1. outbound' = outbound
    BY <1>5 DEF ReceiverFinishFails
  <2>2. placed \subseteq placed' /\ PlacedIsWhole'
    <3>1. CASE Whole(t)
      <4>1. PICK k \in 0..Len(Manifest[t]) : Renamed(t, k)
        BY <1>5, <3>1 DEF ReceiverFinishFails
      <4> QED
        BY <3>1, <4>1, RenamedFacts DEF PlacedInv
    <3>2. CASE ~Whole(t)
      BY <1>5, <3>2 DEF ReceiverFinishFails, PlacedInv, PlacedIsWhole
    <3> QED
      BY <3>1, <3>2
  <2> QED
    BY <1>1, <1>2, <2>1, <2>2, PlacedUndisturbed
<1>6. CASE ~ReceiverFinishes(t) /\ ~ReceiverFinishFails(t)
  <2>1. UNCHANGED placed
    BY <1>6 DEF accept, AcceptFails, reject, ReceiverCancels, ReceiverHandlesOffer,
           ReceiverHandlesCancel, ReceiverWritesChunk, ReceiverDropsChunk, receiverVars
  <2>2. PlacedIsWhole' /\ placed \subseteq placed'
    BY <2>1 DEF PlacedInv, PlacedIsWhole
  <2>3. \/ outbound'["receiver"] = outbound["receiver"]
        \/ \E m \in Justified' : outbound'["receiver"] = Append(outbound["receiver"], m)
    <3>1. CASE accept(t)
      BY <1>3, <3>1, MsgType DEF accept, Msg, MessageKind
    <3>2. CASE reject(t)
      BY <1>3, <3>2, MsgType DEF reject, Msg, MessageKind
    <3>3. CASE ReceiverCancels(t)
      BY <1>3, <3>3, MsgType DEF ReceiverCancels, Msg, MessageKind
    <3>4. CASE ReceiverWritesChunk(t)
      <4> DEFINE m == Head(wire["sender"])
      <4>1. m.file \in Nat /\ m.offset + 1 \in Nat
        BY <3>4, ReceiveType DEF ReceiverWritesChunk, Side, Other, Message
      <4>2. /\ Ack(t, m.file, m.offset + 1) \in Message
            /\ Ack(t, m.file, m.offset + 1).kind # "Finished"
        BY <4>1, ChunkType DEF Ack
      <4>3. send("receiver", Ack(t, m.file, m.offset + 1))
        BY <3>4 DEF ReceiverWritesChunk
      <4> QED
        BY <1>3, <4>2, <4>3
    <3> QED
      BY <1>6, <3>1, <3>2, <3>3, <3>4
         DEF AcceptFails, ReceiverHandlesOffer, ReceiverHandlesCancel, ReceiverDropsChunk
  <2> QED
    BY <1>1, <1>2, <2>2, <2>3, PlacedUndisturbed
<1> QED
  BY <1>4, <1>5, <1>6

LEMMA OtherStepPlaced ==
  ASSUME TypeOK, PlacedInv,
         \/ \E t \in Transfer : SourceResized(t)
         \/ \E side \in Side : Route(side)
         \/ \E f \in Name : FileCreated(f)
         \/ Connect \/ Disconnect \/ SenderCrashes \/ ReceiverCrashes
  PROVE  PlacedInv'
<1>1. UNCHANGED placed
  BY DEF SourceResized, Route, FileCreated, Connect, Disconnect, SenderCrashes,
         ReceiverCrashes, receiverVars
<1>2. Justified' = Justified /\ PlacedIsWhole'
  BY <1>1 DEF Justified, AllPlaced, PlacedInv, PlacedIsWhole
<1>3. <<>> \in Seq(Justified) /\ \A t \in Transfer : <<>> \in Seq({m \in Justified : m.t = t})
  BY EmptySeq
<1>4. CASE \/ \E t \in Transfer : SourceResized(t)
           \/ \E f \in Name : FileCreated(f)
           \/ Connect
  <2>1. UNCHANGED <<outbound, wire, sState, signals>>
    BY <1>4 DEF SourceResized, FileCreated, Connect, senderVars
  <2> QED
    BY <1>1, <1>2, <2>1, PlacedUndisturbed
<1>5. CASE \E side \in Side : Route(side)
  <2>1. PICK side \in Side : Route(side)
    BY <1>5
  <2>2. CASE side = "sender"
    <3>1. UNCHANGED <<sState, signals>> /\ UNCHANGED <<outbound["receiver"], wire["receiver"]>>
      BY <2>1, <2>2 DEF Route, senderVars, TypeOK, Side
    <3> QED
      BY <1>1, <1>2, <3>1, PlacedUndisturbed
  <2>3. CASE side = "receiver"
    <3>1. /\ outbound["receiver"] # <<>>
          /\ outbound'["receiver"] = Tail(outbound["receiver"])
          /\ wire'["receiver"] = wire["receiver"]
               \/ wire'["receiver"] = Append(wire["receiver"], Head(outbound["receiver"]))
          /\ UNCHANGED <<sState, signals>>
      BY <2>1, <2>3 DEF Route, senderVars, TypeOK, Side
    <3>2. outbound'["receiver"] \in Seq(Justified) /\ Head(outbound["receiver"]) \in Justified
      BY <3>1, TailIn DEF PlacedInv
    <3>3. wire'["receiver"] \in Seq(Justified)
      BY <3>1, <3>2, AppendIn DEF PlacedInv
    <3> QED
      BY <1>1, <1>2, <3>1, <3>2, <3>3 DEF PlacedInv, CompletedIsPlaced
  <2> QED
    BY <2>2, <2>3 DEF Side
<1>6. \A i \in 0..Len(wire["receiver"]) : SubSeq(wire["receiver"], 1, i) \in Seq(Justified)
  BY PrefixType DEF PlacedInv
<1>7. CASE Disconnect
  <2>1. /\ wire'["receiver"] \in Seq(Justified)
        /\ UNCHANGED <<outbound, sState, signals>>
    BY <1>6, <1>7 DEF Disconnect, senderVars, TypeOK, Side
  <2> QED
    BY <1>1, <1>2, <2>1 DEF PlacedInv, CompletedIsPlaced
<1>8. CASE SenderCrashes
  <2>1. /\ wire'["receiver"] = <<>> /\ UNCHANGED outbound["receiver"]
        /\ \A t \in Transfer : signals'[t] = <<>> /\ sState'[t] = "Unknown"
    BY <1>8 DEF SenderCrashes, Interrupted, Other, TypeOK, Side
  <2> QED
    BY <1>1, <1>2, <1>3, <2>1 DEF PlacedInv, CompletedIsPlaced
<1>9. CASE ReceiverCrashes
  <2>1. /\ wire'["receiver"] \in Seq(Justified) /\ outbound'["receiver"] = <<>>
        /\ UNCHANGED <<sState, signals>>
    BY <1>6, <1>9 DEF ReceiverCrashes, Interrupted, Other, senderVars, TypeOK, Side
  <2> QED
    BY <1>1, <1>2, <1>3, <2>1 DEF PlacedInv, CompletedIsPlaced
<1> QED
  BY <1>4, <1>5, <1>7, <1>8, <1>9

\* The inductive invariant of what is put in place.
THEOREM PlacedSound == Spec => []PlacedInv
<1>1. TypeOK /\ PlacedInv /\ [Next]_vars => PlacedInv'
  <2>1. SUFFICES ASSUME TypeOK, PlacedInv, Next \/ UNCHANGED vars
                 PROVE  PlacedInv'
    OBVIOUS
  <2>2. CASE UNCHANGED vars
    BY <2>1, <2>2 DEF vars, senderVars, receiverVars, PlacedInv, Justified,
                      AllPlaced, PlacedIsWhole, CompletedIsPlaced
  <2>3. CASE Next
    BY <2>1, <2>3, SenderStepPlaced, ReceiverStepPlaced, OtherStepPlaced
       DEF Next, Handle, User
  <2> QED
    BY <2>1, <2>2, <2>3
<1> QED
  BY <1>1, InitPlaced, TypeCorrect, PTL DEF Spec

\* A sender never reports a transfer completed unless every file of it has been
\* renamed into place, whatever is lost.
THEOREM CompletedMeansPlaced == Spec => []CompletedIsPlaced
<1>1. PlacedInv => CompletedIsPlaced
  BY DEF PlacedInv
<1> QED
  BY <1>1, PlacedSound, PTL

\* Nothing but whole files is put in place.
THEOREM OnlyWholeFiles == Spec => []PlacedIsWhole
<1>1. PlacedInv => PlacedIsWhole
  BY DEF PlacedInv
<1> QED
  BY <1>1, PlacedSound, PTL

----------------------------------------------------------------------------
(* The .part directory *)

LEMMA SpentOrNot ==
  ASSUME [Next]_vars
  PROVE  UNCHANGED spent \/ \E kind \in EnvironmentKind : Spend(kind)
<1>1. CASE UNCHANGED vars
  BY <1>1 DEF vars
<1>2. CASE \E t \in Transfer : RunSender(t) \/ Handle(t) \/ User(t)
  BY <1>2 DEF RunSender, Handle, User, accept, reject, ReceiverCancels,
     ReceiverHandlesOffer, ReceiverHandlesCancel, ReceiverWritesChunk,
     ReceiverDropsChunk, ReceiverFinishes, ReceiverFinishFails, SenderAccepted,
     SenderRejected, SenderAcked, SenderFinished, SenderStopped, Signalled,
     SenderTimeout, SenderReads, SenderNextFile, SenderCompletes, start, startOffers,
     SenderCancels, SenderHandlesAnswer, SenderHandlesCancel, EnvironmentKind
<1>3. CASE \/ \E t \in Transfer : SenderReadFails(t) \/ SourceResized(t) \/ AcceptFails(t)
           \/ \E side \in Side : Route(side)
           \/ \E f \in Name : FileCreated(f)
           \/ Connect \/ Disconnect \/ SenderCrashes \/ ReceiverCrashes
  BY <1>3 DEF SenderReadFails, SourceResized, AcceptFails, Route, FileCreated, Connect,
     Disconnect, SenderCrashes, ReceiverCrashes, Interrupted, EnvironmentKind
<1> QED
  BY <1>1, <1>2, <1>3 DEF Next

\* The environment's counters only go up: what has not happened after a step
\* did not happen in it, nor before.
LEMMA NotSpent ==
  ASSUME TypeOK, [Next]_vars, NEW kind \in EnvironmentKind, spent'[kind] = 0
  PROVE  spent[kind] = 0 /\ ~Spend(kind)
<1>1. spent[kind] \in Nat
  BY DEF TypeOK
<1>2. ~Spend(kind)
  BY <1>1, SpendType
<1>3. spent[kind] = 0
  <2>1. CASE UNCHANGED spent
    BY <2>1
  <2>2. CASE \E k \in EnvironmentKind : Spend(k)
    BY <1>2, <2>2, SpendType
  <2> QED
    BY <2>1, <2>2, SpentOrNot
<1> QED
  BY <1>2, <1>3

\* PartsAreCleanedUp is inductive as it stands: what was not removed stays listed.
LEMMA PartsStep ==
  ASSUME TypeOK, PartsAreCleanedUp, [Next]_vars
  PROVE  PartsAreCleanedUp'
<1> DEFINE Fine(t) == parts[t] => rState[t] = "Transferring" /\ partDir[t]
<1>1. SUFFICES ASSUME spent'["part"] = 0, spent'["crash"] = 0,
                      NEW u \in Transfer, u \notin unremoved'
               PROVE  Fine(u)'
  BY DEF PartsAreCleanedUp
<1>2. /\ spent["part"] = 0 /\ spent["crash"] = 0
      /\ ~Spend("part") /\ ~Spend("crash")
  BY <1>1, NotSpent DEF EnvironmentKind
<1>3. u \notin unremoved => Fine(u)
  BY <1>2 DEF PartsAreCleanedUp
<1>4. CASE UNCHANGED <<parts, rState, partDir, unremoved>>
  BY <1>1, <1>3, <1>4
<1>5. ASSUME NEW t \in Transfer,
             \/ accept(t) \/ reject(t) \/ ReceiverCancels(t) \/ ReceiverHandlesOffer(t)
             \/ ReceiverHandlesCancel(t) \/ ReceiverFinishes(t)
      PROVE  Fine(u)'
  <2>1. CASE accept(t)
    BY <1>1, <1>3, <2>1 DEF accept, TypeOK
  <2>2. CASE reject(t)
    BY <1>1, <1>3, <2>2 DEF reject, TypeOK
  <2>3. CASE ReceiverCancels(t)
    BY <1>1, <1>3, <2>3 DEF ReceiverCancels, cleanup, TypeOK
  <2>4. CASE ReceiverHandlesOffer(t)
    BY <1>1, <1>3, <2>4 DEF ReceiverHandlesOffer, TypeOK
  <2>5. CASE ReceiverHandlesCancel(t)
    <3>1. CASE rState[t] = "Unknown"
      BY <1>1, <1>3, <2>5, <3>1 DEF ReceiverHandlesCancel
    <3>2. CASE rState[t] # "Unknown"
      <4>1. cleanup(t)
        BY <2>5, <3>2 DEF ReceiverHandlesCancel
      <4>2. u # t => UNCHANGED <<parts[u], partDir[u], rState[u]>>
        BY <2>5, <4>1 DEF ReceiverHandlesCancel, cleanup, TypeOK
      <4>3. u \notin unremoved /\ (u = t => ~parts'[u])
        BY <1>1, <1>3, <4>1 DEF cleanup, TypeOK
      <4> QED
        BY <1>3, <4>2, <4>3
    <3> QED
      BY <3>1, <3>2
  <2>6. CASE ReceiverFinishes(t)
    BY <1>1, <1>3, <2>6 DEF ReceiverFinishes, TypeOK
  <2> QED
    BY <1>5, <2>1, <2>2, <2>3, <2>4, <2>5, <2>6
<1>6. CASE \E t \in Transfer : Handle(t) \/ User(t)
  <2>1. PICK t \in Transfer : Handle(t) \/ User(t)
    BY <1>6
  <2>2. CASE \/ SenderHandlesAnswer(t) \/ SenderHandlesCancel(t)
             \/ ReceiverWritesChunk(t) \/ ReceiverDropsChunk(t)
             \/ ReceiverFinishFails(t) \/ start(t) \/ SenderCancels(t)
    BY <1>4, <2>2 DEF SenderHandlesAnswer, SenderHandlesCancel, ReceiverWritesChunk,
       ReceiverDropsChunk, ReceiverFinishFails, start, SenderCancels, receiverVars
  <2> QED
    BY <1>5, <2>1, <2>2 DEF Handle, User
<1>7. CASE \E t \in Transfer : RunSender(t) \/ SenderReadFails(t) \/ SourceResized(t)
  BY <1>4, <1>7 DEF RunSender, SenderAccepted, SenderRejected, SenderAcked,
     SenderFinished, SenderStopped, Signalled, SenderTimeout, SenderReads,
     SenderNextFile, SenderCompletes, SenderReadFails, startOffers, SourceResized,
     receiverVars
<1>8. CASE \/ \E side \in Side : Route(side)
           \/ \E f \in Name : FileCreated(f)
           \/ Connect \/ Disconnect
  BY <1>4, <1>8 DEF Route, FileCreated, Connect, Disconnect, receiverVars
<1>9. ~SenderCrashes /\ ~ReceiverCrashes /\ \A t \in Transfer : ~AcceptFails(t)
  BY <1>2 DEF SenderCrashes, ReceiverCrashes, Interrupted, AcceptFails
<1>10. CASE UNCHANGED vars
  BY <1>4, <1>10 DEF vars, receiverVars
<1> QED
  BY <1>6, <1>7, <1>8, <1>9, <1>10 DEF Next

\* A job that is over has no .part directory left, unless a .part file could not
\* be created, the directory could not be removed when the job was cancelled, or
\* a daemon crashed.
THEOREM NoPartsRemain == Spec => []PartsAreCleanedUp
<1>1. Init => PartsAreCleanedUp
  BY DEF Init, PartsAreCleanedUp
<1> QED
  BY <1>1, PartsStep, TypeCorrect, PTL DEF Spec

----------------------------------------------------------------------------
(* Counting messages *)

\* How many messages of that kind q holds for t, and whether m is one.
Count(q, t, kind) == Cardinality({i \in DOMAIN q : q[i].kind = kind /\ q[i].t = t})
One(m, t, kind) == IF m.kind = kind /\ m.t = t THEN 1 ELSE 0

LEMMA CountType ==
  ASSUME NEW q \in Seq(Message), NEW t, NEW kind
  PROVE  /\ IsFiniteSet({i \in DOMAIN q : q[i].kind = kind /\ q[i].t = t})
         /\ Count(q, t, kind) \in Nat
<1>1. DOMAIN q = 1..Len(q) /\ Len(q) \in Nat
  BY LenProperties
<1>2. IsFiniteSet(DOMAIN q)
  BY <1>1, FS_Interval
<1>3. IsFiniteSet({i \in DOMAIN q : q[i].kind = kind /\ q[i].t = t})
  BY <1>2, FS_Subset
<1> QED
  BY <1>3, FS_CardinalityType DEF Count

LEMMA CountEmpty ==
  ASSUME NEW t, NEW kind
  PROVE  Count(<<>>, t, kind) = 0
<1>1. {i \in DOMAIN <<>> : <<>>[i].kind = kind /\ <<>>[i].t = t} = {}
  BY EmptySeq
<1> QED
  BY <1>1, FS_EmptySet DEF Count

LEMMA CountAppend ==
  ASSUME NEW q \in Seq(Message), NEW m \in Message, NEW t, NEW kind
  PROVE  Count(Append(q, m), t, kind) = Count(q, t, kind) + One(m, t, kind)
<1> DEFINE S == {i \in DOMAIN q : q[i].kind = kind /\ q[i].t = t}
           q2 == Append(q, m)
           T == {i \in DOMAIN q2 : q2[i].kind = kind /\ q2[i].t = t}
           n == Len(q) + 1
<1>1. /\ DOMAIN q = 1..Len(q) /\ Len(q) \in Nat
      /\ DOMAIN q2 = 1..n /\ q2[n] = m
      /\ \A i \in 1..Len(q) : q2[i] = q[i]
  BY LenProperties, AppendProperties
<1>2. IsFiniteSet(S)
  BY CountType
<1>3. n \notin S
  BY <1>1
<1>c. Count(q, t, kind) = Cardinality(S) /\ Count(q2, t, kind) = Cardinality(T)
  BY DEF Count
<1>4. CASE m.kind = kind /\ m.t = t
  <2>1. T = S \cup {n}
    BY <1>1, <1>4
  <2>2. Cardinality(T) = Cardinality(S) + 1
    BY <1>2, <1>3, <2>1, FS_AddElement
  <2> HIDE DEF S, T, q2
  <2> QED
    BY <1>4, <1>c, <2>2 DEF One, q2
<1>5. CASE ~(m.kind = kind /\ m.t = t)
  <2>1. T = S
    BY <1>1, <1>5
  <2>2. Cardinality(S) \in Nat
    BY <1>2, FS_CardinalityType
  <2> HIDE DEF S, T, q2
  <2> QED
    BY <1>5, <1>c, <2>1, <2>2 DEF One, q2
<1> QED
  BY <1>4, <1>5

LEMMA CountTail ==
  ASSUME NEW q \in Seq(Message), q # <<>>, NEW t, NEW kind
  PROVE  Count(q, t, kind) = Count(Tail(q), t, kind) + One(Head(q), t, kind)
<1> DEFINE S == {i \in DOMAIN q : q[i].kind = kind /\ q[i].t = t}
           q2 == Tail(q)
           T == {i \in DOMAIN q2 : q2[i].kind = kind /\ q2[i].t = t}
           U == S \ {1}
<1>c. Count(q, t, kind) = Cardinality(S) /\ Count(q2, t, kind) = Cardinality(T)
  BY DEF Count
<1>1. /\ DOMAIN q = 1..Len(q) /\ Len(q) \in Nat \ {0}
      /\ q2 \in Seq(Message) /\ DOMAIN q2 = 1..(Len(q) - 1)
      /\ \A i \in 1..(Len(q) - 1) : q2[i] = q[i + 1]
      /\ Head(q) = q[1]
  <2>1. q2 \in Seq(Message) /\ Len(q2) = Len(q) - 1 /\ Head(q) = q[1]
    BY HeadTailProperties
  <2>2. DOMAIN q = 1..Len(q) /\ Len(q) \in Nat \ {0}
    BY LenProperties, EmptySeq
  <2>3. DOMAIN q2 = 1..(Len(q) - 1)
    BY <2>1, LenProperties
  <2>4. \A i \in 1..(Len(q) - 1) : q2[i] = q[i + 1]
    BY <2>1, <2>2
  <2> QED
    BY <2>1, <2>2, <2>3, <2>4
<1>2. IsFiniteSet(S) /\ IsFiniteSet(T)
  <2>1. q2 \in Seq(Message)
    BY <1>1
  <2> HIDE DEF q2
  <2>2. IsFiniteSet(T)
    BY <2>1, CountType
  <2>3. IsFiniteSet(S)
    BY CountType
  <2> QED
    BY <2>2, <2>3
<1> DEFINE f == [i \in T |-> i + 1]
<1>3. f \in Bijection(T, U)
  <2>1. f \in [T -> U]
    BY <1>1
  <2>2. \A i, j \in T : f[i] = f[j] => i = j
    BY <1>1
  <2>3. \A j \in U : \E i \in T : f[i] = j
    <3>1. SUFFICES ASSUME NEW j \in U
                   PROVE  \E i \in T : f[i] = j
      OBVIOUS
    <3>2. j - 1 \in 1..(Len(q) - 1) /\ (j - 1) + 1 = j
      BY <1>1
    <3>3. j - 1 \in T
      BY <1>1, <3>2
    <3> QED
      BY <3>2, <3>3
  <2> HIDE DEF f, T, U
  <2> QED
    BY <2>1, <2>2, <2>3 DEF Bijection, Injection, Surjection, IsInjective
<1>4. Cardinality(U) = Cardinality(T) /\ Cardinality(T) \in Nat
  BY <1>2, <1>3, FS_Bijection, FS_CardinalityType DEF ExistsBijection
<1>5. CASE 1 \in S
  <2>1. Cardinality(U) = Cardinality(S) - 1 /\ Cardinality(S) \in Nat
    BY <1>2, <1>5, FS_RemoveElement, FS_CardinalityType
  <2>2. One(Head(q), t, kind) = 1
    BY <1>1, <1>5 DEF One
  <2> HIDE DEF S, T, U, q2
  <2> QED
    BY <1>4, <1>c, <2>1, <2>2 DEF q2
<1>6. CASE 1 \notin S
  <2>1. U = S
    BY <1>6
  <2>2. One(Head(q), t, kind) = 0
    BY <1>1, <1>6 DEF One
  <2> HIDE DEF S, T, U, q2
  <2> QED
    BY <1>4, <1>c, <2>1, <2>2 DEF q2
<1> QED
  BY <1>5, <1>6

LEMMA CountPrefix ==
  ASSUME NEW q \in Seq(Message), NEW k \in 0..Len(q), NEW t, NEW kind
  PROVE  Count(SubSeq(q, 1, k), t, kind) <= Count(q, t, kind)
<1> DEFINE S == {i \in DOMAIN q : q[i].kind = kind /\ q[i].t = t}
           q2 == SubSeq(q, 1, k)
           T == {i \in DOMAIN q2 : q2[i].kind = kind /\ q2[i].t = t}
<1>1. q2 \in Seq(Message) /\ Len(q2) = k /\ \A j \in 1..k : q2[j] = q[j] /\ j \in 1..Len(q)
  BY PrefixType
<1>2. DOMAIN q2 = 1..k /\ DOMAIN q = 1..Len(q)
  BY <1>1, LenProperties
<1>3. T \subseteq S
  BY <1>1, <1>2
<1>4. IsFiniteSet(S)
  BY CountType
<1> QED
  BY <1>3, <1>4, FS_Subset DEF Count

\* The parts of InFlight.
OutCount(t, kind) == Count(outbound["sender"], t, kind) + Count(outbound["receiver"], t, kind)
WireCount(t, kind) == Count(wire["sender"], t, kind) + Count(wire["receiver"], t, kind)
SignalCount(t, kind) == Count(signals[t], t, kind)

LEMMA InFlightParts ==
  ASSUME TypeOK, NEW t \in Transfer, NEW kind
  PROVE  /\ InFlight(t, kind) = OutCount(t, kind) + WireCount(t, kind) + SignalCount(t, kind)
         /\ OutCount(t, kind) \in Nat /\ WireCount(t, kind) \in Nat
         /\ SignalCount(t, kind) \in Nat /\ InFlight(t, kind) \in Nat
<1>1. /\ outbound["sender"] \in Seq(Message) /\ outbound["receiver"] \in Seq(Message)
      /\ wire["sender"] \in Seq(Message) /\ wire["receiver"] \in Seq(Message)
      /\ signals[t] \in Seq(Message)
  BY DEF TypeOK, Side
<1>2. /\ Count(outbound["sender"], t, kind) \in Nat /\ Count(outbound["receiver"], t, kind) \in Nat
      /\ Count(wire["sender"], t, kind) \in Nat /\ Count(wire["receiver"], t, kind) \in Nat
      /\ Count(signals[t], t, kind) \in Nat
  BY <1>1, CountType
<1>3. InFlight(t, kind) =
        Count(outbound["sender"], t, kind) + Count(wire["sender"], t, kind)
        + Count(outbound["receiver"], t, kind) + Count(wire["receiver"], t, kind)
        + Count(signals[t], t, kind)
  BY DEF InFlight, Count
<1> QED
  BY <1>2, <1>3 DEF OutCount, WireCount, SignalCount

\* The same of the state after a step.
FlightTyped ==
  \A t \in Transfer : \A kind \in MessageKind :
    /\ InFlight(t, kind) = OutCount(t, kind) + WireCount(t, kind) + SignalCount(t, kind)
    /\ OutCount(t, kind) \in Nat /\ WireCount(t, kind) \in Nat
    /\ SignalCount(t, kind) \in Nat /\ InFlight(t, kind) \in Nat

LEMMA FlightTypedNow == TypeOK => FlightTyped
BY InFlightParts DEF FlightTyped

LEMMA FlightTypedNext == TypeOK' => FlightTyped'
BY FlightTypedNow, PTL

LEMMA SendCount ==
  ASSUME TypeOK, NEW side \in Side, NEW m \in Message, send(side, m), NEW t, NEW kind
  PROVE  OutCount(t, kind)' = OutCount(t, kind) + One(m, t, kind)
<1>1. /\ outbound["sender"] \in Seq(Message) /\ outbound["receiver"] \in Seq(Message)
      /\ outbound'[side] = Append(outbound[side], m)
      /\ \A other \in Side : other # side => outbound'[other] = outbound[other]
  BY DEF TypeOK, Side, send
<1>2. /\ Count(outbound["sender"], t, kind) \in Nat
      /\ Count(outbound["receiver"], t, kind) \in Nat
      /\ One(m, t, kind) \in Nat
  BY <1>1, CountType DEF One
<1>3. Count(outbound'[side], t, kind) = Count(outbound[side], t, kind) + One(m, t, kind)
  BY <1>1, CountAppend DEF Side
<1>4. CASE side = "sender"
  <2>1. Count(outbound'["sender"], t, kind) = Count(outbound["sender"], t, kind) + One(m, t, kind)
    BY <1>3, <1>4
  <2>2. outbound'["receiver"] = outbound["receiver"]
    BY <1>1, <1>4 DEF Side
  <2> QED
    BY <1>2, <2>1, <2>2 DEF OutCount
<1>5. CASE side = "receiver"
  <2>1. Count(outbound'["receiver"], t, kind)
          = Count(outbound["receiver"], t, kind) + One(m, t, kind)
    BY <1>3, <1>5
  <2>2. outbound'["sender"] = outbound["sender"]
    BY <1>1, <1>5 DEF Side
  <2> QED
    BY <1>2, <2>1, <2>2 DEF OutCount
<1> QED
  BY <1>4, <1>5 DEF Side

LEMMA ReceiveCount ==
  ASSUME TypeOK, NEW side \in Side, NEW k, NEW u, Receive(side, k, u), NEW t, NEW kind
  PROVE  WireCount(t, kind) = WireCount(t, kind)' + One(Head(wire[Other(side)]), t, kind)
<1> DEFINE from == Other(side)
           m == Head(wire[from])
<1>1. /\ wire["sender"] \in Seq(Message) /\ wire["receiver"] \in Seq(Message)
      /\ from \in Side /\ wire[from] # <<>>
      /\ wire'[from] = Tail(wire[from])
      /\ \A other \in Side : other # from => wire'[other] = wire[other]
  BY DEF TypeOK, Side, Receive, Other
<1>2. /\ wire'["sender"] \in Seq(Message) /\ wire'["receiver"] \in Seq(Message)
  BY ReceiveType DEF Side
<1>3. /\ Count(wire["sender"], t, kind) \in Nat /\ Count(wire'["sender"], t, kind) \in Nat
      /\ Count(wire["receiver"], t, kind) \in Nat /\ Count(wire'["receiver"], t, kind) \in Nat
      /\ One(m, t, kind) \in Nat
  BY <1>1, <1>2, CountType DEF One
<1> HIDE DEF m, from
<1>4. Count(wire[from], t, kind) = Count(wire'[from], t, kind) + One(m, t, kind)
  BY <1>1, CountTail DEF Side, m
<1>5. WireCount(t, kind) = WireCount(t, kind)' + One(m, t, kind)
  <2>1. CASE from = "sender"
    BY <1>1, <1>3, <1>4, <2>1 DEF WireCount, Side
  <2>2. CASE from = "receiver"
    BY <1>1, <1>3, <1>4, <2>2 DEF WireCount, Side
  <2> QED
    BY <1>1, <2>1, <2>2 DEF Side
<1> QED
  BY <1>5 DEF m, from

LEMMA RouteSignalCount ==
  ASSUME TypeOK, NEW u \in Transfer, NEW m \in Message, route_signal(u, m),
         NEW t \in Transfer, NEW kind
  PROVE  SignalCount(t, kind)' <= SignalCount(t, kind) + One(m, t, kind)
<1>1. signals[t] \in Seq(Message) /\ One(m, t, kind) \in Nat
  BY DEF TypeOK, One
<1>2. Count(signals[t], t, kind) \in Nat
  BY <1>1, CountType
<1>3. Count(Append(signals[t], m), t, kind) = Count(signals[t], t, kind) + One(m, t, kind)
  BY <1>1, CountAppend
<1>4. CASE signals'[t] = signals[t]
  BY <1>1, <1>2, <1>4 DEF SignalCount
<1>5. CASE signals'[t] = Append(signals[t], m)
  <2>1. Count(signals'[t], t, kind) = Count(signals[t], t, kind) + One(m, t, kind)
    BY <1>3, <1>5
  <2> QED
    BY <1>1, <1>2, <2>1 DEF SignalCount
<1> QED
  BY <1>4, <1>5 DEF route_signal, TypeOK

LEMMA SignalledCount ==
  ASSUME TypeOK, NEW u \in Transfer, Signalled(u), NEW t \in Transfer, NEW kind
  PROVE  /\ t = u => SignalCount(t, kind) = SignalCount(t, kind)' + One(Head(signals[u]), t, kind)
         /\ t # u => SignalCount(t, kind)' = SignalCount(t, kind)
<1>1. signals[u] \in Seq(Message) /\ signals[u] # <<>> /\ signals'[u] = Tail(signals[u])
  BY DEF TypeOK, Signalled
<1>2. t # u => signals'[t] = signals[t]
  BY DEF TypeOK, Signalled
<1>3. Count(signals[u], t, kind)
        = Count(Tail(signals[u]), t, kind) + One(Head(signals[u]), t, kind)
  BY <1>1, CountTail
<1> QED
  BY <1>1, <1>2, <1>3 DEF SignalCount

\* A message the main loop takes is on the bus, or lost.
LEMMA RouteCount ==
  ASSUME TypeOK, NEW side \in Side, Route(side), NEW t, NEW kind
  PROVE  OutCount(t, kind)' + WireCount(t, kind)' <= OutCount(t, kind) + WireCount(t, kind)
<1> DEFINE m == Head(outbound[side])
<1>1. /\ \A s \in Side : outbound[s] \in Seq(Message) /\ wire[s] \in Seq(Message)
      /\ outbound[side] # <<>>
      /\ outbound'[side] = Tail(outbound[side])
      /\ wire'[side] \in {wire[side], Append(wire[side], m)}
      /\ \A other \in Side : other # side => /\ wire'[other] = wire[other]
                                              /\ outbound'[other] = outbound[other]
  BY DEF TypeOK, Route
<1>2. m \in Message /\ Tail(outbound[side]) \in Seq(Message)
  BY <1>1, HeadTailProperties
<1> HIDE DEF m
<1>3. Count(outbound[side], t, kind) = Count(outbound'[side], t, kind) + One(m, t, kind)
  BY <1>1, CountTail DEF m
<1>4. Count(wire'[side], t, kind) <= Count(wire[side], t, kind) + One(m, t, kind)
  <2>1. Count(Append(wire[side], m), t, kind) = Count(wire[side], t, kind) + One(m, t, kind)
    BY <1>1, <1>2, CountAppend
  <2>2. Count(wire[side], t, kind) \in Nat /\ One(m, t, kind) \in Nat
    BY <1>1, CountType DEF One
  <2>3. CASE wire'[side] = wire[side]
    BY <2>2, <2>3
  <2>4. CASE wire'[side] = Append(wire[side], m)
    <3>1. Count(wire'[side], t, kind) = Count(wire[side], t, kind) + One(m, t, kind)
      BY <2>1, <2>4
    <3> QED
      BY <2>2, <3>1
  <2> QED
    BY <1>1, <2>3, <2>4
<1>5. /\ \A s \in Side : Count(outbound[s], t, kind) \in Nat /\ Count(wire[s], t, kind) \in Nat
      /\ One(m, t, kind) \in Nat
      /\ Count(outbound'[side], t, kind) \in Nat
  BY <1>1, <1>2, CountType DEF One
<1>6. Count(wire'[side], t, kind) \in Nat
  <2>1. Append(wire[side], m) \in Seq(Message)
    BY <1>1, <1>2, AppendProperties
  <2> QED
    BY <1>1, <2>1, CountType
<1>7. CASE side = "sender"
  BY <1>1, <1>3, <1>4, <1>5, <1>6, <1>7 DEF OutCount, WireCount, Side
<1>8. CASE side = "receiver"
  BY <1>1, <1>3, <1>4, <1>5, <1>6, <1>8 DEF OutCount, WireCount, Side
<1> QED
  BY <1>7, <1>8 DEF Side

\* A lost connection, or a lost daemon, leaves less of it on the way.
LEMMA CutCount ==
  ASSUME TypeOK, TypeOK', NEW t, NEW kind,
         \A side \in Side : \/ wire'[side] = <<>>
                            \/ \E i \in 0..Len(wire[side]) : wire'[side] = SubSeq(wire[side], 1, i)
  PROVE  WireCount(t, kind)' <= WireCount(t, kind)
<1>1. ASSUME NEW side \in Side
      PROVE  /\ Count(wire'[side], t, kind) <= Count(wire[side], t, kind)
             /\ Count(wire'[side], t, kind) \in Nat /\ Count(wire[side], t, kind) \in Nat
  <2>1. wire[side] \in Seq(Message) /\ wire'[side] \in Seq(Message)
    BY DEF TypeOK
  <2>2. Count(wire[side], t, kind) \in Nat /\ Count(wire'[side], t, kind) \in Nat
    BY <2>1, CountType
  <2>3. CASE wire'[side] = <<>>
    BY <2>2, <2>3, CountEmpty
  <2>4. CASE \E i \in 0..Len(wire[side]) : wire'[side] = SubSeq(wire[side], 1, i)
    BY <2>1, <2>2, <2>4, CountPrefix
  <2> QED
    BY <2>2, <2>3, <2>4
<1>2. /\ Count(wire'["sender"], t, kind) <= Count(wire["sender"], t, kind)
      /\ Count(wire'["sender"], t, kind) \in Nat /\ Count(wire["sender"], t, kind) \in Nat
  BY <1>1 DEF Side
<1>3. /\ Count(wire'["receiver"], t, kind) <= Count(wire["receiver"], t, kind)
      /\ Count(wire'["receiver"], t, kind) \in Nat /\ Count(wire["receiver"], t, kind) \in Nat
  BY <1>1 DEF Side
<1> QED
  BY <1>2, <1>3 DEF WireCount

----------------------------------------------------------------------------
(* Stop and wait *)

Tokens(t) == InFlight(t, "Chunk") + InFlight(t, "Ack")

\* One chunk or acknowledgement at most is on its way, and only after a read;
\* while the offer is, nothing else is; and what the receiver has written is
\* what the sender knows to be acknowledged, and what the acknowledgement says.
TokenOf(t) ==
  /\ Tokens(t) <= 1
  /\ pc[t] \notin {"ack", "done"} => Tokens(t) = 0
  /\ InFlight(t, "Offer") <= 1
  /\ InFlight(t, "Offer") = 1 =>
       /\ rState[t] = "Unknown" /\ pc[t] \in {"offer", "done"} /\ progress[t] = 0
       /\ Tokens(t) = 0 /\ InFlight(t, "Accepted") = 0
  /\ pc[t] \in {"none", "start"} =>
       /\ rState[t] = "Unknown" /\ progress[t] = 0
       /\ InFlight(t, "Offer") = 0 /\ InFlight(t, "Accepted") = 0
  /\ rState[t] # "Unknown" =>
       /\ progress[t] <= bytes[t] /\ bytes[t] <= progress[t] + 1
       /\ pc[t] \notin {"ack", "done"} \/ InFlight(t, "Chunk") = 1 => bytes[t] = progress[t]
       /\ InFlight(t, "Ack") = 1 => bytes[t] = progress[t] + 1

TokenInv == \A t \in Transfer : TokenOf(t)

Followed == {"Chunk", "Ack", "Offer", "Accepted"}

\* Messages disappear, the task may end and the receiver forget: for the better.
LEMMA TokenLess ==
  ASSUME TypeOK, TypeOK', NEW t \in Transfer, TokenOf(t),
         \A kind \in Followed : InFlight(t, kind)' <= InFlight(t, kind),
         \/ pc'[t] = pc[t]
         \/ pc'[t] = "done" /\ pc[t] # "none"
         \/ pc'[t] = "finish" /\ pc[t] = "read"
         \/ pc'[t] = "start" /\ pc[t] = "none",
         progress'[t] = progress[t],
         rState[t] = "Unknown" => rState'[t] = "Unknown",
         rState'[t] # "Unknown" => bytes'[t] = bytes[t]
  PROVE  TokenOf(t)'
<1>1. /\ InFlight(t, "Chunk") \in Nat /\ InFlight(t, "Chunk")' \in Nat
      /\ InFlight(t, "Ack") \in Nat /\ InFlight(t, "Ack")' \in Nat
      /\ InFlight(t, "Offer") \in Nat /\ InFlight(t, "Offer")' \in Nat
      /\ InFlight(t, "Accepted") \in Nat /\ InFlight(t, "Accepted")' \in Nat
  BY FlightTypedNow, FlightTypedNext DEF FlightTyped, MessageKind
<1>2. /\ InFlight(t, "Chunk")' <= InFlight(t, "Chunk")
      /\ InFlight(t, "Ack")' <= InFlight(t, "Ack")
      /\ InFlight(t, "Offer")' <= InFlight(t, "Offer")
      /\ InFlight(t, "Accepted")' <= InFlight(t, "Accepted")
  BY DEF Followed
<1>3. progress[t] \in Nat /\ bytes[t] \in Nat
  BY DEF TypeOK
<1>4. CASE pc'[t] = pc[t]
  BY <1>1, <1>2, <1>3, <1>4 DEF TokenOf, Tokens
<1>5. CASE pc'[t] = "done" /\ pc[t] # "none"
  BY <1>1, <1>2, <1>3, <1>5 DEF TokenOf, Tokens
<1>6. CASE pc'[t] = "finish" /\ pc[t] = "read"
  BY <1>1, <1>2, <1>3, <1>6 DEF TokenOf, Tokens
<1>7. CASE pc'[t] = "start" /\ pc[t] = "none"
  BY <1>1, <1>2, <1>3, <1>7 DEF TokenOf, Tokens
<1> QED
  BY <1>4, <1>5, <1>6, <1>7

Quiet == {"Cancel", "Complete", "Rejected", "Finished"}

\* No message of the kinds followed is sent.
SendsQuietly ==
  \/ UNCHANGED outbound
  \/ \E side \in Side, m \in Message : m.kind \in Quiet /\ send(side, m)

LEMMA QuietCount ==
  ASSUME TypeOK, SendsQuietly, NEW t, NEW kind \in Followed
  PROVE  OutCount(t, kind)' = OutCount(t, kind)
<1>1. CASE UNCHANGED outbound
  BY <1>1 DEF OutCount
<1>2. CASE ~UNCHANGED outbound
  <2>1. PICK side \in Side, m \in Message : m.kind \in Quiet /\ send(side, m)
    BY <1>2 DEF SendsQuietly
  <2>2. One(m, t, kind) = 0
    BY <2>1 DEF One, Quiet, Followed
  <2>3. OutCount(t, kind) \in Nat
    <3>1. Count(outbound["sender"], t, kind) \in Nat /\ Count(outbound["receiver"], t, kind) \in Nat
      BY CountType DEF TypeOK, Side
    <3> QED
      BY <3>1 DEF OutCount
  <2> QED
    BY <2>1, <2>2, <2>3, SendCount
<1> QED
  BY <1>1, <1>2

\* Messages are taken by whom they are for, or handed on to run_sender.
TakesAtMost ==
  \/ UNCHANGED <<wire, signals>>
  \/ UNCHANGED wire /\ \E u \in Transfer : Signalled(u)
  \/ UNCHANGED signals /\ \E side \in Side, k \in MessageKind, u \in Transfer : Receive(side, k, u)
  \/ \E k \in MessageKind, u \in Transfer :
       Receive("sender", k, u) /\ route_signal(u, Head(wire["receiver"]))
  \/ UNCHANGED wire /\ \E u \in Transfer : route_signal(u, Msg("Cancel", u))

LEMMA TakesCount ==
  ASSUME TypeOK, TypeOK', TakesAtMost, NEW t \in Transfer, NEW kind \in Followed
  PROVE  WireCount(t, kind)' + SignalCount(t, kind)' <= WireCount(t, kind) + SignalCount(t, kind)
<1>0. kind \in MessageKind
  BY DEF Followed, MessageKind
<1>1. /\ WireCount(t, kind) \in Nat /\ WireCount(t, kind)' \in Nat
      /\ SignalCount(t, kind) \in Nat /\ SignalCount(t, kind)' \in Nat
  BY <1>0, FlightTypedNow, FlightTypedNext DEF FlightTyped
<1>2. CASE UNCHANGED <<wire, signals>>
  BY <1>1, <1>2 DEF WireCount, SignalCount
<1>3. CASE UNCHANGED wire /\ \E u \in Transfer : Signalled(u)
  <2>1. PICK u \in Transfer : Signalled(u)
    BY <1>3
  <2>2. One(Head(signals[u]), t, kind) \in Nat
    BY DEF One
  <2>3. SignalCount(t, kind)' <= SignalCount(t, kind)
    BY <1>1, <2>1, <2>2, SignalledCount
  <2>4. WireCount(t, kind)' = WireCount(t, kind)
    BY <1>3 DEF WireCount
  <2> QED
    BY <1>1, <2>3, <2>4
<1>4. CASE /\ UNCHANGED signals
           /\ \E side \in Side, k \in MessageKind, u \in Transfer : Receive(side, k, u)
  <2>1. PICK side \in Side, k \in MessageKind, u \in Transfer : Receive(side, k, u)
    BY <1>4
  <2>2. One(Head(wire[Other(side)]), t, kind) \in Nat
    BY DEF One
  <2>3. WireCount(t, kind)' <= WireCount(t, kind)
    BY <1>1, <2>1, <2>2, ReceiveCount
  <2>4. SignalCount(t, kind)' = SignalCount(t, kind)
    BY <1>4 DEF SignalCount
  <2> QED
    BY <1>1, <2>3, <2>4
<1>5. CASE \E k \in MessageKind, u \in Transfer :
             Receive("sender", k, u) /\ route_signal(u, Head(wire["receiver"]))
  <2>1. PICK k \in MessageKind, u \in Transfer :
          Receive("sender", k, u) /\ route_signal(u, Head(wire["receiver"]))
    BY <1>5
  <2> DEFINE m == Head(wire["receiver"])
  <2>2. m \in Message /\ Other("sender") = "receiver"
    BY <2>1, ReceiveType DEF Side, Other
  <2>3. One(m, t, kind) \in Nat
    BY DEF One
  <2>4. WireCount(t, kind) = WireCount(t, kind)' + One(m, t, kind)
    BY <2>1, <2>2, ReceiveCount DEF Side
  <2>5. SignalCount(t, kind)' <= SignalCount(t, kind) + One(m, t, kind)
    BY <2>1, <2>2, RouteSignalCount
  <2> QED
    BY <1>1, <2>3, <2>4, <2>5
<1>6. CASE UNCHANGED wire /\ \E u \in Transfer : route_signal(u, Msg("Cancel", u))
  <2>1. PICK u \in Transfer : route_signal(u, Msg("Cancel", u))
    BY <1>6
  <2>2. Msg("Cancel", u) \in Message
    BY MsgType DEF MessageKind
  <2>3. One(Msg("Cancel", u), t, kind) = 0
    BY DEF One, Msg, Followed
  <2>4. SignalCount(t, kind)' <= SignalCount(t, kind)
    BY <1>1, <2>1, <2>2, <2>3, RouteSignalCount
  <2>5. WireCount(t, kind)' = WireCount(t, kind)
    BY <1>6 DEF WireCount
  <2> QED
    BY <1>1, <2>4, <2>5
<1> QED
  BY <1>2, <1>3, <1>4, <1>5, <1>6 DEF TakesAtMost

LEMMA QuietFlight ==
  ASSUME TypeOK, TypeOK', SendsQuietly, TakesAtMost,
         NEW t \in Transfer, NEW kind \in Followed
  PROVE  InFlight(t, kind)' <= InFlight(t, kind)
<1>0. kind \in MessageKind
  BY DEF Followed, MessageKind
<1>1. /\ InFlight(t, kind) = OutCount(t, kind) + WireCount(t, kind) + SignalCount(t, kind)
      /\ OutCount(t, kind) \in Nat /\ WireCount(t, kind) \in Nat /\ SignalCount(t, kind) \in Nat
  BY <1>0, FlightTypedNow DEF FlightTyped
<1>2. /\ InFlight(t, kind)' = OutCount(t, kind)' + WireCount(t, kind)' + SignalCount(t, kind)'
      /\ OutCount(t, kind)' \in Nat /\ WireCount(t, kind)' \in Nat /\ SignalCount(t, kind)' \in Nat
  BY <1>0, FlightTypedNext DEF FlightTyped
<1>3. OutCount(t, kind)' = OutCount(t, kind)
  BY QuietCount
<1>4. WireCount(t, kind)' + SignalCount(t, kind)' <= WireCount(t, kind) + SignalCount(t, kind)
  BY TakesCount
<1> QED
  BY <1>1, <1>2, <1>3, <1>4

\* What happens to a transfer but for what carries a token.
QuietStep(u) ==
  \/ start(u)
  \/ SenderRejected(u) \/ SenderFinished(u) \/ SenderStopped(u) \/ SenderTimeout(u)
  \/ SenderReadFails(u) \/ SenderNextFile(u) \/ SenderCompletes(u) \/ SenderCancels(u)
  \/ SenderHandlesAnswer(u) \/ SenderHandlesCancel(u)
  \/ reject(u) \/ AcceptFails(u) \/ ReceiverCancels(u) \/ ReceiverHandlesCancel(u)
  \/ ReceiverDropsChunk(u) \/ ReceiverFinishes(u) \/ ReceiverFinishFails(u)
  \/ SourceResized(u)

LEMMA QuietStepIsQuiet ==
  ASSUME TypeOK, NEW u \in Transfer, QuietStep(u)
  PROVE  SendsQuietly /\ TakesAtMost
<1>1. \A k \in Quiet : Msg(k, u) \in Message /\ Msg(k, u).kind \in Quiet
  BY MsgType DEF Quiet, MessageKind, Msg
<1>2. "sender" \in Side /\ "receiver" \in Side
  BY DEF Side
<1>3. SendsQuietly
  <2>1. \/ UNCHANGED outbound
        \/ \E k \in Quiet : send("sender", Msg(k, u)) \/ send("receiver", Msg(k, u))
    BY DEF QuietStep, start, SenderRejected, SenderFinished, SenderStopped, SenderTimeout,
       SenderReadFails, SenderNextFile, SenderCompletes, SenderCancels,
       SenderHandlesAnswer, SenderHandlesCancel, reject, AcceptFails, ReceiverCancels,
       ReceiverHandlesCancel, ReceiverDropsChunk, ReceiverFinishes, ReceiverFinishFails,
       SourceResized, fail, Quiet
  <2> QED
    BY <1>1, <1>2, <2>1 DEF SendsQuietly
<1>4. TakesAtMost
  <2>1. CASE SenderRejected(u) \/ SenderFinished(u) \/ SenderStopped(u)
    BY <2>1 DEF SenderRejected, SenderFinished, SenderStopped, Signalled, TakesAtMost
  <2>2. CASE \/ start(u)
             \/ SenderTimeout(u) \/ SenderReadFails(u) \/ SenderNextFile(u)
             \/ SenderCompletes(u) \/ reject(u) \/ AcceptFails(u) \/ ReceiverCancels(u)
             \/ SourceResized(u)
    BY <2>2 DEF start, SenderTimeout, SenderReadFails, SenderNextFile, SenderCompletes, reject,
       AcceptFails, ReceiverCancels, SourceResized, senderVars, TakesAtMost
  <2>3. CASE SenderHandlesAnswer(u) \/ SenderHandlesCancel(u)
    BY <2>3 DEF SenderHandlesAnswer, SenderHandlesCancel, TakesAtMost, MessageKind
  <2>4. CASE SenderCancels(u)
    BY <2>4 DEF SenderCancels, TakesAtMost
  <2>5. CASE \/ ReceiverHandlesCancel(u) \/ ReceiverDropsChunk(u)
             \/ ReceiverFinishes(u) \/ ReceiverFinishFails(u)
    BY <2>5, <1>2 DEF ReceiverHandlesCancel, ReceiverDropsChunk, ReceiverFinishes,
       ReceiverFinishFails, senderVars, TakesAtMost, MessageKind
  <2> QED
    BY <2>1, <2>2, <2>3, <2>4, <2>5 DEF QuietStep
<1> QED
  BY <1>3, <1>4

LEMMA QuietStepToken ==
  ASSUME TypeOK, TypeOK', TokenInv, NEW u \in Transfer, QuietStep(u), NEW t \in Transfer
  PROVE  TokenOf(t)'
<1>1. \A kind \in Followed : InFlight(t, kind)' <= InFlight(t, kind)
  BY QuietStepIsQuiet, QuietFlight
<1>2. \/ pc'[t] = pc[t]
      \/ pc'[t] = "done" /\ pc[t] # "none"
      \/ pc'[t] = "finish" /\ pc[t] = "read"
      \/ pc'[t] = "start" /\ pc[t] = "none"
  BY DEF QuietStep, start, SenderRejected, SenderFinished, SenderStopped, Signalled, SenderTimeout,
     SenderReadFails, SenderNextFile, SenderCompletes, EndOfFile, SenderCancels,
     SenderHandlesAnswer, SenderHandlesCancel, reject, AcceptFails, ReceiverCancels,
     ReceiverHandlesCancel, ReceiverDropsChunk, ReceiverFinishes, ReceiverFinishFails,
     SourceResized, fail, senderVars, TypeOK
<1>3. UNCHANGED <<progress, bytes>>
  BY DEF QuietStep, start, SenderRejected, SenderFinished, SenderStopped, Signalled, SenderTimeout,
     SenderReadFails, SenderNextFile, SenderCompletes, SenderCancels,
     SenderHandlesAnswer, SenderHandlesCancel, reject, AcceptFails, ReceiverCancels,
     ReceiverHandlesCancel, ReceiverDropsChunk, ReceiverFinishes, ReceiverFinishFails,
     SourceResized, senderVars, receiverVars
<1>4. rState[t] = "Unknown" => rState'[t] = "Unknown"
  BY DEF QuietStep, start, SenderRejected, SenderFinished, SenderStopped, Signalled, SenderTimeout,
     SenderReadFails, SenderNextFile, SenderCompletes, SenderCancels,
     SenderHandlesAnswer, SenderHandlesCancel, reject, AcceptFails, ReceiverCancels,
     ReceiverHandlesCancel, ReceiverDropsChunk, ReceiverFinishes, ReceiverFinishFails,
     SourceResized, receiverVars, Whole, TypeOK
<1>5. TokenOf(t)
  BY DEF TokenInv
<1> QED
  BY <1>1, <1>2, <1>3, <1>4, <1>5, TokenLess

\* A step that sends one message and takes none; one that takes from a queue of
\* signals, or from the wire; and the receiver's, which does both.
LEMMA SendFlight ==
  ASSUME TypeOK, TypeOK', NEW side \in Side, NEW m \in Message, send(side, m),
         UNCHANGED <<wire, signals>>, NEW t \in Transfer, NEW kind \in MessageKind
  PROVE  InFlight(t, kind)' = InFlight(t, kind) + One(m, t, kind)
<1>1. OutCount(t, kind)' = OutCount(t, kind) + One(m, t, kind)
  BY SendCount
<1>2. WireCount(t, kind)' = WireCount(t, kind) /\ SignalCount(t, kind)' = SignalCount(t, kind)
  BY DEF WireCount, SignalCount
<1>3. /\ InFlight(t, kind) = OutCount(t, kind) + WireCount(t, kind) + SignalCount(t, kind)
      /\ OutCount(t, kind) \in Nat /\ WireCount(t, kind) \in Nat /\ SignalCount(t, kind) \in Nat
      /\ InFlight(t, kind)' = OutCount(t, kind)' + WireCount(t, kind)' + SignalCount(t, kind)'
  BY FlightTypedNow, FlightTypedNext DEF FlightTyped
<1>4. One(m, t, kind) \in Nat
  BY DEF One
<1> QED
  BY <1>1, <1>2, <1>3, <1>4

LEMMA SignalFlight ==
  ASSUME TypeOK, TypeOK', NEW u \in Transfer, Signalled(u), UNCHANGED outbound,
         NEW kind \in MessageKind
  PROVE  InFlight(u, kind) = InFlight(u, kind)' + One(Head(signals[u]), u, kind)
<1>1. OutCount(u, kind)' = OutCount(u, kind)
  BY DEF OutCount
<1>2. WireCount(u, kind)' = WireCount(u, kind)
  BY DEF WireCount, Signalled
<1>3. SignalCount(u, kind) = SignalCount(u, kind)' + One(Head(signals[u]), u, kind)
  BY SignalledCount
<1>4. /\ InFlight(u, kind) = OutCount(u, kind) + WireCount(u, kind) + SignalCount(u, kind)
      /\ OutCount(u, kind) \in Nat /\ WireCount(u, kind) \in Nat /\ SignalCount(u, kind)' \in Nat
      /\ InFlight(u, kind)' = OutCount(u, kind)' + WireCount(u, kind)' + SignalCount(u, kind)'
  BY FlightTypedNow, FlightTypedNext DEF FlightTyped
<1>5. One(Head(signals[u]), u, kind) \in Nat
  BY DEF One
<1> QED
  BY <1>1, <1>2, <1>3, <1>4, <1>5

LEMMA ReceiveFlight ==
  ASSUME TypeOK, TypeOK', NEW u \in Transfer, NEW k, Receive("receiver", k, u),
         UNCHANGED <<outbound, signals>>, NEW t \in Transfer, NEW kind \in MessageKind
  PROVE  InFlight(t, kind) = InFlight(t, kind)' + One(Head(wire["sender"]), t, kind)
<1>1. OutCount(t, kind)' = OutCount(t, kind) /\ SignalCount(t, kind)' = SignalCount(t, kind)
  BY DEF OutCount, SignalCount
<1>2. WireCount(t, kind) = WireCount(t, kind)' + One(Head(wire["sender"]), t, kind)
  BY ReceiveCount DEF Side, Other
<1>3. /\ InFlight(t, kind) = OutCount(t, kind) + WireCount(t, kind) + SignalCount(t, kind)
      /\ OutCount(t, kind) \in Nat /\ SignalCount(t, kind) \in Nat /\ WireCount(t, kind)' \in Nat
      /\ InFlight(t, kind)' = OutCount(t, kind)' + WireCount(t, kind)' + SignalCount(t, kind)'
  BY FlightTypedNow, FlightTypedNext DEF FlightTyped
<1>4. One(Head(wire["sender"]), t, kind) \in Nat
  BY DEF One
<1> QED
  BY <1>1, <1>2, <1>3, <1>4

LEMMA AnswerFlight ==
  ASSUME TypeOK, TypeOK', NEW u \in Transfer, NEW k, Receive("receiver", k, u),
         NEW m \in Message, send("receiver", m),
         UNCHANGED signals, NEW t \in Transfer, NEW kind \in MessageKind
  PROVE  InFlight(t, kind) + One(m, t, kind)
           = InFlight(t, kind)' + One(Head(wire["sender"]), t, kind)
<1>1. OutCount(t, kind)' = OutCount(t, kind) + One(m, t, kind)
  BY SendCount DEF Side
<1>2. SignalCount(t, kind)' = SignalCount(t, kind)
  BY DEF SignalCount
<1>3. WireCount(t, kind) = WireCount(t, kind)' + One(Head(wire["sender"]), t, kind)
  BY ReceiveCount DEF Side, Other
<1>4. /\ InFlight(t, kind) = OutCount(t, kind) + WireCount(t, kind) + SignalCount(t, kind)
      /\ OutCount(t, kind) \in Nat /\ SignalCount(t, kind) \in Nat /\ WireCount(t, kind)' \in Nat
      /\ InFlight(t, kind)' = OutCount(t, kind)' + WireCount(t, kind)' + SignalCount(t, kind)'
  BY FlightTypedNow, FlightTypedNext DEF FlightTyped
<1>5. One(Head(wire["sender"]), t, kind) \in Nat /\ One(m, t, kind) \in Nat
  BY DEF One
<1> QED
  BY <1>1, <1>2, <1>3, <1>4, <1>5

\* The counts are numbers; the four of a transfer, before and after a step.
LEMMA FourCounts ==
  ASSUME TypeOK, TypeOK', NEW t \in Transfer
  PROVE  /\ InFlight(t, "Chunk") \in Nat /\ InFlight(t, "Chunk")' \in Nat
         /\ InFlight(t, "Ack") \in Nat /\ InFlight(t, "Ack")' \in Nat
         /\ InFlight(t, "Offer") \in Nat /\ InFlight(t, "Offer")' \in Nat
         /\ InFlight(t, "Accepted") \in Nat /\ InFlight(t, "Accepted")' \in Nat
         /\ progress[t] \in Nat /\ bytes[t] \in Nat
BY FlightTypedNow, FlightTypedNext DEF FlightTyped, MessageKind, TypeOK

\* Another transfer's step leaves this one's messages and its place alone.
LEMMA OthersToken ==
  ASSUME TypeOK, TypeOK', NEW t \in Transfer, TokenOf(t),
         \A kind \in Followed : InFlight(t, kind)' = InFlight(t, kind),
         pc'[t] = pc[t], progress'[t] = progress[t], rState'[t] = rState[t], bytes'[t] = bytes[t]
  PROVE  TokenOf(t)'
<1>1. \A kind \in Followed : InFlight(t, kind)' <= InFlight(t, kind)
  BY FourCounts DEF Followed
<1> QED
  BY <1>1, TokenLess

LEMMA StartOffersToken ==
  ASSUME TypeOK, TypeOK', TokenInv, NEW u \in Transfer, startOffers(u), NEW t \in Transfer
  PROVE  TokenOf(t)'
<1> DEFINE m == Msg("Offer", u)
<1>1. m \in Message /\ m.t = u /\ m.kind = "Offer"
  BY MsgType DEF Msg, MessageKind
<1>2. send("sender", m) /\ UNCHANGED <<wire, signals>>
  BY DEF startOffers, senderVars
<1> HIDE DEF m
<1>3. \A kind \in MessageKind :
        InFlight(t, kind)' = InFlight(t, kind) + (IF kind = "Offer" /\ t = u THEN 1 ELSE 0)
  BY <1>1, <1>2, SendFlight DEF Side, One
<1>4. TokenOf(t) /\ TokenOf(u)
  BY DEF TokenInv
<1>5. CASE t # u
  <2>1. \A kind \in Followed : InFlight(t, kind)' = InFlight(t, kind)
    BY <1>3, <1>5, FourCounts DEF Followed, MessageKind
  <2>2. /\ pc'[t] = pc[t] /\ progress'[t] = progress[t]
        /\ rState'[t] = rState[t] /\ bytes'[t] = bytes[t]
    BY <1>5 DEF startOffers, senderVars, receiverVars, TypeOK
  <2> QED
    BY <1>4, <2>1, <2>2, OthersToken
<1>6. CASE t = u
  <2>1. /\ InFlight(t, "Chunk")' = InFlight(t, "Chunk")
        /\ InFlight(t, "Ack")' = InFlight(t, "Ack")
        /\ InFlight(t, "Offer")' = InFlight(t, "Offer") + 1
        /\ InFlight(t, "Accepted")' = InFlight(t, "Accepted")
    BY <1>3, <1>6, FourCounts DEF MessageKind
  <2>2. /\ pc[t] = "start" /\ pc'[t] = "offer" /\ progress'[t] = progress[t]
        /\ rState'[t] = rState[t] /\ bytes'[t] = bytes[t]
    BY <1>6 DEF startOffers, receiverVars, TypeOK
  <2> QED
    BY <1>4, <1>6, <2>1, <2>2, FourCounts DEF TokenOf, Tokens
<1> QED
  BY <1>5, <1>6

LEMMA ReadsToken ==
  ASSUME TypeOK, TypeOK', TokenInv, NEW u \in Transfer, SenderReads(u), NEW t \in Transfer
  PROVE  TokenOf(t)'
<1> DEFINE m == Chunk(u, file[u], offset[u])
<1>1. m \in Message /\ m.t = u /\ m.kind = "Chunk"
  BY ChunkType DEF Chunk, TypeOK
<1>2. send("sender", m) /\ UNCHANGED <<wire, signals>>
  BY DEF SenderReads, senderVars
<1> HIDE DEF m
<1>3. \A kind \in MessageKind :
        InFlight(t, kind)' = InFlight(t, kind) + (IF kind = "Chunk" /\ t = u THEN 1 ELSE 0)
  BY <1>1, <1>2, SendFlight DEF Side, One
<1>4. TokenOf(t) /\ TokenOf(u)
  BY DEF TokenInv
<1>5. CASE t # u
  <2>1. \A kind \in Followed : InFlight(t, kind)' = InFlight(t, kind)
    BY <1>3, <1>5, FourCounts DEF Followed, MessageKind
  <2>2. /\ pc'[t] = pc[t] /\ progress'[t] = progress[t]
        /\ rState'[t] = rState[t] /\ bytes'[t] = bytes[t]
    BY <1>5 DEF SenderReads, senderVars, receiverVars, TypeOK
  <2> QED
    BY <1>4, <2>1, <2>2, OthersToken
<1>6. CASE t = u
  <2>1. /\ InFlight(t, "Chunk")' = InFlight(t, "Chunk") + 1
        /\ InFlight(t, "Ack")' = InFlight(t, "Ack")
        /\ InFlight(t, "Offer")' = InFlight(t, "Offer")
        /\ InFlight(t, "Accepted")' = InFlight(t, "Accepted")
    BY <1>3, <1>6, FourCounts DEF MessageKind
  <2>2. /\ pc[t] = "read" /\ pc'[t] = "ack" /\ progress'[t] = progress[t]
        /\ rState'[t] = rState[t] /\ bytes'[t] = bytes[t]
    BY <1>6 DEF SenderReads, receiverVars, TypeOK
  <2> QED
    BY <1>4, <1>6, <2>1, <2>2, FourCounts DEF TokenOf, Tokens
<1> QED
  BY <1>5, <1>6

LEMMA AcceptToken ==
  ASSUME TypeOK, TypeOK', TokenInv, NEW u \in Transfer, accept(u), NEW t \in Transfer
  PROVE  TokenOf(t)'
<1> DEFINE m == Msg("Accepted", u)
<1>1. m \in Message /\ m.t = u /\ m.kind = "Accepted"
  BY MsgType DEF Msg, MessageKind
<1>2. send("receiver", m) /\ UNCHANGED <<wire, signals>>
  BY DEF accept, senderVars
<1> HIDE DEF m
<1>3. \A kind \in MessageKind :
        InFlight(t, kind)' = InFlight(t, kind) + (IF kind = "Accepted" /\ t = u THEN 1 ELSE 0)
  BY <1>1, <1>2, SendFlight DEF Side, One
<1>4. TokenOf(t) /\ TokenOf(u)
  BY DEF TokenInv
<1>5. CASE t # u
  <2>1. \A kind \in Followed : InFlight(t, kind)' = InFlight(t, kind)
    BY <1>3, <1>5, FourCounts DEF Followed, MessageKind
  <2>2. /\ pc'[t] = pc[t] /\ progress'[t] = progress[t]
        /\ rState'[t] = rState[t] /\ bytes'[t] = bytes[t]
    BY <1>5 DEF accept, senderVars, receiverVars, TypeOK
  <2> QED
    BY <1>4, <2>1, <2>2, OthersToken
<1>6. CASE t = u
  <2>1. /\ InFlight(t, "Chunk")' = InFlight(t, "Chunk")
        /\ InFlight(t, "Ack")' = InFlight(t, "Ack")
        /\ InFlight(t, "Offer")' = InFlight(t, "Offer")
        /\ InFlight(t, "Accepted")' = InFlight(t, "Accepted") + 1
    BY <1>3, <1>6, FourCounts DEF MessageKind
  <2>2. /\ pc'[t] = pc[t] /\ progress'[t] = progress[t]
        /\ rState[t] = "Waiting" /\ rState'[t] = "Transferring" /\ bytes'[t] = bytes[t]
    BY <1>6 DEF accept, Acceptable, senderVars, TypeOK
  <2> QED
    BY <1>4, <1>6, <2>1, <2>2, FourCounts DEF TokenOf, Tokens
<1> QED
  BY <1>5, <1>6

LEMMA AcceptedToken ==
  ASSUME TypeOK, TypeOK', TokenInv, PlacedInv, NEW u \in Transfer,
         SenderAccepted(u) \/ SenderAcked(u), NEW t \in Transfer
  PROVE  TokenOf(t)'
<1>1. Signalled(u) /\ UNCHANGED outbound
  BY DEF SenderAccepted, SenderAcked
<1>2. TokenOf(t)
  BY DEF TokenInv
<1>3. SendsQuietly /\ TakesAtMost
  BY <1>1 DEF SendsQuietly, TakesAtMost, Signalled
<1>4. \A kind \in Followed : InFlight(t, kind)' <= InFlight(t, kind)
  BY <1>3, QuietFlight
<1>5. rState'[t] = rState[t] /\ bytes'[t] = bytes[t]
  BY <1>1 DEF Signalled, receiverVars
<1>6. Head(signals[u]).t = u
  <2>1. signals[u] \in Seq({m \in Justified : m.t = u}) /\ signals[u] # <<>>
    BY <1>1 DEF PlacedInv, Signalled
  <2>2. Head(signals[u]) \in {m \in Justified : m.t = u}
    BY <2>1, TailIn
  <2> QED
    BY <2>2
<1>7. CASE t # u
  <2>1. pc'[t] = pc[t] /\ progress'[t] = progress[t]
    BY <1>7 DEF SenderAccepted, SenderAcked, TypeOK
  <2> QED
    BY <1>2, <1>4, <1>5, <2>1, TokenLess
<1>8. CASE t = u /\ SenderAccepted(u)
  <2>1. pc[t] = "offer" /\ pc'[t] = "read" /\ progress'[t] = progress[t]
    BY <1>8 DEF SenderAccepted, TypeOK
  <2>2. One(Head(signals[u]), u, "Accepted") = 1
    BY <1>6, <1>8 DEF One, SenderAccepted
  <2>3. InFlight(u, "Accepted") = InFlight(u, "Accepted")' + One(Head(signals[u]), u, "Accepted")
    BY <1>1, SignalFlight DEF MessageKind
  <2>4. InFlight(t, "Accepted") = InFlight(t, "Accepted")' + 1
    BY <1>8, <2>2, <2>3
  <2>5. /\ InFlight(t, "Chunk")' <= InFlight(t, "Chunk")
        /\ InFlight(t, "Ack")' <= InFlight(t, "Ack")
        /\ InFlight(t, "Offer")' <= InFlight(t, "Offer")
    BY <1>4 DEF Followed
  <2> QED
    BY <1>2, <1>5, <2>1, <2>4, <2>5, FourCounts DEF TokenOf, Tokens
<1>9. CASE t = u /\ SenderAcked(u)
  <2>1. pc[t] = "ack" /\ pc'[t] = "read" /\ progress'[t] = progress[t] + 1
    BY <1>9 DEF SenderAcked, TypeOK
  <2>2. One(Head(signals[u]), u, "Ack") = 1
    BY <1>6, <1>9 DEF One, SenderAcked, Expected, Ack
  <2>3. InFlight(u, "Ack") = InFlight(u, "Ack")' + One(Head(signals[u]), u, "Ack")
    BY <1>1, SignalFlight DEF MessageKind
  <2>4. InFlight(t, "Ack") = InFlight(t, "Ack")' + 1
    BY <1>9, <2>2, <2>3
  <2>5. /\ InFlight(t, "Chunk")' <= InFlight(t, "Chunk")
        /\ InFlight(t, "Accepted")' <= InFlight(t, "Accepted")
        /\ InFlight(t, "Offer")' <= InFlight(t, "Offer")
    BY <1>4 DEF Followed
  <2> QED
    BY <1>2, <1>5, <2>1, <2>4, <2>5, FourCounts DEF TokenOf, Tokens
<1> QED
  BY <1>7, <1>8, <1>9

LEMMA OfferToken ==
  ASSUME TypeOK, TypeOK', TokenInv, NEW u \in Transfer,
         ReceiverHandlesOffer(u), NEW t \in Transfer
  PROVE  TokenOf(t)'
<1> DEFINE m == Head(wire["sender"])
<1>1. /\ Receive("receiver", "Offer", u) /\ UNCHANGED <<outbound, signals>>
      /\ m.kind = "Offer" /\ m.t = u
  BY DEF ReceiverHandlesOffer, senderVars, Receive, Other
<1> HIDE DEF m
<1>2. \A kind \in MessageKind : InFlight(t, kind) = InFlight(t, kind)' + One(m, t, kind)
  BY <1>1, ReceiveFlight DEF m
<1>3. \A kind \in MessageKind : One(m, t, kind) = IF kind = "Offer" /\ t = u THEN 1 ELSE 0
  BY <1>1 DEF One
<1>4. \A kind \in MessageKind :
        InFlight(t, kind) = InFlight(t, kind)' + (IF kind = "Offer" /\ t = u THEN 1 ELSE 0)
  BY <1>2, <1>3
<1>5. TokenOf(t)
  BY DEF TokenInv
<1>6. pc'[t] = pc[t] /\ progress'[t] = progress[t]
  BY DEF ReceiverHandlesOffer, senderVars
<1>7. CASE t # u
  <2>1. \A kind \in Followed : InFlight(t, kind)' = InFlight(t, kind)
    BY <1>4, <1>7, FourCounts DEF Followed, MessageKind
  <2>2. rState'[t] = rState[t] /\ bytes'[t] = bytes[t]
    BY <1>7 DEF ReceiverHandlesOffer, TypeOK
  <2> QED
    BY <1>5, <1>6, <2>1, <2>2, OthersToken
<1>8. CASE t = u
  <2>1. /\ InFlight(t, "Chunk") = InFlight(t, "Chunk")'
        /\ InFlight(t, "Ack") = InFlight(t, "Ack")'
        /\ InFlight(t, "Offer") = InFlight(t, "Offer")' + 1
        /\ InFlight(t, "Accepted") = InFlight(t, "Accepted")'
    BY <1>4, <1>8, FourCounts DEF MessageKind
  <2>2. /\ InFlight(t, "Offer") = 1 /\ InFlight(t, "Offer")' = 0
        /\ rState[t] = "Unknown" /\ progress[t] = 0 /\ pc[t] \in {"offer", "done"}
        /\ Tokens(t) = 0
    BY <1>5, <2>1, FourCounts DEF TokenOf
  <2>3. rState'[t] = "Waiting" /\ bytes'[t] = 0
    BY <1>8, <2>2 DEF ReceiverHandlesOffer, TypeOK
  <2> QED
    BY <1>6, <2>1, <2>2, <2>3, FourCounts DEF TokenOf, Tokens
<1> QED
  BY <1>7, <1>8

LEMMA WritesToken ==
  ASSUME TypeOK, TypeOK', TokenInv, NEW u \in Transfer,
         ReceiverWritesChunk(u), NEW t \in Transfer
  PROVE  TokenOf(t)'
<1> DEFINE m == Head(wire["sender"])
           a == Ack(u, m.file, m.offset + 1)
<1>1. /\ Receive("receiver", "Chunk", u) /\ UNCHANGED signals
      /\ m.kind = "Chunk" /\ m.t = u
      /\ send("receiver", a)
  BY DEF ReceiverWritesChunk, senderVars, Receive, Other
<1>2. a \in Message /\ a.kind = "Ack" /\ a.t = u
  <2>1. m \in Message
    BY <1>1, ReceiveType DEF Side, Other
  <2>2. m.file \in Nat /\ m.offset + 1 \in Nat
    BY <2>1 DEF Message
  <2> QED
    BY <2>2, ChunkType DEF Ack
<1> HIDE DEF m, a
<1>3. \A kind \in MessageKind :
        InFlight(t, kind) + One(a, t, kind) = InFlight(t, kind)' + One(m, t, kind)
  BY <1>1, <1>2, AnswerFlight DEF m
<1>4. \A kind \in MessageKind :
        /\ One(m, t, kind) = IF kind = "Chunk" /\ t = u THEN 1 ELSE 0
        /\ One(a, t, kind) = IF kind = "Ack" /\ t = u THEN 1 ELSE 0
  BY <1>1, <1>2 DEF One
<1>5. \A kind \in MessageKind :
        InFlight(t, kind) + (IF kind = "Ack" /\ t = u THEN 1 ELSE 0)
          = InFlight(t, kind)' + (IF kind = "Chunk" /\ t = u THEN 1 ELSE 0)
  BY <1>3, <1>4
<1>6. TokenOf(t)
  BY DEF TokenInv
<1>7. pc'[t] = pc[t] /\ progress'[t] = progress[t] /\ rState'[t] = rState[t]
  BY DEF ReceiverWritesChunk, senderVars
<1>8. CASE t # u
  <2>1. \A kind \in Followed : InFlight(t, kind)' = InFlight(t, kind)
    BY <1>5, <1>8, FourCounts DEF Followed, MessageKind
  <2>2. bytes'[t] = bytes[t]
    BY <1>8 DEF ReceiverWritesChunk, TypeOK
  <2> QED
    BY <1>6, <1>7, <2>1, <2>2, OthersToken
<1>9. CASE t = u
  <2>1. /\ InFlight(t, "Chunk") = InFlight(t, "Chunk")' + 1
        /\ InFlight(t, "Ack") + 1 = InFlight(t, "Ack")'
        /\ InFlight(t, "Offer") = InFlight(t, "Offer")'
        /\ InFlight(t, "Accepted") = InFlight(t, "Accepted")'
    BY <1>5, <1>9, FourCounts DEF MessageKind
  <2>2. rState[t] = "Transferring" /\ bytes'[t] = bytes[t] + 1
    BY <1>9 DEF ReceiverWritesChunk, ChunkFits, TypeOK
  <2> QED
    BY <1>6, <1>7, <2>1, <2>2, FourCounts DEF TokenOf, Tokens
<1> QED
  BY <1>8, <1>9

LEMMA OtherToken ==
  ASSUME TypeOK, TypeOK', TokenInv,
         \/ \E side \in Side : Route(side)
         \/ \E f \in Name : FileCreated(f)
         \/ Connect \/ Disconnect \/ SenderCrashes \/ ReceiverCrashes,
         NEW t \in Transfer
  PROVE  TokenOf(t)'
<1>1. TokenOf(t)
  BY DEF TokenInv
<1>2. \A kind \in MessageKind :
        /\ InFlight(t, kind) = OutCount(t, kind) + WireCount(t, kind) + SignalCount(t, kind)
        /\ OutCount(t, kind) \in Nat /\ WireCount(t, kind) \in Nat
        /\ SignalCount(t, kind) \in Nat
        /\ InFlight(t, kind)' = OutCount(t, kind)' + WireCount(t, kind)' + SignalCount(t, kind)'
        /\ OutCount(t, kind)' \in Nat /\ WireCount(t, kind)' \in Nat
        /\ SignalCount(t, kind)' \in Nat
  BY FlightTypedNow, FlightTypedNext DEF FlightTyped
<1>3. Followed \subseteq MessageKind
  BY DEF Followed, MessageKind
<1>4. CASE \E side \in Side : Route(side)
  <2>1. PICK side \in Side : Route(side)
    BY <1>4
  <2>2. UNCHANGED <<pc, progress, signals, rState, bytes>>
    BY <2>1 DEF Route, senderVars, receiverVars
  <2>3. \A kind \in Followed : InFlight(t, kind)' <= InFlight(t, kind)
    <3> TAKE kind \in Followed
    <3>1. OutCount(t, kind)' + WireCount(t, kind)' <= OutCount(t, kind) + WireCount(t, kind)
      BY <2>1, RouteCount
    <3>2. SignalCount(t, kind)' = SignalCount(t, kind)
      BY <2>2 DEF SignalCount
    <3> QED
      BY <1>2, <1>3, <3>1, <3>2
  <2> QED
    BY <1>1, <2>2, <2>3, TokenLess
<1>5. CASE Connect \/ \E f \in Name : FileCreated(f)
  <2>1. UNCHANGED <<outbound, wire, signals, pc, progress, rState, bytes>>
    BY <1>5 DEF Connect, FileCreated, senderVars, receiverVars
  <2>2. \A kind \in Followed : InFlight(t, kind)' = InFlight(t, kind)
    BY <2>1 DEF InFlight
  <2> QED
    BY <1>1, <2>1, <2>2, OthersToken
<1>6. ASSUME \A side \in Side :
               \/ wire'[side] = <<>>
               \/ \E i \in 0..Len(wire[side]) : wire'[side] = SubSeq(wire[side], 1, i),
             \A side \in Side : outbound'[side] = outbound[side] \/ outbound'[side] = <<>>,
             signals'[t] = signals[t] \/ signals'[t] = <<>>
      PROVE  \A kind \in Followed : InFlight(t, kind)' <= InFlight(t, kind)
  <2> TAKE kind \in Followed
  <2>1. WireCount(t, kind)' <= WireCount(t, kind)
    BY <1>6, CutCount
  <2>2. SignalCount(t, kind)' <= SignalCount(t, kind)
    <3>1. CASE signals'[t] = signals[t]
      BY <1>2, <1>3, <3>1 DEF SignalCount
    <3>2. CASE signals'[t] = <<>>
      BY <1>2, <1>3, <3>2, CountEmpty DEF SignalCount
    <3> QED
      BY <1>6, <3>1, <3>2
  <2>3. OutCount(t, kind)' <= OutCount(t, kind)
    <3>1. \A side \in Side : Count(outbound[side], t, kind) \in Nat
      BY CountType DEF TypeOK
    <3>2. \A side \in Side : \/ Count(outbound'[side], t, kind) = Count(outbound[side], t, kind)
                             \/ Count(outbound'[side], t, kind) = 0
      BY <1>6, CountEmpty
    <3> QED
      BY <3>1, <3>2 DEF OutCount, Side
  <2> QED
    BY <1>2, <1>3, <2>1, <2>2, <2>3
<1>7. CASE Disconnect
  <2>1. \A side \in Side :
          \E i \in 0..Len(wire[side]) : wire'[side] = SubSeq(wire[side], 1, i)
    <3>1. PICK i \in 0..Len(wire["sender"]), j \in 0..Len(wire["receiver"]) :
            wire' = [wire EXCEPT !["sender"] = SubSeq(@, 1, i),
                                 !["receiver"] = SubSeq(@, 1, j)]
      BY <1>7 DEF Disconnect
    <3>2. /\ wire'["sender"] = SubSeq(wire["sender"], 1, i)
          /\ wire'["receiver"] = SubSeq(wire["receiver"], 1, j)
      BY <3>1 DEF TypeOK, Side
    <3> QED
      BY <3>2 DEF Side
  <2>2. UNCHANGED <<outbound, signals, pc, progress, rState, bytes>>
    BY <1>7 DEF Disconnect, senderVars, receiverVars
  <2> QED
    BY <1>1, <1>6, <2>1, <2>2, TokenLess
<1>8. ASSUME NEW side \in Side, Interrupted(side)
      PROVE  /\ \A s \in Side :
                  \/ wire'[s] = <<>>
                  \/ \E i \in 0..Len(wire[s]) : wire'[s] = SubSeq(wire[s], 1, i)
             /\ \A s \in Side : outbound'[s] = outbound[s] \/ outbound'[s] = <<>>
  <2>1. PICK i \in 0..Len(wire[side]) :
          wire' = [wire EXCEPT ![side] = SubSeq(@, 1, i), ![Other(side)] = <<>>]
    BY <1>8 DEF Interrupted
  <2>2. Side = {side, Other(side)} /\ side # Other(side)
    BY DEF Side, Other
  <2>3. wire'[side] = SubSeq(wire[side], 1, i) /\ wire'[Other(side)] = <<>>
    BY <2>1, <2>2 DEF TypeOK
  <2> QED
    BY <1>8, <2>2, <2>3 DEF Interrupted, TypeOK
<1>9. CASE SenderCrashes
  <2>1. /\ signals'[t] = <<>> /\ UNCHANGED <<progress, rState, bytes>>
        /\ pc'[t] = IF pc[t] = "none" THEN "none" ELSE "done"
    BY <1>9 DEF SenderCrashes, receiverVars
  <2>2. Interrupted("sender") /\ "sender" \in Side
    BY <1>9 DEF SenderCrashes, Side
  <2>3. \A kind \in Followed : InFlight(t, kind)' <= InFlight(t, kind)
    BY <1>6, <1>8, <2>1, <2>2
  <2> QED
    BY <1>1, <2>1, <2>3, TokenLess
<1>10. CASE ReceiverCrashes
  <2>1. UNCHANGED <<signals, progress, pc>> /\ rState'[t] = "Unknown"
    BY <1>10 DEF ReceiverCrashes, senderVars
  <2>2. Interrupted("receiver") /\ "receiver" \in Side
    BY <1>10 DEF ReceiverCrashes, Side
  <2>3. \A kind \in Followed : InFlight(t, kind)' <= InFlight(t, kind)
    BY <1>6, <1>8, <2>1, <2>2
  <2> QED
    BY <1>1, <2>1, <2>3, TokenLess
<1> QED
  BY <1>4, <1>5, <1>7, <1>9, <1>10

LEMMA InitToken == Init => TokenInv
<1>1. SUFFICES ASSUME Init, NEW t \in Transfer
               PROVE  TokenOf(t)
  BY DEF TokenInv
<1>2. \A kind \in MessageKind : InFlight(t, kind) = 0
  <2> TAKE kind \in MessageKind
  <2>1. /\ outbound["sender"] = <<>> /\ outbound["receiver"] = <<>>
        /\ wire["sender"] = <<>> /\ wire["receiver"] = <<>> /\ signals[t] = <<>>
    BY <1>1 DEF Init, Side
  <2>2. OutCount(t, kind) = 0 /\ WireCount(t, kind) = 0 /\ SignalCount(t, kind) = 0
    BY <2>1, CountEmpty DEF OutCount, WireCount, SignalCount
  <2> QED
    BY <1>1, <2>2, InitTyped, InFlightParts
<1>3. pc[t] = "none" /\ rState[t] = "Unknown" /\ progress[t] = 0
  BY <1>1 DEF Init
<1> QED
  BY <1>2, <1>3 DEF TokenOf, Tokens, MessageKind

LEMMA TokenStep == TypeOK /\ TypeOK' /\ PlacedInv /\ TokenInv /\ [Next]_vars => TokenInv'
<1>1. SUFFICES ASSUME TypeOK, TypeOK', PlacedInv, TokenInv, Next \/ UNCHANGED vars,
                      NEW t \in Transfer
               PROVE  TokenOf(t)'
  BY DEF TokenInv
<1>2. CASE UNCHANGED vars
  <2>1. UNCHANGED <<outbound, wire, signals, pc, progress, rState, bytes>>
    BY <1>2 DEF vars, senderVars, receiverVars
  <2>2. \A kind \in Followed : InFlight(t, kind)' = InFlight(t, kind)
    BY <2>1 DEF InFlight
  <2>3. TokenOf(t)
    BY <1>1 DEF TokenInv
  <2> QED
    BY <1>1, <2>1, <2>2, <2>3, OthersToken
<1>3. CASE \E u \in Transfer : QuietStep(u)
  BY <1>1, <1>3, QuietStepToken
<1>4. CASE \E u \in Transfer :
             \/ startOffers(u) \/ SenderReads(u) \/ accept(u)
             \/ SenderAccepted(u) \/ SenderAcked(u)
             \/ ReceiverHandlesOffer(u) \/ ReceiverWritesChunk(u)
  BY <1>1, <1>4, StartOffersToken, ReadsToken, AcceptToken, AcceptedToken, OfferToken, WritesToken
<1>5. CASE \/ \E side \in Side : Route(side)
           \/ \E f \in Name : FileCreated(f)
           \/ Connect \/ Disconnect \/ SenderCrashes \/ ReceiverCrashes
  BY <1>1, <1>5, OtherToken
<1> QED
  BY <1>1, <1>2, <1>3, <1>4, <1>5 DEF Next, RunSender, Handle, User, QuietStep

\* The inductive invariant of the stop-and-wait discipline: one token travels
\* between a sender that waits for it and a receiver that has written all the
\* sender knows of.
THEOREM TokenSound == Spec => []TokenInv
<1> QED
  BY InitToken, TokenStep, TypeCorrect, PlacedSound, PTL DEF Spec

\* At most one chunk or acknowledgement of a transfer is on its way, and the
\* receiver has written what the sender knows of or one chunk more, whatever
\* connections and daemons are lost in between.
THEOREM OneChunkAtATime == Spec => []StopAndWait
<1>1. TypeOK /\ TokenInv => StopAndWait
  <2>1. SUFFICES ASSUME TypeOK, TokenInv, NEW t \in Transfer
                 PROVE  /\ InFlight(t, "Chunk") + InFlight(t, "Ack") <= 1
                        /\ rState[t] # "Unknown" =>
                             progress[t] <= bytes[t] /\ bytes[t] <= progress[t] + 1
    BY DEF StopAndWait
  <2> QED
    BY <2>1 DEF TokenInv, TokenOf, Tokens
<1> QED
  BY <1>1, TokenSound, TypeCorrect, PTL

----------------------------------------------------------------------------
(* Nobody is left waiting *)

\* What t's messages in q are, and how q changes.
Has(q, t, kind) == \E i \in DOMAIN q : q[i].t = t /\ q[i].kind = kind
NoneOf(q, t) == \A i \in DOMAIN q : q[i].t # t
FirstIsOffer(q, t) ==
  \E i \in DOMAIN q : /\ q[i].kind = "Offer" /\ q[i].t = t
                      /\ \A j \in DOMAIN q : j < i => q[j].t # t

LEMMA AppendShape ==
  ASSUME NEW S, NEW q \in Seq(S), NEW m \in S
  PROVE  /\ Len(q) \in Nat /\ DOMAIN q = 1..Len(q)
         /\ DOMAIN Append(q, m) = 1..(Len(q) + 1)
         /\ \A i \in 1..Len(q) : Append(q, m)[i] = q[i]
         /\ Append(q, m)[Len(q) + 1] = m
<1>1. Append(q, m) \in Seq(S) /\ Len(Append(q, m)) = Len(q) + 1
  BY AppendProperties
<1> QED
  BY <1>1, LenProperties, AppendProperties

LEMMA TailShape ==
  ASSUME NEW S, NEW q \in Seq(S), q # <<>>
  PROVE  /\ Len(q) \in Nat \ {0} /\ DOMAIN q = 1..Len(q)
         /\ DOMAIN Tail(q) = 1..(Len(q) - 1)
         /\ \A i \in 1..(Len(q) - 1) : Tail(q)[i] = q[i + 1]
         /\ Head(q) = q[1]
<1>1. Tail(q) \in Seq(S) /\ Len(Tail(q)) = Len(q) - 1
  BY HeadTailProperties
<1>2. Len(q) \in Nat \ {0}
  BY EmptySeq, LenProperties
<1> QED
  BY <1>1, <1>2, LenProperties, HeadTailProperties

LEMMA AppendQueue ==
  ASSUME NEW q \in Seq(Message), NEW m \in Message, NEW t
  PROVE  /\ \A kind : Has(q, t, kind) => Has(Append(q, m), t, kind)
         /\ m.t = t => Has(Append(q, m), t, m.kind)
         /\ FirstIsOffer(q, t) => FirstIsOffer(Append(q, m), t)
         /\ NoneOf(q, t) /\ m.t # t => NoneOf(Append(q, m), t)
         /\ NoneOf(q, t) /\ m.t = t /\ m.kind = "Offer" => FirstIsOffer(Append(q, m), t)
<1> DEFINE a == Append(q, m)
           n == Len(q)
<1>1. /\ n \in Nat /\ DOMAIN q = 1..n /\ DOMAIN a = 1..(n + 1)
      /\ \A i \in 1..n : a[i] = q[i]
      /\ a[n + 1] = m
  BY AppendShape
<1> HIDE DEF a, n
<1>2. \A kind : Has(q, t, kind) => Has(a, t, kind)
  BY <1>1 DEF Has
<1>3. m.t = t => Has(a, t, m.kind)
  BY <1>1 DEF Has
<1>4. FirstIsOffer(q, t) => FirstIsOffer(a, t)
  BY <1>1 DEF FirstIsOffer
<1>5. NoneOf(q, t) /\ m.t # t => NoneOf(a, t)
  BY <1>1 DEF NoneOf
<1>6. NoneOf(q, t) /\ m.t = t /\ m.kind = "Offer" => FirstIsOffer(a, t)
  BY <1>1 DEF NoneOf, FirstIsOffer
<1> QED
  BY <1>2, <1>3, <1>4, <1>5, <1>6 DEF a

LEMMA TailQueue ==
  ASSUME NEW q \in Seq(Message), q # <<>>, NEW t
  PROVE  /\ \A kind : Has(q, t, kind) =>
                        Has(Tail(q), t, kind) \/ (Head(q).t = t /\ Head(q).kind = kind)
         /\ NoneOf(q, t) => NoneOf(Tail(q), t) /\ Head(q).t # t
         /\ FirstIsOffer(q, t) =>
              \/ Head(q).t = t /\ Head(q).kind = "Offer"
              \/ Head(q).t # t /\ FirstIsOffer(Tail(q), t)
<1> DEFINE a == Tail(q)
           n == Len(q)
<1>1. /\ n \in Nat \ {0} /\ DOMAIN q = 1..n /\ DOMAIN a = 1..(n - 1)
      /\ \A i \in 1..(n - 1) : a[i] = q[i + 1]
      /\ Head(q) = q[1]
  BY TailShape
<1> HIDE DEF a, n
<1>2. \A i \in DOMAIN q : i = 1 \/ (i - 1 \in DOMAIN a /\ a[i - 1] = q[i])
  BY <1>1
<1>3. \A kind : Has(q, t, kind) => Has(a, t, kind) \/ (Head(q).t = t /\ Head(q).kind = kind)
  BY <1>1, <1>2 DEF Has
<1>4. NoneOf(q, t) => NoneOf(a, t) /\ Head(q).t # t
  <2>1. \A i \in DOMAIN a : i + 1 \in DOMAIN q /\ a[i] = q[i + 1]
    BY <1>1
  <2>2. 1 \in DOMAIN q
    BY <1>1
  <2> QED
    BY <1>1, <2>1, <2>2 DEF NoneOf
<1>5. ASSUME FirstIsOffer(q, t)
      PROVE  \/ Head(q).t = t /\ Head(q).kind = "Offer"
             \/ Head(q).t # t /\ FirstIsOffer(a, t)
  <2>1. PICK i \in DOMAIN q : /\ q[i].kind = "Offer" /\ q[i].t = t
                              /\ \A j \in DOMAIN q : j < i => q[j].t # t
    BY <1>5 DEF FirstIsOffer
  <2>2. CASE i = 1
    BY <1>1, <2>1, <2>2
  <2>3. CASE i # 1
    <3>1. i - 1 \in DOMAIN a /\ a[i - 1] = q[i] /\ 1 < i /\ 1 \in DOMAIN q
      BY <1>1, <2>3
    <3>2. \A j \in DOMAIN a : j < i - 1 => a[j].t # t
      <4> TAKE j \in DOMAIN a
      <4>1. j + 1 \in DOMAIN q /\ a[j] = q[j + 1] /\ (j < i - 1 => j + 1 < i)
        BY <1>1
      <4> QED
        BY <2>1, <4>1
    <3>3. \E k \in DOMAIN a : /\ a[k].kind = "Offer" /\ a[k].t = t
                               /\ \A j \in DOMAIN a : j < k => a[j].t # t
      <4> DEFINE k == i - 1
      <4>1. /\ k \in DOMAIN a /\ a[k].kind = "Offer" /\ a[k].t = t
            /\ \A j \in DOMAIN a : j < k => a[j].t # t
        BY <2>1, <3>1, <3>2
      <4> HIDE DEF k
      <4> QED
        BY <4>1
    <3>4. Head(q).t # t
      BY <1>1, <2>1, <3>1
    <3> QED
      BY <3>3, <3>4 DEF FirstIsOffer
  <2> QED
    BY <2>2, <2>3
<1> QED
  BY <1>3, <1>4, <1>5 DEF a

\* All that is on its way from a side, in the order it will arrive while
\* the two stay connected.
From(side) == wire[side] \o outbound[side]

LEMMA FromType ==
  ASSUME TypeOK, NEW side \in Side
  PROVE  From(side) \in Seq(Message)
BY ConcatProperties DEF TypeOK, From

LEMMA ConcatAppend ==
  ASSUME NEW S, NEW r \in Seq(S), NEW s \in Seq(S), NEW m \in S
  PROVE  r \o Append(s, m) = Append(r \o s, m)
<1>1. <<m>> \in Seq(S)
  OBVIOUS
<1>2. r \o s \in Seq(S)
  BY ConcatProperties
<1>3. r \o (s \o <<m>>) = (r \o s) \o <<m>>
  BY <1>1, ConcatAssociative
<1> QED
  BY <1>2, <1>3, AppendIsConcat

LEMMA HeadConcat ==
  ASSUME NEW S, NEW r \in Seq(S), r # <<>>
  PROVE  r = <<Head(r)>> \o Tail(r) /\ <<Head(r)>> \in Seq(S)
<1>1. Head(r) \in S /\ Tail(r) \in Seq(S)
  BY HeadTailProperties
<1>2. <<Head(r)>> \in Seq(S) /\ Len(<<Head(r)>>) = 1 /\ <<Head(r)>>[1] = Head(r)
  BY <1>1
<1> DEFINE c == <<Head(r)>> \o Tail(r)
<1>3. /\ Len(r) \in Nat \ {0} /\ DOMAIN Tail(r) = 1..(Len(r) - 1) /\ Head(r) = r[1]
      /\ \A i \in 1..(Len(r) - 1) : Tail(r)[i] = r[i + 1]
  BY TailShape
<1>4. Len(Tail(r)) = Len(r) - 1
  BY <1>1, <1>3, LenProperties
<1>5. c \in Seq(S) /\ Len(c) = Len(r)
  BY <1>1, <1>2, <1>3, <1>4, ConcatProperties
<1>6. \A i \in 1..Len(r) : c[i] = IF i <= 1 THEN <<Head(r)>>[i] ELSE Tail(r)[i - 1]
  BY <1>1, <1>2, <1>3, <1>4, ConcatProperties
<1>7. \A i \in 1..Len(r) : c[i] = r[i]
  <2> TAKE i \in 1..Len(r)
  <2>1. CASE i = 1
    BY <1>2, <1>3, <1>6, <2>1
  <2>2. CASE i # 1
    <3>1. i - 1 \in 1..(Len(r) - 1) /\ (i - 1) + 1 = i /\ ~(i <= 1)
      BY <1>3, <2>2
    <3> QED
      BY <1>3, <1>6, <3>1
  <2> QED
    BY <2>1, <2>2
<1> HIDE DEF c
<1>8. c = r
  BY <1>5, <1>7, SeqEqual
<1> QED
  BY <1>2, <1>8 DEF c

LEMMA ConcatTail ==
  ASSUME NEW S, NEW r \in Seq(S), r # <<>>, NEW s \in Seq(S)
  PROVE  /\ r \o s # <<>>
         /\ Head(r \o s) = Head(r)
         /\ Tail(r \o s) = Tail(r) \o s
<1> DEFINE h == Head(r)
           x == Tail(r) \o s
<1>1. h \in S /\ Tail(r) \in Seq(S) /\ <<h>> \in Seq(S)
  BY HeadTailProperties, HeadConcat
<1>2. x \in Seq(S)
  BY <1>1, ConcatProperties
<1>3. r \o s = <<h>> \o x
  BY <1>1, HeadConcat, ConcatAssociative
<1>4. /\ <<h>> \o x \in Seq(S) /\ Len(<<h>> \o x) = Len(x) + 1
      /\ (<<h>> \o x)[1] = h
      /\ \A i \in 2..(Len(x) + 1) : (<<h>> \o x)[i] = x[i - 1]
  BY <1>1, <1>2, ConcatProperties, LenProperties
<1> DEFINE c == <<h>> \o x
<1>5. c # <<>>
  BY <1>2, <1>4, LenProperties, EmptySeq
<1>6. Head(c) = h
  BY <1>4
<1>7. Tail(c) \in Seq(S) /\ Len(Tail(c)) = Len(x) /\ \A i \in 1..Len(x) : Tail(c)[i] = x[i]
  <2>1. c \in Seq(S) /\ Len(x) \in Nat /\ Len(c) = Len(x) + 1
    BY <1>2, <1>4, LenProperties
  <2>2. \A i \in 1..Len(x) : i + 1 \in 2..(Len(x) + 1) /\ (i + 1) - 1 = i
    BY <2>1
  <2>3. \A i \in 1..Len(x) : c[i + 1] = x[i]
    BY <1>4, <2>2
  <2> HIDE DEF c, x
  <2>4. Tail(c) \in Seq(S) /\ Len(Tail(c)) = Len(x) /\ \A i \in 1..Len(x) : Tail(c)[i] = c[i + 1]
    BY <1>5, <2>1, HeadTailProperties
  <2> QED
    BY <2>3, <2>4
<1> HIDE DEF c, x, h
<1>8. Tail(c) = x
  BY <1>2, <1>7, SeqEqual
<1> QED
  BY <1>3, <1>5, <1>6, <1>8 DEF c, x, h

LEMMA ConcatMove ==
  ASSUME NEW S, NEW r \in Seq(S), NEW s \in Seq(S), s # <<>>
  PROVE  Append(r, Head(s)) \o Tail(s) = r \o s
<1>1. Head(s) \in S /\ Tail(s) \in Seq(S) /\ <<Head(s)>> \in Seq(S)
  BY HeadTailProperties, HeadConcat
<1>2. Append(r, Head(s)) = r \o <<Head(s)>>
  BY <1>1, AppendIsConcat
<1>3. (r \o <<Head(s)>>) \o Tail(s) = r \o (<<Head(s)>> \o Tail(s))
  BY <1>1, ConcatAssociative
<1> QED
  BY <1>2, <1>3, HeadConcat

LEMMA SendFrom ==
  ASSUME TypeOK, NEW side \in Side, NEW m \in Message, send(side, m),
         NEW other \in Side, wire'[other] = wire[other]
  PROVE  From(other)' = IF other = side THEN Append(From(other), m) ELSE From(other)
<1>1. wire[other] \in Seq(Message) /\ outbound[other] \in Seq(Message)
  BY DEF TypeOK
<1>2. outbound'[other] = IF other = side THEN Append(outbound[other], m) ELSE outbound[other]
  BY DEF TypeOK, send
<1>3. wire[other] \o Append(outbound[other], m) = Append(wire[other] \o outbound[other], m)
  <2> DEFINE r == wire[other]
             s == outbound[other]
  <2>1. r \in Seq(Message) /\ s \in Seq(Message)
    BY <1>1
  <2> HIDE DEF r, s
  <2>2. r \o Append(s, m) = Append(r \o s, m)
    BY <2>1, ConcatAppend
  <2> QED
    BY <2>2 DEF r, s
<1>4. From(other) = wire[other] \o outbound[other]
  BY DEF From
<1>5. From(other)' = wire[other] \o outbound'[other]
  BY DEF From
<1> QED
  BY <1>2, <1>3, <1>4, <1>5

LEMMA SameFrom ==
  ASSUME NEW side, wire'[side] = wire[side], outbound'[side] = outbound[side]
  PROVE  From(side)' = From(side)
BY DEF From

LEMMA ReceiveFrom ==
  ASSUME TypeOK, NEW side \in Side, NEW kind, NEW t, Receive(side, kind, t),
         outbound'[Other(side)] = outbound[Other(side)]
  PROVE  /\ From(Other(side)) # <<>>
         /\ Head(From(Other(side))) = Head(wire[Other(side)])
         /\ From(Other(side))' = Tail(From(Other(side)))
         /\ wire'[side] = wire[side]
<1> DEFINE o == Other(side)
<1>1. o \in Side /\ o # side
  BY DEF Other, Side
<1>2. /\ wire[o] \in Seq(Message) /\ outbound[o] \in Seq(Message)
      /\ wire[o] # <<>> /\ wire'[o] = Tail(wire[o]) /\ wire'[side] = wire[side]
  BY <1>1 DEF TypeOK, Receive
<1> HIDE DEF o
<1>3. /\ From(o) # <<>> /\ Head(From(o)) = Head(wire[o])
      /\ Tail(From(o)) = Tail(wire[o]) \o outbound[o]
  BY <1>2, ConcatTail DEF From
<1>4. From(o)' = Tail(wire[o]) \o outbound[o]
  BY <1>2 DEF From, o
<1> QED
  BY <1>2, <1>3, <1>4 DEF o

LEMMA RouteFrom ==
  ASSUME TypeOK, connected, NEW side \in Side, Route(side), NEW other \in Side
  PROVE  From(other)' = From(other)
<1>1. CASE other = side
  <2>1. /\ wire[side] \in Seq(Message) /\ outbound[side] \in Seq(Message)
        /\ outbound[side] # <<>> /\ outbound'[side] = Tail(outbound[side])
        /\ wire'[side] = Append(wire[side], Head(outbound[side]))
    BY DEF TypeOK, Route
  <2> QED
    BY <1>1, <2>1, ConcatMove DEF From
<1>2. CASE other # side
  BY <1>2, SameFrom DEF Route, TypeOK
<1> QED
  BY <1>1, <1>2

\* What a sender that is done has to rely on: its receiver's job is over, or a
\* Cancel will reach it.
Final == {"Rejected", "Finished", "Cancel"}
Over(t) == rState[t] \in {"Completed", "Rejected", "Cancelled"}
Told(t) == Over(t) \/ Has(From("sender"), t, "Cancel")

\* The messages a receiver may have sent, and those a task may find.
Honest == {m \in Message : m.kind \in Final => Over(m.t)}
Heard(t) == {m \in Message : m.kind \in Final => Told(t)}

EndOf(t) ==
  /\ pc[t] = "none" => sState[t] = "Unknown" /\ t \notin overtaken
  /\ t \notin overtaken =>
       /\ pc[t] \in {"none", "start"} =>
            rState[t] = "Unknown" /\ NoneOf(From("sender"), t)
       /\ pc[t] \notin {"none", "start"} /\ rState[t] = "Unknown" =>
            FirstIsOffer(From("sender"), t)
       /\ pc[t] = "done" \/ sState[t] = "Cancelled" => Told(t)
       /\ pc[t] \in {"start", "offer", "read", "ack", "finish"} =>
            sState[t] \notin {"Completed", "Rejected"}
       /\ signals[t] \in Seq(Heard(t))

Ends == /\ connected
        /\ From("receiver") \in Seq(Honest)
        /\ \A t \in Transfer : EndOf(t)

EndInv == spent["drop"] = 0 /\ spent["crash"] = 0 => Ends

LEMMA InitEnds == Init => EndInv
<1>1. SUFFICES ASSUME Init
               PROVE  Ends
  BY DEF EndInv
<1>2. <<>> \in Seq(Message) /\ <<>> \o <<>> = <<>>
  BY EmptySeq, ConcatEmptySeq
<1>3. From("sender") = <<>> /\ From("receiver") = <<>>
  BY <1>1, <1>2 DEF Init, From, Side
<1>4. \A t : NoneOf(<<>>, t)
  BY EmptySeq DEF NoneOf
<1>5. \A S : <<>> \in Seq(S)
  BY EmptySeq
<1>6. \A t \in Transfer : EndOf(t)
  BY <1>1, <1>3, <1>4, <1>5 DEF Init, EndOf
<1> QED
  BY <1>1, <1>3, <1>5, <1>6 DEF Ends, Init

\* Nothing is lost: what holds of the queues and of the two tasks stays.
LEMMA EndsUndisturbed ==
  ASSUME Ends, UNCHANGED <<connected, senderVars, rState>>,
         \A side \in Side : From(side)' = From(side)
  PROVE  Ends'
<1>1. UNCHANGED <<sState, pc, signals, overtaken>>
  BY DEF senderVars
<1>2. From("sender")' = From("sender") /\ From("receiver")' = From("receiver")
  BY DEF Side
<1>3. \A t : Over(t)' = Over(t) /\ Told(t)' = Told(t)
  BY <1>2 DEF Over, Told
<1>4. Honest' = Honest /\ \A t : Heard(t)' = Heard(t)
  BY <1>3 DEF Honest, Heard
<1>5. \A t \in Transfer : EndOf(t)'
  <2> TAKE t \in Transfer
  <2>1. EndOf(t)
    BY DEF Ends
  <2> QED
    BY <1>1, <1>2, <1>3, <1>4, <2>1 DEF EndOf
<1> QED
  BY <1>2, <1>4, <1>5 DEF Ends

\* Whoever is told stays told, and no signal takes more than that.
LEMMA HeardStays ==
  ASSUME NEW t \in Transfer, signals[t] \in Seq(Heard(t)), Told(t) => Told(t)'
  PROVE  signals[t] \in Seq(Heard(t)')
<1>1. Heard(t) \subseteq Heard(t)'
  BY DEF Heard
<1> QED
  BY <1>1, SeqMonotone

\* What run_sender and its user do of themselves.
SenderActs(u) ==
  \/ RunSender(u) \/ SenderReadFails(u) \/ start(u) \/ SenderCancels(u)

\* At most one message of this transfer is sent, and the receiver not disturbed.
LEMMA SenderActsFrom ==
  ASSUME TypeOK, NEW u \in Transfer, SenderActs(u)
  PROVE  /\ UNCHANGED <<connected, rState>>
         /\ From("receiver")' = From("receiver")
         /\ \/ From("sender")' = From("sender")
            \/ \E m \in Message : m.t = u /\ From("sender")' = Append(From("sender"), m)
<1>1. UNCHANGED <<connected, wire, rState>>
  BY DEF SenderActs, RunSender, SenderAccepted, SenderRejected, SenderAcked, SenderFinished,
     SenderStopped, Signalled, SenderTimeout, SenderReads, SenderNextFile, SenderCompletes,
     SenderReadFails, start, startOffers, SenderCancels, receiverVars
<1>2. \/ UNCHANGED outbound
      \/ \E kind \in MessageKind : send("sender", Msg(kind, u))
      \/ send("sender", Chunk(u, file[u], offset[u]))
  BY DEF SenderActs, RunSender, SenderAccepted, SenderRejected, SenderAcked, SenderFinished,
     SenderStopped, fail, SenderTimeout, SenderReads, SenderNextFile, SenderCompletes,
     SenderReadFails, start, startOffers, SenderCancels, MessageKind
<1>3. Chunk(u, file[u], offset[u]) \in Message /\ Chunk(u, file[u], offset[u]).t = u
  BY ChunkType DEF Chunk, TypeOK
<1>4. \A kind \in MessageKind : Msg(kind, u) \in Message /\ Msg(kind, u).t = u
  BY MsgType DEF Msg
<1>5. CASE UNCHANGED outbound
  BY <1>1, <1>5, SameFrom
<1>6. CASE \E m \in Message : m.t = u /\ send("sender", m)
  <2>1. PICK m \in Message : m.t = u /\ send("sender", m)
    BY <1>6
  <2>2. /\ From("sender")' = Append(From("sender"), m)
        /\ From("receiver")' = From("receiver")
    BY <1>1, <2>1, SendFrom DEF Side
  <2> QED
    BY <1>1, <2>1, <2>2
<1> QED
  BY <1>2, <1>3, <1>4, <1>5, <1>6

LEMMA SaysCancel ==
  ASSUME TypeOK, NEW u \in Transfer, send("sender", Msg("Cancel", u)), UNCHANGED wire
  PROVE  Told(u)'
<1> DEFINE m == Msg("Cancel", u)
<1>1. m \in Message /\ m.t = u /\ m.kind = "Cancel"
  BY MsgType DEF Msg, MessageKind
<1> HIDE DEF m
<1>2. From("sender")' = Append(From("sender"), m)
  <2>1. send("sender", m) /\ wire'["sender"] = wire["sender"]
    BY DEF m
  <2> QED
    BY <1>1, <2>1, SendFrom DEF Side
<1>3. From("sender") \in Seq(Message)
  BY FromType DEF Side
<1>4. Has(Append(From("sender"), m), u, "Cancel")
  BY <1>1, <1>3, AppendQueue
<1>5. Has(From("sender")', u, "Cancel")
  BY <1>2, <1>4
<1>6. Has(From("sender"), u, "Cancel")' <=> Has(From("sender")', u, "Cancel")
  BY DEF Has
<1> QED
  BY <1>5, <1>6 DEF Told

\* A task that fails has told, or leaves it to who settled the transfer.
LEMMA FailTells ==
  ASSUME TypeOK, NEW u \in Transfer, EndOf(u), u \notin overtaken,
         Told(u) => Told(u)',
         pc[u] \in {"offer", "read", "ack", "finish"}, fail(u), UNCHANGED wire
  PROVE  pc'[u] = "done" /\ Told(u)'
<1>1. pc'[u] = "done"
  BY DEF fail, TypeOK
<1>2. CASE sState[u] \in Settled
  BY <1>1, <1>2 DEF EndOf, Settled
<1>3. CASE sState[u] \notin Settled
  BY <1>1, <1>3, SaysCancel DEF fail
<1> QED
  BY <1>2, <1>3

LEMMA SenderActsEnds ==
  ASSUME TypeOK, Ends, NEW u \in Transfer, SenderActs(u)
  PROVE  Ends'
<1>1. /\ UNCHANGED <<connected, rState>>
      /\ From("receiver")' = From("receiver")
      /\ \/ From("sender")' = From("sender")
         \/ \E m \in Message : m.t = u /\ From("sender")' = Append(From("sender"), m)
  BY SenderActsFrom
<1>2. From("sender") \in Seq(Message)
  BY FromType DEF Side
<1> DEFINE Q == From("sender")
           R == From("sender")'
<1>3. /\ \A t, kind : Has(Q, t, kind) => Has(R, t, kind)
      /\ \A t : FirstIsOffer(Q, t) => FirstIsOffer(R, t)
      /\ \A t : NoneOf(Q, t) /\ t # u => NoneOf(R, t)
  <2>1. CASE R = Q
    BY <2>1
  <2>2. CASE \E m \in Message : m.t = u /\ R = Append(Q, m)
    BY <1>2, <2>2, AppendQueue
  <2> QED
    BY <1>1, <2>1, <2>2
<1>4. \A t : /\ Has(From("sender"), t, "Cancel")' = Has(R, t, "Cancel")
             /\ FirstIsOffer(From("sender"), t)' = FirstIsOffer(R, t)
             /\ NoneOf(From("sender"), t)' = NoneOf(R, t)
  BY DEF Has, FirstIsOffer, NoneOf
<1> HIDE DEF R
<1>5. \A t : Over(t)' = Over(t) /\ (Told(t) => Told(t)')
  BY <1>1, <1>3, <1>4 DEF Over, Told
<1>6. Honest' = Honest
  BY <1>5 DEF Honest
<1>7. \A t \in Transfer : EndOf(t)
  BY DEF Ends
<1>8. \A t \in Transfer : t # u => EndOf(t)'
  <2> SUFFICES ASSUME NEW t \in Transfer, t # u
               PROVE  EndOf(t)'
    OBVIOUS
  <2>1. /\ pc'[t] = pc[t] /\ sState'[t] = sState[t] /\ signals'[t] = signals[t]
        /\ t \in overtaken' <=> t \in overtaken
    BY DEF SenderActs, RunSender, SenderAccepted, SenderRejected, SenderAcked, SenderFinished,
       SenderStopped, fail, Signalled, SenderTimeout, SenderReads, SenderNextFile,
       SenderCompletes, SenderReadFails, start, startOffers, SenderCancels, route_signal,
       TypeOK
  <2>2. t \notin overtaken => signals'[t] \in Seq(Heard(t)')
    BY <1>5, <1>7, <2>1, HeardStays DEF EndOf
  <2> QED
    BY <1>1, <1>3, <1>4, <1>5, <1>7, <2>1, <2>2 DEF EndOf
<1>9. EndOf(u)'
  <2>1. EndOf(u)
    BY <1>7
  <2>2. u \notin overtaken => signals[u] \in Seq(Heard(u)')
    BY <1>5, <2>1, HeardStays DEF EndOf
  <2>a. pc'[u] # "none" /\ overtaken \subseteq overtaken'
    BY <2>1 DEF SenderActs, RunSender, SenderAccepted, SenderRejected, SenderAcked,
       SenderFinished, SenderStopped, fail, Signalled, SenderTimeout, SenderReads,
       SenderNextFile, EndOfFile, SenderCompletes, SenderReadFails, start, startOffers,
       SenderCancels, EndOf, TypeOK
  <2>b. SUFFICES ASSUME u \notin overtaken'
                 PROVE  EndOf(u)'
    BY <2>a DEF EndOf
  <2>c. u \notin overtaken
    BY <2>a, <2>b
  <2>3. SUFFICES /\ signals'[u] \in Seq(Heard(u)')
                 /\ pc'[u] = "start" => rState'[u] = "Unknown" /\ NoneOf(R, u)
                 /\ pc'[u] # "start" /\ rState'[u] = "Unknown" => FirstIsOffer(R, u)
                 /\ pc'[u] = "done" \/ sState'[u] = "Cancelled" => Told(u)'
                 /\ pc'[u] \in {"start", "offer", "read", "ack", "finish"} =>
                      sState'[u] \notin {"Completed", "Rejected"}
    BY <1>4, <2>a DEF EndOf
  <2>4. CASE start(u)
    <3>1. /\ pc[u] = "none" /\ pc'[u] = "start" /\ sState'[u] = "Waiting"
          /\ UNCHANGED <<outbound, wire, signals>>
      BY <2>4 DEF start, TypeOK
    <3>2. R = Q
      BY <3>1, SameFrom DEF R
    <3> QED
      BY <1>1, <2>1, <2>2, <2>c, <3>1, <3>2 DEF EndOf
  <2>9. CASE startOffers(u)
    <3>1. /\ pc[u] = "start" /\ pc'[u] = "offer"
          /\ UNCHANGED <<wire, sState, signals>> /\ send("sender", Msg("Offer", u))
      BY <2>9 DEF startOffers, TypeOK
    <3> DEFINE m == Msg("Offer", u)
    <3>2. m \in Message /\ m.t = u /\ m.kind = "Offer"
      BY MsgType DEF Msg, MessageKind
    <3>3. send("sender", m)
      BY <3>1
    <3> HIDE DEF m
    <3>4. R = Append(Q, m)
      BY <3>1, <3>2, <3>3, SendFrom DEF Side, R
    <3>5. FirstIsOffer(R, u)
      <4>1. NoneOf(Q, u)
        BY <2>1, <2>c, <3>1 DEF EndOf
      <4> HIDE DEF Q
      <4> QED
        BY <1>2, <3>2, <3>4, <4>1, AppendQueue DEF Q
    <3> QED
      BY <1>5, <2>1, <2>2, <2>c, <3>1, <3>5 DEF EndOf
  <2>5. CASE \/ SenderAccepted(u) \/ SenderAcked(u) \/ SenderRejected(u)
             \/ SenderFinished(u) \/ SenderStopped(u)
    <3>1. /\ pc[u] \in {"offer", "ack", "finish"} /\ signals[u] # <<>>
          /\ signals'[u] = Tail(signals[u]) /\ UNCHANGED wire
      BY <2>5 DEF SenderAccepted, SenderAcked, SenderRejected, SenderFinished,
                  SenderStopped, Signalled, TypeOK
    <3>2. signals'[u] \in Seq(Heard(u)')
      BY <2>2, <2>c, <3>1, TailIn
    <3>3. Head(signals[u]) \in Heard(u)
      BY <2>1, <2>c, <3>1, TailIn DEF EndOf
    <3>4. rState'[u] = "Unknown" => FirstIsOffer(R, u)
      BY <1>1, <1>3, <2>1, <2>c, <3>1 DEF EndOf
    <3>5. CASE SenderAccepted(u) \/ SenderAcked(u)
      <4>1. pc'[u] = "read" /\ sState'[u] \in {sState[u], "Transferring"}
        BY <3>5 DEF SenderAccepted, SenderAcked, TypeOK
      <4> QED
        BY <1>5, <2>1, <2>c, <3>1, <3>2, <3>4, <4>1 DEF EndOf
    <3>6. CASE SenderRejected(u) \/ SenderFinished(u)
      <4>1. pc'[u] = "done" /\ Head(signals[u]).kind \in {"Rejected", "Finished"}
        BY <3>6 DEF SenderRejected, SenderFinished, TypeOK
      <4>2. Told(u)'
        BY <1>5, <3>3, <4>1 DEF Heard, Final
      <4> QED
        BY <3>2, <3>4, <4>1, <4>2
    <3>7. CASE SenderStopped(u)
      <4>1. pc'[u] = "done" /\ Told(u)'
        BY <1>5, <2>1, <2>c, <3>1, <3>7, FailTells DEF SenderStopped
      <4> QED
        BY <3>2, <3>4, <4>1
    <3> QED
      BY <2>5, <3>5, <3>6, <3>7
  <2>6. CASE SenderTimeout(u) \/ SenderReadFails(u)
    <3>1. /\ pc[u] \in {"offer", "read", "ack", "finish"} /\ fail(u)
          /\ UNCHANGED <<wire, signals>>
      BY <2>6 DEF SenderTimeout, SenderReadFails
    <3>2. pc'[u] = "done" /\ Told(u)'
      BY <1>5, <2>1, <2>c, <3>1, FailTells
    <3> QED
      BY <1>1, <1>3, <2>1, <2>2, <2>c, <3>1, <3>2 DEF EndOf
  <2>7. CASE SenderReads(u) \/ SenderNextFile(u) \/ SenderCompletes(u)
    <3>1. /\ pc[u] = "read" /\ pc'[u] \in {"read", "ack", "finish"}
          /\ UNCHANGED <<sState, signals>>
      BY <2>7 DEF SenderReads, SenderNextFile, SenderCompletes, EndOfFile, TypeOK
    <3> QED
      BY <1>1, <1>3, <1>5, <2>1, <2>2, <2>c, <3>1 DEF EndOf
  <2>8. CASE SenderCancels(u)
    <3>1. /\ sState[u] # "Unknown" /\ sState'[u] = "Cancelled"
          /\ pc'[u] = pc[u] /\ pc[u] # "start"
          /\ route_signal(u, Msg("Cancel", u)) /\ send("sender", Msg("Cancel", u))
          /\ UNCHANGED wire
      BY <2>8, <2>b DEF SenderCancels, TypeOK
    <3>2. Told(u)'
      BY <3>1, SaysCancel
    <3>3. Msg("Cancel", u) \in Heard(u)'
      <4>1. Msg("Cancel", u) \in Message
        BY MsgType DEF MessageKind
      <4>2. Msg("Cancel", u).t = u
        BY DEF Msg
      <4> QED
        BY <3>2, <4>1, <4>2 DEF Heard
    <3>4. signals'[u] \in Seq(Heard(u)')
      BY <2>2, <2>c, <3>1, <3>3, AppendIn DEF route_signal, TypeOK
    <3> QED
      BY <1>1, <1>3, <2>1, <2>c, <3>1, <3>2, <3>4 DEF EndOf
  <2> QED
    BY <2>4, <2>5, <2>6, <2>7, <2>8, <2>9 DEF SenderActs, RunSender
<1> QED
  BY <1>1, <1>6, <1>8, <1>9 DEF Ends

\* An answer or a Cancel reaches the sender.
LEMMA SenderHearsEnds ==
  ASSUME TypeOK, Ends, NEW u \in Transfer,
         SenderHandlesAnswer(u) \/ SenderHandlesCancel(u)
  PROVE  Ends'
<1> DEFINE m == Head(wire["receiver"])
<1>1. PICK kind \in MessageKind : Receive("sender", kind, u)
  BY DEF SenderHandlesAnswer, SenderHandlesCancel, MessageKind
<1>2. /\ UNCHANGED <<connected, outbound, pc, rState, overtaken>> /\ route_signal(u, m)
      /\ UNCHANGED wire["sender"]
  BY <1>1, ReceiveFrom
     DEF SenderHandlesAnswer, SenderHandlesCancel, receiverVars, Side, Other
<1>3. Other("sender") = "receiver" /\ "sender" \in Side
  BY DEF Other, Side
<1>4. /\ From("receiver") # <<>> /\ Head(From("receiver")) = m
      /\ From("receiver")' = Tail(From("receiver")) /\ m.t = u
  BY <1>1, <1>2, <1>3, ReceiveFrom, ReceiveType
<1>5. From("sender")' = From("sender")
  BY <1>2, SameFrom
<1> HIDE DEF m
<1>6. From("receiver")' \in Seq(Honest) /\ m \in Honest
  BY <1>4, TailIn DEF Ends
<1>7. \A t : Over(t)' = Over(t) /\ Told(t)' = Told(t)
  BY <1>2, <1>5 DEF Over, Told
<1>8. Honest' = Honest /\ \A t : Heard(t)' = Heard(t)
  BY <1>7 DEF Honest, Heard
<1>9. \A t \in Transfer : EndOf(t)
  BY DEF Ends
<1>10. m \in Heard(u)
  BY <1>4, <1>6 DEF Honest, Heard, Told
<1>11. \A t \in Transfer : t \notin overtaken => signals'[t] \in Seq(Heard(t))
  <2> SUFFICES ASSUME NEW t \in Transfer, t \notin overtaken
               PROVE  signals'[t] \in Seq(Heard(t))
    OBVIOUS
  <2>1. signals[t] \in Seq(Heard(t))
    BY <1>9 DEF EndOf
  <2>2. signals'[t] = signals[t] \/ (t = u /\ signals'[t] = Append(signals[t], m))
    BY <1>2 DEF route_signal, TypeOK
  <2> QED
    BY <1>10, <2>1, <2>2, AppendIn
<1>12. \A t \in Transfer : EndOf(t)'
  <2> TAKE t \in Transfer
  <2>1. /\ NoneOf(From("sender"), t)' = NoneOf(From("sender"), t)
        /\ FirstIsOffer(From("sender"), t)' = FirstIsOffer(From("sender"), t)
    BY <1>5 DEF NoneOf, FirstIsOffer
  <2>2. \/ sState'[t] = sState[t]
        \/ sState[t] # "Unknown" /\ sState'[t] = "Cancelled" /\ Told(t)
    <3>1. CASE SenderHandlesAnswer(u)
      BY <3>1 DEF SenderHandlesAnswer
    <3>2. CASE SenderHandlesCancel(u)
      <4>1. m.kind = "Cancel"
        BY <3>2 DEF SenderHandlesCancel, Receive, Other, m
      <4>2. Told(u)
        BY <1>10, <4>1 DEF Heard, Final
      <4> QED
        BY <3>2, <4>2 DEF SenderHandlesCancel, TypeOK
    <3> QED
      BY <3>1, <3>2
  <2> QED
    BY <1>2, <1>7, <1>8, <1>9, <1>11, <2>1, <2>2 DEF EndOf
<1> QED
  BY <1>2, <1>6, <1>8, <1>12 DEF Ends

\* What the receiver, its user and what reaches it do.
ReceiverReads(u) ==
  \/ ReceiverHandlesOffer(u) \/ ReceiverHandlesCancel(u)
  \/ ReceiverWritesChunk(u) \/ ReceiverDropsChunk(u)
  \/ ReceiverFinishes(u) \/ ReceiverFinishFails(u)

ReceiverActs(u) ==
  \/ accept(u) \/ AcceptFails(u) \/ reject(u) \/ ReceiverCancels(u)
  \/ ReceiverReads(u)

\* Nothing but an Offer finds a receiver that knows nothing of the transfer, or
\* the Cancel that overtook it.
LEMMA ReceiverKnows ==
  ASSUME TypeOK, Ends, NEW u \in Transfer, ReceiverActs(u)
  PROVE  /\ UNCHANGED <<connected, senderVars>>
         /\ UNCHANGED outbound["sender"] /\ UNCHANGED wire["receiver"]
         /\ u \notin overtaken /\ rState[u] = "Unknown" => ReceiverHandlesOffer(u)
         /\ u \notin overtaken => pc[u] \notin {"none", "start"}
         /\ \/ From("sender")' = From("sender") /\ ~ReceiverReads(u)
            \/ /\ ReceiverReads(u) /\ From("sender") # <<>>
               /\ Head(From("sender")).t = u
               /\ Head(From("sender")).kind = "Cancel" => ReceiverHandlesCancel(u)
               /\ From("sender")' = Tail(From("sender"))
<1>1. UNCHANGED <<connected, senderVars>>
  BY DEF ReceiverActs, ReceiverReads, accept, AcceptFails, reject, ReceiverCancels,
     ReceiverHandlesOffer, ReceiverHandlesCancel, ReceiverWritesChunk, ReceiverDropsChunk,
     ReceiverFinishes, ReceiverFinishFails
<1>2. outbound'["sender"] = outbound["sender"]
  <2>1. UNCHANGED outbound \/ \E m : send("receiver", m)
    BY DEF ReceiverActs, ReceiverReads, accept, AcceptFails, reject, ReceiverCancels,
       ReceiverHandlesOffer, ReceiverHandlesCancel, ReceiverWritesChunk, ReceiverDropsChunk,
       ReceiverFinishes, ReceiverFinishFails
  <2> QED
    BY <2>1 DEF send, TypeOK, Side
<1>3. EndOf(u) /\ From("sender") \in Seq(Message)
  BY FromType DEF Ends, Side
<1>4. CASE ReceiverReads(u)
  <2>1. PICK kind \in MessageKind :
          /\ Receive("receiver", kind, u)
          /\ kind = "Offer" => ReceiverHandlesOffer(u)
          /\ kind = "Cancel" => ReceiverHandlesCancel(u)
    BY <1>4 DEF ReceiverReads, ReceiverHandlesOffer, ReceiverHandlesCancel,
       ReceiverWritesChunk, ReceiverDropsChunk, ReceiverFinishes, ReceiverFinishFails,
       MessageKind
  <2>2. Other("receiver") = "sender" /\ "receiver" \in Side
    BY DEF Other, Side
  <2>3. /\ From("sender") # <<>> /\ Head(From("sender")) = Head(wire["sender"])
        /\ From("sender")' = Tail(From("sender")) /\ wire'["receiver"] = wire["receiver"]
    BY <1>2, <2>1, <2>2, ReceiveFrom
  <2>4. Head(From("sender")).t = u /\ Head(From("sender")).kind = kind
    BY <2>1, <2>2, <2>3, ReceiveType
  <2>5. ~NoneOf(From("sender"), u)
    BY <1>3, <2>3, <2>4, TailQueue
  <2>6. FirstIsOffer(From("sender"), u) => kind = "Offer"
    BY <1>3, <2>3, <2>4, TailQueue
  <2>7. u \notin overtaken => pc[u] \notin {"none", "start"}
    BY <1>3, <2>1, <2>5, <2>6 DEF EndOf
  <2>8. u \notin overtaken /\ rState[u] = "Unknown" => ReceiverHandlesOffer(u)
    BY <1>3, <2>1, <2>5, <2>6 DEF EndOf
  <2>9. \/ From("sender")' = From("sender") /\ ~ReceiverReads(u)
        \/ /\ ReceiverReads(u) /\ From("sender") # <<>>
           /\ Head(From("sender")).t = u
           /\ Head(From("sender")).kind = "Cancel" => ReceiverHandlesCancel(u)
           /\ From("sender")' = Tail(From("sender"))
    BY <1>4, <2>1, <2>3, <2>4
  <2> QED
    BY <1>1, <1>2, <2>3, <2>7, <2>8, <2>9
<1>5. CASE ~ReceiverReads(u)
  <2>1. UNCHANGED wire /\ rState[u] # "Unknown"
    BY <1>5 DEF ReceiverActs, accept, Acceptable, AcceptFails, reject, ReceiverCancels
  <2>2. From("sender")' = From("sender")
    BY <1>2, <2>1, SameFrom
  <2> QED
    BY <1>1, <1>2, <1>3, <1>5, <2>1, <2>2 DEF EndOf
<1> QED
  BY <1>4, <1>5

\* A job that is over stays so, and a receiver says it is only when it is.
LEMMA ReceiverHonest ==
  ASSUME TypeOK, Ends, NEW u \in Transfer, ReceiverActs(u)
  PROVE  /\ \A t \in Transfer : t # u => rState'[t] = rState[t]
         /\ u \notin overtaken => rState'[u] # "Unknown"
         /\ \A t \in Transfer : Over(t) => Over(t)'
         /\ u \notin overtaken /\ ReceiverHandlesCancel(u) => Over(u)'
         /\ \/ From("receiver")' = From("receiver")
            \/ \E m \in Message : /\ m.t = u /\ (m.kind \in Final => Over(u)')
                                  /\ From("receiver")' = Append(From("receiver"), m)
<1>1. u \notin overtaken /\ rState[u] = "Unknown" => ReceiverHandlesOffer(u)
  BY ReceiverKnows
<1>2. \A t \in Transfer : t # u => rState'[t] = rState[t]
  BY DEF ReceiverActs, ReceiverReads, accept, AcceptFails, reject, ReceiverCancels,
     ReceiverHandlesOffer, ReceiverHandlesCancel, ReceiverWritesChunk, ReceiverDropsChunk,
     ReceiverFinishes, ReceiverFinishFails, receiverVars, TypeOK
<1>3. ReceiverHandlesOffer(u) => rState'[u] \in {"Waiting", rState[u]} \ {"Unknown"}
  BY DEF ReceiverHandlesOffer, TypeOK
<1>4. accept(u) => rState[u] = "Waiting" /\ rState'[u] = "Transferring"
  BY DEF accept, Acceptable, TypeOK
<1>5. reject(u) => rState[u] = "Waiting" /\ rState'[u] = "Rejected"
  BY DEF reject, TypeOK
<1>6. ReceiverCancels(u) => rState'[u] = "Cancelled"
  BY DEF ReceiverCancels, TypeOK
<1>7. ReceiverHandlesCancel(u) => rState'[u] = IF rState[u] = "Unknown" THEN "Unknown" ELSE "Cancelled"
  BY DEF ReceiverHandlesCancel, TypeOK
<1>8. ReceiverFinishes(u) => rState'[u] = "Completed"
  BY DEF ReceiverFinishes, TypeOK
<1>9. (\/ AcceptFails(u) \/ ReceiverWritesChunk(u) \/ ReceiverDropsChunk(u)
       \/ ReceiverFinishFails(u)) => rState' = rState
  BY DEF AcceptFails, ReceiverWritesChunk, ReceiverDropsChunk, ReceiverFinishFails, receiverVars
<1>10. ReceiverHandlesOffer(u) => rState'[u] = IF rState[u] = "Unknown" THEN "Waiting" ELSE rState[u]
  BY DEF ReceiverHandlesOffer, TypeOK
<1>11. /\ u \notin overtaken => rState'[u] # "Unknown"
       /\ Over(u) => Over(u)'
       /\ u \notin overtaken /\ ReceiverHandlesCancel(u) => Over(u)'
  BY <1>1, <1>3, <1>4, <1>5, <1>6, <1>7, <1>8, <1>9, <1>10
     DEF ReceiverActs, ReceiverReads, Over
<1>12. \A t \in Transfer : Over(t) => Over(t)'
  BY <1>2, <1>11 DEF Over
<1>13. \/ UNCHANGED outbound
       \/ \E m \in Message : m.t = u /\ (m.kind \in Final => Over(u)') /\ send("receiver", m)
  <2>1. \A kind \in MessageKind : /\ Msg(kind, u) \in Message /\ Msg(kind, u).t = u
                                  /\ Msg(kind, u).kind = kind
    BY MsgType DEF Msg
  <2>2. CASE accept(u)
    <3>1. send("receiver", Msg("Accepted", u))
      BY <2>2 DEF accept
    <3> QED
      BY <2>1, <3>1 DEF MessageKind, Final
  <2>3. CASE reject(u)
    <3>1. send("receiver", Msg("Rejected", u)) /\ Over(u)'
      BY <1>5, <2>3 DEF reject, Over
    <3> QED
      BY <2>1, <3>1 DEF MessageKind
  <2>4. CASE ReceiverCancels(u)
    <3>1. send("receiver", Msg("Cancel", u)) /\ Over(u)'
      BY <1>6, <2>4 DEF ReceiverCancels, Over
    <3> QED
      BY <2>1, <3>1 DEF MessageKind
  <2>5. CASE ReceiverFinishes(u)
    <3>1. send("receiver", Msg("Finished", u)) /\ Over(u)'
      BY <1>8, <2>5 DEF ReceiverFinishes, Over
    <3> QED
      BY <2>1, <3>1 DEF MessageKind
  <2>6. CASE ReceiverWritesChunk(u)
    <3> DEFINE h == Head(wire["sender"])
               m == Ack(u, h.file, h.offset + 1)
    <3>1. h \in Message /\ send("receiver", m)
      BY <2>6, ReceiveType DEF ReceiverWritesChunk, Side, Other
    <3>2. m \in Message /\ m.t = u /\ m.kind = "Ack"
      <4>1. h.file \in Nat /\ h.offset + 1 \in Nat
        BY <3>1 DEF Message
      <4> QED
        BY <4>1, ChunkType DEF Ack
    <3> HIDE DEF m
    <3> QED
      BY <3>1, <3>2 DEF Final
  <2>7. CASE \/ AcceptFails(u) \/ ReceiverHandlesOffer(u) \/ ReceiverHandlesCancel(u)
             \/ ReceiverDropsChunk(u) \/ ReceiverFinishFails(u)
    BY <2>7 DEF AcceptFails, ReceiverHandlesOffer, ReceiverHandlesCancel, ReceiverDropsChunk,
                ReceiverFinishFails
  <2> QED
    BY <2>2, <2>3, <2>4, <2>5, <2>6, <2>7 DEF ReceiverActs, ReceiverReads
<1>14. wire'["receiver"] = wire["receiver"]
  BY ReceiverKnows
<1>15. CASE UNCHANGED outbound
  BY <1>2, <1>11, <1>12, <1>14, <1>15, SameFrom
<1>16. CASE \E m \in Message : m.t = u /\ (m.kind \in Final => Over(u)') /\ send("receiver", m)
  <2>1. PICK m \in Message : m.t = u /\ (m.kind \in Final => Over(u)') /\ send("receiver", m)
    BY <1>16
  <2>2. From("receiver")' = Append(From("receiver"), m)
    BY <1>14, <2>1, SendFrom DEF Side
  <2> QED
    BY <1>2, <1>11, <1>12, <2>1, <2>2
<1> QED
  BY <1>13, <1>15, <1>16

LEMMA ReceiverActsEnds ==
  ASSUME TypeOK, Ends, NEW u \in Transfer, ReceiverActs(u)
  PROVE  Ends'
<1> DEFINE Q == From("sender")
           R == From("sender")'
<1>1. /\ UNCHANGED <<connected, pc, sState, signals, overtaken>>
      /\ u \notin overtaken => pc[u] \notin {"none", "start"}
      /\ \/ R = Q
         \/ /\ Q # <<>> /\ Head(Q).t = u /\ R = Tail(Q)
            /\ Head(Q).kind = "Cancel" => ReceiverHandlesCancel(u)
  BY ReceiverKnows DEF senderVars
<1>2. /\ \A t \in Transfer : t # u => rState'[t] = rState[t]
      /\ u \notin overtaken => rState'[u] # "Unknown"
      /\ \A t \in Transfer : Over(t) => Over(t)'
      /\ u \notin overtaken /\ ReceiverHandlesCancel(u) => Over(u)'
  BY ReceiverHonest
<1>3. \A t : /\ Has(From("sender"), t, "Cancel")' = Has(R, t, "Cancel")
             /\ FirstIsOffer(From("sender"), t)' = FirstIsOffer(R, t)
             /\ NoneOf(From("sender"), t)' = NoneOf(R, t)
  BY DEF Has, FirstIsOffer, NoneOf
<1>4. Q \in Seq(Message)
  BY FromType DEF Side
<1> HIDE DEF Q, R
<1>5. \A t : /\ Has(Q, t, "Cancel") => \/ Has(R, t, "Cancel")
                                       \/ t = u /\ ReceiverHandlesCancel(u)
             /\ t # u /\ FirstIsOffer(Q, t) => FirstIsOffer(R, t)
             /\ NoneOf(Q, t) => NoneOf(R, t)
  <2>1. CASE R = Q
    BY <2>1
  <2>2. CASE /\ Q # <<>> /\ Head(Q).t = u /\ R = Tail(Q)
             /\ Head(Q).kind = "Cancel" => ReceiverHandlesCancel(u)
    BY <1>4, <2>2, TailQueue
  <2> QED
    BY <1>1, <2>1, <2>2
<1>6. \A t \in Transfer : t \notin overtaken => (Told(t) => Told(t)')
  BY <1>2, <1>3, <1>5 DEF Told, Q
<1>7. \A t \in Transfer : EndOf(t)
  BY DEF Ends
<1>8. \A t \in Transfer : EndOf(t)'
  <2> TAKE t \in Transfer
  <2>1. t \notin overtaken => signals[t] \in Seq(Heard(t)')
    BY <1>6, <1>7, HeardStays DEF EndOf
  <2>2. CASE t = u
    BY <1>1, <1>2, <1>6, <1>7, <2>1, <2>2 DEF EndOf
  <2>3. CASE t # u
    BY <1>1, <1>2, <1>3, <1>5, <1>6, <1>7, <2>1, <2>3 DEF EndOf, Q
  <2> QED
    BY <2>2, <2>3
<1>9. From("receiver")' \in Seq(Honest')
  <2>1. Honest \subseteq Honest'
    <3>1. \A m \in Message : m.t \in Transfer
      BY DEF Message
    <3> QED
      BY <1>2, <3>1 DEF Honest
  <2>2. From("receiver") \in Seq(Honest')
    BY <2>1, SeqMonotone DEF Ends
  <2>3. \/ From("receiver")' = From("receiver")
        \/ \E m \in Message : /\ m.t = u /\ (m.kind \in Final => Over(u)')
                              /\ From("receiver")' = Append(From("receiver"), m)
    BY ReceiverHonest
  <2>4. ASSUME NEW m \in Message, m.t = u, m.kind \in Final => Over(u)'
        PROVE  m \in Honest'
    BY <2>4 DEF Honest
  <2> QED
    BY <2>2, <2>3, <2>4, AppendIn
<1> QED
  BY <1>1, <1>8, <1>9 DEF Ends

LEMMA EndStep == TypeOK /\ EndInv /\ [Next]_vars => EndInv'
<1>1. SUFFICES ASSUME TypeOK, EndInv, [Next]_vars,
                      spent'["drop"] = 0, spent'["crash"] = 0
               PROVE  Ends'
  BY DEF EndInv
<1>2. /\ spent["drop"] = 0 /\ spent["crash"] = 0
      /\ ~Spend("drop") /\ ~Spend("crash")
  BY <1>1, NotSpent DEF EnvironmentKind
<1>3. Ends
  BY <1>1, <1>2 DEF EndInv
<1>4. ~Disconnect /\ ~SenderCrashes /\ ~ReceiverCrashes /\ ~Connect
  BY <1>2, <1>3 DEF Disconnect, SenderCrashes, ReceiverCrashes, Interrupted, Connect, Ends
<1>5. CASE \E u \in Transfer : SenderActs(u)
  BY <1>1, <1>3, <1>5, SenderActsEnds
<1>6. CASE \E u \in Transfer : SenderHandlesAnswer(u) \/ SenderHandlesCancel(u)
  BY <1>1, <1>3, <1>6, SenderHearsEnds
<1>7. CASE \E u \in Transfer : ReceiverActs(u)
  BY <1>1, <1>3, <1>7, ReceiverActsEnds
<1>8. CASE \E side \in Side : Route(side)
  <2>1. PICK side \in Side : Route(side)
    BY <1>8
  <2>2. connected
    BY <1>3 DEF Ends
  <2>3. \A s \in Side : From(s)' = From(s)
    BY <1>1, <2>1, <2>2, RouteFrom
  <2>4. UNCHANGED <<connected, senderVars, rState>>
    BY <2>1 DEF Route, receiverVars
  <2> QED
    BY <1>3, <2>3, <2>4, EndsUndisturbed
<1>9. CASE \/ \E f \in Name : FileCreated(f)
           \/ \E u \in Transfer : SourceResized(u)
           \/ UNCHANGED vars
  <2>1. UNCHANGED <<connected, outbound, wire, senderVars, rState>>
    BY <1>9 DEF FileCreated, SourceResized, vars, receiverVars
  <2>2. \A s \in Side : From(s)' = From(s)
    BY <2>1 DEF From
  <2> QED
    BY <1>3, <2>1, <2>2, EndsUndisturbed
<1> QED
  BY <1>1, <1>4, <1>5, <1>6, <1>7, <1>8, <1>9
     DEF Next, Handle, User, SenderActs, ReceiverActs, ReceiverReads

\* The inductive invariant of how a transfer ends while the daemons stay
\* connected: an Offer comes before all else, and a sender's task is done only
\* when its receiver's job is over or a Cancel is on its way there; unless it was
\* cancelled before its Offer was queued.
THEOREM EndSound == Spec => []EndInv
<1> QED
  BY InitEnds, EndStep, TypeCorrect, PTL DEF Spec

\* While the two daemons stay connected, a receiver is not left waiting for a
\* sender that is done, unless the transfer was cancelled before its Offer was
\* queued.
THEOREM ReceiverIsTold == Spec => []NobodyIsLeftWaiting
<1>1. EndInv => NobodyIsLeftWaiting
  <2>1. SUFFICES ASSUME EndInv, NEW t \in Transfer \ overtaken,
                        spent["drop"] = 0, spent["crash"] = 0, pc[t] = "done",
                        outbound["sender"] = <<>>, wire["sender"] = <<>>
                 PROVE  rState[t] \notin {"Waiting", "Transferring"}
    BY DEF NobodyIsLeftWaiting, LeftWaiting, Side
  <2>2. From("sender") = <<>>
    BY <2>1, EmptySeq, ConcatEmptySeq DEF From
  <2>3. ~Has(From("sender"), t, "Cancel")
    BY <2>2, EmptySeq DEF Has
  <2>4. Told(t)
    BY <2>1 DEF EndInv, Ends, EndOf
  <2> QED
    BY <2>3, <2>4 DEF Told, Over
<1> QED
  BY <1>1, EndSound, PTL
=============================================================================
