----------------------------- MODULE Transfer -----------------------------
(***************************************************************************)
(* Explicit file sharing (transfer/mod.rs): the managers of the daemon     *)
(* that sends and of the one that receives, the run_sender task of every   *)
(* transfer, and what lies between the two: the managers' outbound         *)
(* queues, which the main loops empty onto their buses, and the            *)
(* connection.                                                             *)
(*                                                                         *)
(* File contents are counted in chunks.  Timeouts may fire whenever the    *)
(* task waits with nothing to read: how long 30 or 300 seconds are is      *)
(* nothing the two sides agree on.                                         *)
(***************************************************************************)
EXTENDS Naturals, Sequences, FiniteSets

CONSTANTS
  Transfer,     \* the transfers' ids
  Name,         \* file names
  Manifest,     \* what each transfer offers: a sequence of [name, size]
  Nobody,       \* no file of that name in the destination folder
  Someone,      \* a file some other program put there
  Budgets       \* scenarios: how often the environment may do what, each

\* validate_manifest: at least one file, every name once.
ASSUME ManifestAssumption ==
  /\ Manifest \in [Transfer -> Seq([name : Name, size : Nat])]
  /\ \A t \in Transfer :
       /\ Manifest[t] # <<>>
       /\ \A i, j \in 1..Len(Manifest[t]) :
            Manifest[t][i].name = Manifest[t][j].name => i = j

\* A user cancels; a connection or a daemon is lost; a read, a write or a
\* rename fails; a .part file cannot be created; a file being sent changes size;
\* another program creates a file.
EnvironmentKind == {"cancel", "drop", "crash", "io", "part", "resize", "create"}

ASSUME BudgetsAssumption == Budgets \subseteq [EnvironmentKind -> Nat]

ASSUME OwnerAssumption == Nobody \notin Transfer /\ Someone \notin Transfer

Files(t) == 1..Len(Manifest[t])
Size(t, i) == Manifest[t][i].size

Total(t) ==
  LET upTo[i \in 0..Len(Manifest[t])] ==
        IF i = 0 THEN 0 ELSE upTo[i - 1] + Size(t, i)
  IN upTo[Len(Manifest[t])]

Side == {"sender", "receiver"}
Other(side) == IF side = "sender" THEN "receiver" ELSE "sender"

\* transfer/protocol.rs, TransferMessage.  "Accepted" and "Rejected" are
\* Response; file and offset mean something in Chunk and Ack only.
MessageKind == {"Offer", "Accepted", "Rejected", "Chunk", "Ack", "Complete",
                "Finished", "Cancel"}
Message == [kind : MessageKind, t : Transfer, file : Nat, offset : Nat]

Msg(kind, t) == [kind |-> kind, t |-> t, file |-> 0, offset |-> 0]
Chunk(t, i, offset) == [kind |-> "Chunk", t |-> t, file |-> i, offset |-> offset]
Ack(t, i, offset) == [kind |-> "Ack", t |-> t, file |-> i, offset |-> offset]

\* TransferState, and "Unknown" for an id the manager has no job of.
TransferState == {"Unknown", "Waiting", "Transferring", "Completed", "Rejected",
                  "Cancelled", "Failed"}

VARIABLES
  connected,   \* the peer loops of the two daemons run and have subscribed
  outbound,    \* per side: the manager's queue to its main loop
  wire,        \* per side: on its way from its bus to the other's manager
  sState,      \* sender's view: state
  progress,    \* sender's view: chunks acknowledged
  pc,          \* where run_sender is
  file,        \* the file it reads
  offset,      \* how far it has read it
  signals,     \* its queue of answers
  registered,  \* Inner.signals has an entry for it
  source,      \* size of each file to be sent, as it is now
  rState,      \* receiver's view: state
  bytes,       \* receiver's view: transferred_bytes
  offsets,     \* IncomingJob.offsets
  partDir,     \* IncomingJob.part_dir is set
  parts,       \* the .part directory exists
  dest,        \* destination folder: whose file each name is
  placed,      \* history: files renamed into place, with their bytes
  overtaken,   \* history: transfers cancelled before their Offer was queued
  unremoved,   \* history: transfers whose .part directory cleanup did not remove
  spent        \* how often the environment has done what

senderVars ==
  <<sState, progress, pc, file, offset, signals, registered, overtaken>>
receiverVars ==
  <<rState, bytes, offsets, partDir, parts, dest, placed, unremoved>>
vars == <<connected, outbound, wire, senderVars, source, receiverVars, spent>>

Place == {"none", "start", "offer", "read", "ack", "finish", "done"}

TypeOK ==
  /\ connected \in BOOLEAN
  /\ outbound \in [Side -> Seq(Message)]
  /\ wire \in [Side -> Seq(Message)]
  /\ sState \in [Transfer -> TransferState]
  /\ progress \in [Transfer -> Nat]
  /\ pc \in [Transfer -> Place]
  /\ file \in [Transfer -> Nat]
  /\ offset \in [Transfer -> Nat]
  /\ signals \in [Transfer -> Seq(Message)]
  /\ registered \in [Transfer -> BOOLEAN]
  /\ source \in [Transfer -> Seq(Nat)]
  /\ \A t \in Transfer : Len(source[t]) = Len(Manifest[t])
  /\ \A t \in Transfer : file[t] \in Files(t)
  /\ rState \in [Transfer -> TransferState]
  /\ bytes \in [Transfer -> Nat]
  /\ offsets \in [Transfer -> Seq(Nat)]
  /\ \A t \in Transfer : Len(offsets[t]) = Len(Manifest[t])
  /\ partDir \in [Transfer -> BOOLEAN]
  /\ parts \in [Transfer -> BOOLEAN]
  /\ dest \in [Name -> Transfer \cup {Nobody, Someone}]
  /\ placed \in SUBSET [t : Transfer, file : Nat, bytes : Nat]
  /\ overtaken \in SUBSET Transfer
  /\ unremoved \in SUBSET Transfer
  /\ spent \in [EnvironmentKind -> Nat]

NoBytes(t) == [i \in Files(t) |-> 0]

Init ==
  /\ connected = TRUE
  /\ outbound = [s \in Side |-> <<>>]
  /\ wire = [s \in Side |-> <<>>]
  /\ sState = [t \in Transfer |-> "Unknown"]
  /\ progress = [t \in Transfer |-> 0]
  /\ pc = [t \in Transfer |-> "none"]
  /\ file = [t \in Transfer |-> 1]
  /\ offset = [t \in Transfer |-> 0]
  /\ signals = [t \in Transfer |-> <<>>]
  /\ registered = [t \in Transfer |-> FALSE]
  /\ source = [t \in Transfer |-> [i \in Files(t) |-> Size(t, i)]]
  /\ rState = [t \in Transfer |-> "Unknown"]
  /\ bytes = [t \in Transfer |-> 0]
  /\ offsets = [t \in Transfer |-> NoBytes(t)]
  /\ partDir = [t \in Transfer |-> FALSE]
  /\ parts = [t \in Transfer |-> FALSE]
  /\ dest = [f \in Name |-> Nobody]
  /\ placed = {}
  /\ overtaken = {}
  /\ unremoved = {}
  /\ spent = [kind \in EnvironmentKind |-> 0]

\* An action of the environment, which some scenario allows.
Spend(kind) ==
  /\ spent' = [spent EXCEPT ![kind] = @ + 1]
  /\ \E b \in Budgets : \A k \in EnvironmentKind : spent'[k] <= b[k]

----------------------------------------------------------------------------
(* Messages *)

\* Manager::send.
send(side, m) == outbound' = [outbound EXCEPT ![side] = Append(@, m)]

\* The main loop puts a message on the bus, where the peer loop finds it, if
\* there is one.
Route(side) ==
  /\ outbound[side] # <<>>
  /\ outbound' = [outbound EXCEPT ![side] = Tail(@)]
  /\ wire' = IF connected
               THEN [wire EXCEPT ![side] = Append(@, Head(outbound[side]))]
               ELSE wire
  /\ UNCHANGED <<connected, senderVars, source, receiverVars, spent>>

\* `side` takes the next message from the other.
Receive(side, kind, t) ==
  LET from == Other(side)
  IN /\ wire[from] # <<>>
     /\ Head(wire[from]).kind = kind /\ Head(wire[from]).t = t
     /\ wire' = [wire EXCEPT ![from] = Tail(@)]

\* The connection ends: each direction delivers a prefix of what is on it.
Disconnect ==
  /\ connected /\ Spend("drop")
  /\ connected' = FALSE
  /\ \E i \in 0..Len(wire["sender"]), j \in 0..Len(wire["receiver"]) :
       wire' = [wire EXCEPT !["sender"] = SubSeq(@, 1, i),
                            !["receiver"] = SubSeq(@, 1, j)]
  /\ UNCHANGED <<outbound, senderVars, source, receiverVars>>

Connect ==
  /\ ~connected
  /\ connected' = TRUE
  /\ UNCHANGED <<outbound, wire, senderVars, source, receiverVars, spent>>

----------------------------------------------------------------------------
(* The sending side *)

\* handle_ipc, TransferStart, and Manager::start: only to a connected peer.  The
\* job is there, for other requests to cancel, when the lock is released, ...
start(t) ==
  /\ pc[t] = "none" /\ connected
  /\ sState' = [sState EXCEPT ![t] = "Waiting"]
  /\ registered' = [registered EXCEPT ![t] = TRUE]
  /\ pc' = [pc EXCEPT ![t] = "start"]
  /\ UNCHANGED <<connected, outbound, wire, progress, file, offset, signals,
                 overtaken, source, receiverVars, spent>>

\* ... and only then is the Offer queued, and run_sender spawned.
startOffers(t) ==
  /\ pc[t] = "start"
  /\ pc' = [pc EXCEPT ![t] = "offer"]
  /\ send("sender", Msg("Offer", t))
  /\ UNCHANGED <<connected, wire, sState, progress, file, offset, signals,
                 registered, overtaken, source, receiverVars, spent>>

\* The outcomes that `cancel` and `fail` leave alone.
Settled == {"Completed", "Rejected", "Cancelled"}

\* Mutant: the peer is not told.
failQuietly(t) ==
  /\ sState' = [sState EXCEPT ![t] = IF @ \in Settled THEN @ ELSE "Failed"]
  /\ registered' = [registered EXCEPT ![t] = FALSE]
  /\ pc' = [pc EXCEPT ![t] = "done"]
  /\ UNCHANGED outbound

\* run_sender returns an error: Manager::fail.
fail(t) ==
  /\ IF sState[t] \in Settled THEN UNCHANGED <<sState, outbound>>
     ELSE /\ sState' = [sState EXCEPT ![t] = "Failed"]
          /\ send("sender", Msg("Cancel", t))
  /\ registered' = [registered EXCEPT ![t] = FALSE]
  /\ pc' = [pc EXCEPT ![t] = "done"]

\* run_sender waits for a signal and gets one.
Signalled(t) ==
  /\ pc[t] \in {"offer", "ack", "finish"}
  /\ signals[t] # <<>>
  /\ signals' = [signals EXCEPT ![t] = Tail(@)]
  /\ UNCHANGED <<connected, wire, overtaken, source, receiverVars, spent>>

Expected(t) ==
  LET m == Head(signals[t])
  IN \/ pc[t] = "offer" /\ m.kind \in {"Accepted", "Rejected"}
     \/ pc[t] = "ack" /\ m = Ack(t, file[t], offset[t] + 1)
     \/ pc[t] = "finish" /\ m.kind = "Finished"

SenderAccepted(t) ==
  /\ Signalled(t) /\ pc[t] = "offer" /\ Head(signals[t]).kind = "Accepted"
  /\ sState' = [sState EXCEPT ![t] = "Transferring"]
  /\ pc' = [pc EXCEPT ![t] = "read"]
  /\ UNCHANGED <<outbound, progress, file, offset, registered>>

SenderRejected(t) ==
  /\ Signalled(t) /\ pc[t] = "offer" /\ Head(signals[t]).kind = "Rejected"
  /\ sState' = [sState EXCEPT ![t] = "Rejected"]
  /\ pc' = [pc EXCEPT ![t] = "done"]
  /\ registered' = [registered EXCEPT ![t] = FALSE]
  /\ UNCHANGED <<outbound, progress, file, offset>>

SenderAcked(t) ==
  /\ Signalled(t) /\ pc[t] = "ack" /\ Expected(t)
  /\ offset' = [offset EXCEPT ![t] = @ + 1]
  /\ progress' = [progress EXCEPT ![t] = @ + 1]
  /\ pc' = [pc EXCEPT ![t] = "read"]
  /\ UNCHANGED <<outbound, sState, file, registered>>

SenderFinished(t) ==
  /\ Signalled(t) /\ pc[t] = "finish" /\ Head(signals[t]).kind = "Finished"
  /\ sState' = [sState EXCEPT ![t] = "Completed"]
  /\ pc' = [pc EXCEPT ![t] = "done"]
  /\ registered' = [registered EXCEPT ![t] = FALSE]
  /\ UNCHANGED <<outbound, progress, file, offset>>

\* A Cancel, or anything else out of turn, ends the task with an error.
SenderStopped(t) ==
  /\ Signalled(t) /\ ~Expected(t)
  /\ fail(t)
  /\ UNCHANGED <<progress, file, offset>>

\* Mutant: no timeout on acknowledgements.
SenderTimeoutButForAcks(t) ==
  /\ pc[t] \in {"offer", "finish"} /\ signals[t] = <<>>
  /\ fail(t)
  /\ UNCHANGED <<connected, wire, progress, file, offset, signals, overtaken,
                 source, receiverVars, spent>>

SenderTimeout(t) ==
  /\ pc[t] \in {"offer", "ack", "finish"} /\ signals[t] = <<>>
  /\ fail(t)
  /\ UNCHANGED <<connected, wire, progress, file, offset, signals, overtaken,
                 source, receiverVars, spent>>

\* Mutant: chunks are sent without waiting for the last one's acknowledgement.
SenderStreams(t) ==
  /\ pc[t] = "read" /\ offset[t] < source[t][file[t]]
  /\ offset' = [offset EXCEPT ![t] = @ + 1]
  /\ send("sender", Chunk(t, file[t], offset[t]))
  /\ UNCHANGED <<connected, wire, sState, progress, pc, file, signals,
                 registered, overtaken, source, receiverVars, spent>>

\* The next chunk of the file, which may have changed since it was offered.
SenderReads(t) ==
  /\ pc[t] = "read" /\ offset[t] < source[t][file[t]]
  /\ pc' = [pc EXCEPT ![t] = "ack"]
  /\ send("sender", Chunk(t, file[t], offset[t]))
  /\ UNCHANGED <<connected, wire, sState, progress, file, offset, signals,
                 registered, overtaken, source, receiverVars, spent>>

LastFile(t) == file[t] = Len(Manifest[t])

EndOfFile(t) == pc[t] = "read" /\ offset[t] >= source[t][file[t]]

SenderNextFile(t) ==
  /\ EndOfFile(t) /\ ~LastFile(t)
  /\ file' = [file EXCEPT ![t] = @ + 1]
  /\ offset' = [offset EXCEPT ![t] = 0]
  /\ UNCHANGED <<connected, outbound, wire, sState, progress, pc, signals,
                 registered, overtaken, source, receiverVars, spent>>

SenderCompletes(t) ==
  /\ EndOfFile(t) /\ LastFile(t)
  /\ pc' = [pc EXCEPT ![t] = "finish"]
  /\ send("sender", Msg("Complete", t))
  /\ UNCHANGED <<connected, wire, sState, progress, file, offset, signals,
                 registered, overtaken, source, receiverVars, spent>>

\* A file cannot be opened or read.
SenderReadFails(t) ==
  /\ pc[t] = "read" /\ Spend("io")
  /\ fail(t)
  /\ UNCHANGED <<connected, wire, progress, file, offset, signals, overtaken,
                 source, receiverVars>>

SourceResized(t) ==
  /\ pc[t] # "done" /\ Spend("resize")
  /\ \E i \in Files(t) : \E size \in 0..(Size(t, i) + 1) :
       source' = [source EXCEPT ![t][i] = size]
  /\ UNCHANGED <<connected, outbound, wire, senderVars, receiverVars>>

\* Manager::route_signal, which finds nobody once the task has ended.
route_signal(t, m) ==
  signals' = [signals EXCEPT ![t] = IF registered[t] THEN Append(@, m) ELSE @]

\* Manager::handle: answers go to run_sender.
SenderHandlesAnswer(t) ==
  /\ \E kind \in {"Accepted", "Rejected", "Ack", "Finished"} :
       Receive("sender", kind, t)
  /\ route_signal(t, Head(wire["receiver"]))
  /\ UNCHANGED <<connected, outbound, sState, progress, pc, file, offset,
                 registered, overtaken, source, receiverVars, spent>>

\* Manager::handle, Cancel: whatever the state is.
SenderHandlesCancel(t) ==
  /\ Receive("sender", "Cancel", t)
  /\ sState' = [sState EXCEPT ![t] = IF @ = "Unknown" THEN @ ELSE "Cancelled"]
  /\ route_signal(t, Head(wire["receiver"]))
  /\ UNCHANGED <<connected, outbound, progress, pc, file, offset, registered,
                 overtaken, source, receiverVars, spent>>

\* Manager::cancel.
SenderCancels(t) ==
  /\ sState[t] \notin Settled \cup {"Unknown"} /\ Spend("cancel")
  /\ sState' = [sState EXCEPT ![t] = "Cancelled"]
  /\ route_signal(t, Msg("Cancel", t))
  /\ send("sender", Msg("Cancel", t))
  /\ overtaken' = IF pc[t] = "start" THEN overtaken \cup {t} ELSE overtaken
  /\ UNCHANGED <<connected, wire, progress, pc, file, offset, registered,
                 source, receiverVars>>

----------------------------------------------------------------------------
(* The receiving side *)

ReceiverHandlesOffer(t) ==
  /\ Receive("receiver", "Offer", t)
  /\ IF rState[t] = "Unknown"
       THEN /\ rState' = [rState EXCEPT ![t] = "Waiting"]
            /\ bytes' = [bytes EXCEPT ![t] = 0]
            /\ offsets' = [offsets EXCEPT ![t] = NoBytes(t)]
       ELSE UNCHANGED <<rState, bytes, offsets>>
  /\ UNCHANGED <<connected, outbound, senderVars, source, partDir, parts,
                 dest, placed, unremoved, spent>>

\* Manager::accept up to create_dir, which fails if the directory is there.
Acceptable(t) ==
  /\ rState[t] = "Waiting"
  /\ \A i \in Files(t) : dest[Manifest[t][i].name] = Nobody
  /\ ~parts[t]

accept(t) ==
  /\ Acceptable(t)
  /\ parts' = [parts EXCEPT ![t] = TRUE]
  /\ partDir' = [partDir EXCEPT ![t] = TRUE]
  /\ rState' = [rState EXCEPT ![t] = "Transferring"]
  /\ send("receiver", Msg("Accepted", t))
  /\ UNCHANGED <<connected, wire, senderVars, source, bytes, offsets, dest,
                 placed, unremoved, spent>>

\* A .part file cannot be created: the error leaves the directory behind.
AcceptFails(t) ==
  /\ Acceptable(t) /\ Spend("part")
  /\ parts' = [parts EXCEPT ![t] = TRUE]
  /\ UNCHANGED <<connected, outbound, wire, senderVars, source, rState,
                 bytes, offsets, partDir, dest, placed, unremoved>>

reject(t) ==
  /\ rState[t] = "Waiting"
  /\ rState' = [rState EXCEPT ![t] = "Rejected"]
  /\ send("receiver", Msg("Rejected", t))
  /\ UNCHANGED <<connected, wire, senderVars, source, bytes, offsets,
                 partDir, parts, dest, placed, unremoved, spent>>

\* Mutant: the directory's path is forgotten before it is used.
cleanupForgets(t) ==
  /\ partDir' = [partDir EXCEPT ![t] = FALSE]
  /\ UNCHANGED <<parts, unremoved>>

\* The job's .part directory is removed, if it knows of one; a removal that
\* fails goes unnoticed and is not tried again.
cleanup(t) ==
  /\ partDir' = [partDir EXCEPT ![t] = FALSE]
  /\ \/ /\ parts' = [parts EXCEPT ![t] = @ /\ ~partDir[t]]
        /\ UNCHANGED unremoved
     \/ /\ partDir[t]
        /\ unremoved' = unremoved \cup {t}
        /\ UNCHANGED parts

ReceiverCancels(t) ==
  /\ rState[t] \notin Settled \cup {"Unknown"} /\ Spend("cancel")
  /\ rState' = [rState EXCEPT ![t] = "Cancelled"]
  /\ cleanup(t)
  /\ send("receiver", Msg("Cancel", t))
  /\ UNCHANGED <<connected, wire, senderVars, source, bytes, offsets, dest,
                 placed>>

ReceiverHandlesCancel(t) ==
  /\ Receive("receiver", "Cancel", t)
  /\ IF rState[t] = "Unknown" THEN UNCHANGED <<rState, partDir, parts,
                                               unremoved>>
     ELSE /\ rState' = [rState EXCEPT ![t] = "Cancelled"]
          /\ cleanup(t)
  /\ UNCHANGED <<connected, outbound, senderVars, source, bytes, offsets,
                 dest, placed, spent>>

ChunkFits(t, m) ==
  /\ rState[t] = "Transferring"
  /\ m.file \in Files(t)
  /\ offsets[t][m.file] = m.offset
  /\ m.offset + 1 <= Size(t, m.file)
  /\ partDir[t]

ReceiverWritesChunk(t) ==
  /\ Receive("receiver", "Chunk", t)
  /\ LET m == Head(wire["sender"])
     IN /\ ChunkFits(t, m)
        /\ offsets' = [offsets EXCEPT ![t][m.file] = m.offset + 1]
        /\ bytes' = [bytes EXCEPT ![t] = @ + 1]
        /\ send("receiver", Ack(t, m.file, m.offset + 1))
  /\ UNCHANGED <<connected, senderVars, source, rState, partDir, parts, dest,
                 placed, unremoved, spent>>

\* The chunk is out of turn, or writing it fails: an error that only the log
\* sees.
ReceiverDropsChunk(t) ==
  /\ Receive("receiver", "Chunk", t)
  /\ IF ChunkFits(t, Head(wire["sender"])) THEN Spend("io") ELSE UNCHANGED spent
  /\ UNCHANGED <<connected, outbound, senderVars, source, receiverVars>>

\* Mutant: the sender's word is taken for it.
WholeUnchecked(t) == rState[t] # "Unknown" /\ partDir[t]

\* Manager::handle, Complete, and the checks of finish_incoming.
Whole(t) ==
  /\ rState[t] # "Unknown"
  /\ bytes[t] = Total(t)
  /\ \A i \in Files(t) : offsets[t][i] = Size(t, i)
  /\ partDir[t]

\* Mutant: the last one is forgotten.
RenamedButLast(t, k) ==
  /\ dest' = [f \in Name |->
       IF \E i \in 1..(k - 1) : Manifest[t][i].name = f THEN t ELSE dest[f]]
  /\ placed' = placed \cup
       {[t |-> t, file |-> i, bytes |-> offsets[t][i]] : i \in 1..(k - 1)}

\* The first k files of t are renamed into the destination.
Renamed(t, k) ==
  /\ dest' = [f \in Name |->
       IF \E i \in 1..k : Manifest[t][i].name = f THEN t ELSE dest[f]]
  /\ placed' = placed \cup
       {[t |-> t, file |-> i, bytes |-> offsets[t][i]] : i \in 1..k}

ReceiverFinishes(t) ==
  /\ Receive("receiver", "Complete", t)
  /\ Whole(t)
  /\ Renamed(t, Len(Manifest[t]))
  /\ parts' = [parts EXCEPT ![t] = FALSE]
  /\ partDir' = [partDir EXCEPT ![t] = FALSE]
  /\ rState' = [rState EXCEPT ![t] = "Completed"]
  /\ send("receiver", Msg("Finished", t))
  /\ UNCHANGED <<connected, senderVars, source, bytes, offsets, unremoved,
                 spent>>

\* A rename fails after k others, or removing the directory fails after all of
\* them: the job stays as it was.
ReceiverFinishFails(t) ==
  /\ Receive("receiver", "Complete", t)
  /\ IF Whole(t)
       THEN /\ Spend("io")
            /\ \E k \in 0..Len(Manifest[t]) : Renamed(t, k)
       ELSE UNCHANGED <<spent, dest, placed>>
  /\ UNCHANGED <<connected, outbound, senderVars, source, rState, bytes,
                 offsets, partDir, parts, unremoved>>

\* Another program creates a file in the destination folder.
FileCreated(f) ==
  /\ dest[f] = Nobody /\ Spend("create")
  /\ dest' = [dest EXCEPT ![f] = Someone]
  /\ UNCHANGED <<connected, outbound, wire, senderVars, source, rState,
                 bytes, offsets, partDir, parts, placed, unremoved>>

----------------------------------------------------------------------------
(* A daemon crashes and is started again: it has no job left *)

Interrupted(side) ==
  /\ Spend("crash")
  /\ connected' = FALSE
  /\ outbound' = [outbound EXCEPT ![side] = <<>>]
  /\ \E i \in 0..Len(wire[side]) :
       wire' = [wire EXCEPT ![side] = SubSeq(@, 1, i), ![Other(side)] = <<>>]

SenderCrashes ==
  /\ Interrupted("sender")
  /\ sState' = [t \in Transfer |-> "Unknown"]
  /\ pc' = [t \in Transfer |-> IF pc[t] = "none" THEN "none" ELSE "done"]
  /\ signals' = [t \in Transfer |-> <<>>]
  /\ registered' = [t \in Transfer |-> FALSE]
  /\ UNCHANGED <<progress, file, offset, overtaken, source, receiverVars>>

ReceiverCrashes ==
  /\ Interrupted("receiver")
  /\ rState' = [t \in Transfer |-> "Unknown"]
  /\ bytes' = [t \in Transfer |-> 0]
  /\ offsets' = [t \in Transfer |-> NoBytes(t)]
  /\ partDir' = [t \in Transfer |-> FALSE]
  /\ UNCHANGED <<senderVars, source, parts, dest, placed, unremoved>>

----------------------------------------------------------------------------
(* The specification *)

\* What a started transfer's tasks do of themselves.
RunSender(t) ==
  \/ startOffers(t)
  \/ SenderAccepted(t) \/ SenderRejected(t) \/ SenderAcked(t)
  \/ SenderFinished(t) \/ SenderStopped(t) \/ SenderTimeout(t)
  \/ SenderReads(t) \/ SenderNextFile(t) \/ SenderCompletes(t)

\* What the main loops do with what arrives.
Handle(t) ==
  \/ SenderHandlesAnswer(t) \/ SenderHandlesCancel(t)
  \/ ReceiverHandlesOffer(t) \/ ReceiverHandlesCancel(t)
  \/ ReceiverWritesChunk(t) \/ ReceiverDropsChunk(t)
  \/ ReceiverFinishes(t) \/ ReceiverFinishFails(t)

User(t) ==
  \/ start(t) \/ accept(t) \/ reject(t)
  \/ SenderCancels(t) \/ ReceiverCancels(t)

Next ==
  \/ \E t \in Transfer :
       \/ RunSender(t) \/ Handle(t) \/ User(t)
       \/ SenderReadFails(t) \/ SourceResized(t) \/ AcceptFails(t)
  \/ \E side \in Side : Route(side)
  \/ \E f \in Name : FileCreated(f)
  \/ Connect \/ Disconnect
  \/ SenderCrashes \/ ReceiverCrashes

Spec == Init /\ [][Next]_vars

\* tokio runs tasks that can run and fires timeouts that are due, and the
\* daemons reconnect.  Users owe nobody an answer.
Fairness ==
  /\ \A t \in Transfer : WF_vars(RunSender(t)) /\ WF_vars(Handle(t))
  /\ \A side \in Side : WF_vars(Route(side))
  /\ WF_vars(Connect)

FairSpec == Spec /\ Fairness

----------------------------------------------------------------------------
(* Safety *)

\* What lies between the two sides, the signals included.
InFlight(t, kind) ==
  LET count(q) == Cardinality({i \in DOMAIN q : q[i].kind = kind /\ q[i].t = t})
  IN count(outbound["sender"]) + count(wire["sender"])
       + count(outbound["receiver"]) + count(wire["receiver"]) + count(signals[t])

\* The sender never reports a transfer completed unless every file of it has
\* been renamed into place, whichever messages, connections and daemons were
\* lost, and nothing but whole files is put in place.
CompletedIsPlaced ==
  \A t \in Transfer : sState[t] = "Completed" =>
    \A i \in Files(t) : [t |-> t, file |-> i, bytes |-> Size(t, i)] \in placed

PlacedIsWhole == \A p \in placed : p.bytes = Size(p.t, p.file)

\* Every chunk is acknowledged before the next is sent (README.md: "Every
\* chunk requires an authenticated acknowledgement before the next chunk is
\* sent"), and the sender's progress is what the receiver has written, or one
\* chunk behind.
StopAndWait ==
  \A t \in Transfer :
    /\ InFlight(t, "Chunk") + InFlight(t, "Ack") <= 1
    /\ rState[t] # "Unknown" =>
         progress[t] <= bytes[t] /\ bytes[t] <= progress[t] + 1

\* A job that is over has no .part directory left, as long as the .part files
\* could be created when it was accepted, the directory could be removed when it
\* was cancelled, and no daemon crashed.
PartsAreCleanedUp ==
  spent["part"] = 0 /\ spent["crash"] = 0 =>
    \A t \in Transfer \ unremoved :
      parts[t] => rState[t] = "Transferring" /\ partDir[t]

\* The same when the directory cannot be removed.
PartsAreRemoved ==
  spent["part"] = 0 /\ spent["crash"] = 0 =>
    \A t \in Transfer : parts[t] => rState[t] = "Transferring" /\ partDir[t]

\* Nothing is on its way any more of transfer t, whose sender is done, and yet
\* its receiver waits.
LeftWaiting(t) ==
  /\ pc[t] = "done"
  /\ \A side \in Side : outbound[side] = <<>> /\ wire[side] = <<>>
  /\ rState[t] \in {"Waiting", "Transferring"}

\* While the two daemons stay connected, a receiver is not left waiting for a
\* sender that is done, whatever reads, writes, renames and users did, unless the
\* transfer was cancelled before its Offer was queued.
NobodyIsLeftWaiting ==
  spent["drop"] = 0 /\ spent["crash"] = 0 =>
    \A t \in Transfer \ overtaken : ~LeftWaiting(t)

\* The same whenever it was cancelled.
NobodyEverIsLeftWaiting ==
  spent["drop"] = 0 /\ spent["crash"] = 0 => \A t \in Transfer : ~LeftWaiting(t)

\* README.md: "Existing destination files are never overwritten."
NeverOverwritten ==
  [][\A f \in Name : dest[f] # Nobody => dest'[f] = dest[f]]_vars

\* A cancelled transfer stays cancelled on the side that cancelled it (daemon.rs
\* answers "Transfer cancelled.").
CancelledIsFinal ==
  [][\A t \in Transfer : sState[t] = "Cancelled" => sState'[t] # "Completed"]_vars

\* Only a transfer in progress can be cancelled (README.md: "Either side can
\* cancel in-progress transfers"): one the receiver has completed stays so.
CompletedIsFinal ==
  [][\A t \in Transfer : rState[t] = "Completed" =>
       rState'[t] \in {"Completed", "Unknown"}]_vars

----------------------------------------------------------------------------
(* Liveness *)

\* A sender's task comes to an end, whatever is lost.
SenderEnds == \A t \in Transfer : (pc[t] = "start") ~> (pc[t] = "done")

\* A receiver's transfer does (README.md: "Both sides show byte progress,
\* transfer speed, errors, and cancellation").
ReceiverEnds ==
  \A t \in Transfer :
    (rState[t] = "Transferring") ~> (rState[t] # "Transferring")
=============================================================================
