# lan-cat: verification project

TLA+ models of the lan-cat daemon, the TLC runs that check them on small instances, and theorems
that TLAPS checks for every value of the constants. Everything is translated from the Rust source
under `src/` of the repository; `PROJECT.json` gives, for every definition that models code, the
file and lines it stands for.

lan-cat keeps the clipboards of paired devices on a LAN in agreement, sends files between them on
request, and lends one device's pointer and keyboard to another. There is no server: every device
runs the same daemon, and every pair of trusted devices has one encrypted TCP connection (clipboard
and files) and exchanges encrypted UDP datagrams (input).

## 1. Inventory

| Part | Source | State | Operations | Modelled in |
|---|---|---|---|---|
| Version vectors | `ordering.rs` | a clock per device | increment, merge, relation | `VersionVector` |
| Main loop | `daemon.rs` `run` | current and latest event, ids seen, the clock | local change, incoming event, control, routing of transfers, start-up publication | `ClipboardSync`, `Transfer` |
| Peer loops and bus | `daemon.rs` `peer_loop`, `BusEvent` | stage of the connection, bus position | Hello, latest, subscribe, forward, end | `ClipboardSync`, `Connection` |
| Secure connection | `network.rs` | TCP stream, records being read and written | send, receive, handshake | `Connection`, `Dialling` |
| IPC handlers | `daemon.rs` `handle_ipc` | none of their own | pause, resume, sync files, unpair, transfer requests | `ClipboardSync`, `Transfer`, `Dialling` |
| Configuration | `config.rs`, `main.rs` | `config.json`, and each process's copy of it | load, save, `lan-cat name`, `lan-cat pair` | `ClipboardSync`, `ConfigRename`, `Pairing` |
| Pasteboard thread | `clipboard/macos.rs` | change count, command queue | poll, set, rebaseline | `ClipboardSync` |
| Wayland clipboard | `clipboard/wayland.rs` | baseline, what was injected, the watching child | look, set, mark, rebaseline | `WaylandClipboard` |
| Transfers | `transfer/` | jobs, `.part` directories, sender tasks | start, accept, reject, cancel, chunk, ack, complete | `Transfer` |
| Discovery, dialling | `daemon.rs`, `network.rs` | `active`, `dialing`, supervisors, back-off | resolve, dial, accept, reconnect | `Dialling` |
| Pairing | `network.rs` | a window, a handshake, two answers | open, dial, accept, confirm, save, give up | `Pairing` |
| Input transport | `input/transport.rs` | sessions, counters, replay window, pending messages | hello, data, tick | `InputTransport` |
| Cursor session | `input/mod.rs` | outgoing, incoming, preview, takeover, portal edges | begin, probe, enter, ack, leave, tick | `CursorSession` |
| Input capture | `input/platform/wayland.rs`, `macos.rs` | surfaces, pointer lock, keyboard grab, two atomics, a queue | enter, lock, capture, release | `WaylandCapture`; the macOS tap in `CursorSession` |
| Preview | `input/beacon.rs` | a picture | | |
| GUI, CLI, IPC framing, installers | `gui.rs`, `main.rs`, `ipc.rs`, `service.rs`, `integration.rs` | none that outlives a request | | their requests are the users' actions of the models |

How they interact. The pasteboard thread and the main loop talk over two queues (changes one way,
commands the other); IPC handlers change the shared `Config` under a lock and send control messages
to the main loop over a third; the main loop sends events to a broadcast bus to which every peer
loop subscribes; peer loops put what they receive into one incoming queue of the main loop; a
transfer manager's outbound queue is emptied by the main loop onto the same bus, and its
`run_sender` tasks get their answers over a queue each. `network_manager` starts a supervisor for
every peer it is to dial and a task for every connection it accepts; both run peer loops. The cursor
service is a thread of the daemon with a runtime of its own: a capture thread puts what it captures
into a queue and shares atomics with the service's loop, which sends messages to peers through the
transport. `config.json` is all that survives a crash, and the one thing the processes of a device
share.

What is hard. Nothing of this is ordered by a common lock: `paused` and the trusted peers are read
by one task and written by another; `current` changes in one task and the clipboard in another; a
new peer loop reads `latest` and subscribes in two steps; events reach a device over several paths;
a `select!` drops a half-finished read; a user's cancel crosses the other side's last answer; a
connection takes with it what is on its way; two devices enter each other at once; a capture is
released by a loop that is behind on the queue of captures. `PROJECT.json` lists each of these under
"hazards", at the line where it bites, with the properties that would catch it.

What makes each part correct:

* **clocks**: no device ever gives two events one number, over crashes; an event a device publishes
  replaces what that device held, everywhere;
* **synchronisation**: devices that are connected and have nothing left to exchange hold the same
  event and show it; forwarding ends; what a peer put on the clipboard is not published again; a
  paused daemon keeps nothing for its peers; an unpaired peer is sent nothing new;
* **clipboard threads**: what the daemon wrote is not taken for a user's copy, and a user's copy is
  not taken for the daemon's;
* **connection**: each direction delivers what was sent, in order and without holes, until it ends,
  and it does not wait for ever;
* **dialling**: two daemons that trust each other have one loop each for the other, and again after
  whatever ended it;
* **pairing**: who is trusted was confirmed by both users, and trust is mutual;
* **transfers**: what is put in place is whole; "completed" means in place; nothing is left behind
  or left waiting; nothing is overwritten; every task ends;
* **input transport**: a message is handed over at most once and not refused for having been
  overtaken; a device that knows where its peer is gets a session with it;
* **cursor sessions**: a device never lends and borrows at once; a user whose pointer is captured
  has it somewhere, or has it back; whatever ends a session lets go of keys, capture and edges;
* **capture**: one edge owns the pointer and the keyboard; a lock nobody uses ends.

## 2. Modules

| Module | What it is | Instances | Proofs |
|---|---|---|---|
| `VersionVector` | `increment`, `merge`, `relation`, and `Beats`, the order the main loop builds on them | | `ClipboardSyncProofs` |
| `ClipboardSync` | all daemons, their pasteboard threads, peer loops, IPC handlers and files; extends `VersionVector` | `MCClipboardSync` | `ClipboardSyncProofs` |
| `ConfigRename` | `ClipboardSync` beside `lan-cat name`, another process that loads, changes and saves the same file | `MCConfigRename` | |
| `LossyFifo` | the abstract specification of one direction of a connection: what is sent arrives in order, until it ends | | |
| `Connection` | one connection, a peer loop at each end, down to the pieces of records `receive` and `send` can be interrupted between; implements `LossyFifo` twice | `MCConnection` | `ConnectionProofs` |
| `Transfer` | file transfers between two daemons, both sides | `MCTransfer` | `TransferProofs` |
| `Dialling` | supervisors, listeners and the two ends of each connection | `MCDialling` | `DiallingProofs` |
| `Pairing` | pairing windows, beside daemons | `MCPairing` | `PairingProofs` |
| `InputTransport` | the UDP transport of two devices | `MCInputTransport` | `InputTransportProofs` |
| `CursorSession` | the loops of the cursor services of all devices, over a lossy channel | `MCCursorSession` | `CursorSessionProofs` |
| `WaylandCapture` | the capture thread, the compositor, and what the loop does to both | `MCWaylandCapture` | `WaylandProofs` |
| `WaylandClipboard` | the clipboard thread on Wayland, the compositor and the child process | `MCWaylandClipboard` | `WaylandProofs` |

How they compose. `ClipboardSync` and `Transfer` take a connection for a channel that delivers in
order until it is lost: `LossyFifo`, which `Connection` is shown to implement. `ClipboardSync` takes
it that devices that reach each other connect sooner or later: what `Dialling` is about.
`CursorSession` takes it that a message arrives at most once, in any order or not at all: what
`InputTransport` is about. `CursorSession` has a capture that works as the macOS event tap does (a
capture begins and its Begin is queued in one step); `WaylandCapture` has the one that does not, and
leaves the loop's peers to choice.

### How `ClipboardSync` corresponds to the code

| Model | Code |
|---|---|
| `cfg[n]`, `disk[n]` | `Arc<RwLock<Config>>` together with the main loop's `clock`; `config.json` |
| `current`, `latest`, `seen` | the variables of `run` of these names (`seen` is `seen_order`) |
| `clip`, `dirty` | the system's pasteboard; `changeCount` differs from `last` of the thread |
| `changes`, `commands`, `control` | the three `mpsc` queues |
| `starting[n]` | what a daemon that starts has read from the clipboard (`daemon.rs:96`), until it is published or the daemon turns out to be paused: its peer loops and IPC handlers run already, its main loop does not |
| `sync` | file prompts on screen, and ClipboardSyncFiles requests between the check of `paused` and the sending of the control message |
| `link[n][m]` | `peer_loop` of n for m: `hello` (both Hellos exchanged), `gap` (`latest` sent), `live` (subscribed), `closing` (has found its peer unpaired) |
| `chan[n][m]` | bus receiver, stream and incoming queue between n's bus and m's main loop |
| `LocalChange*`, `Incoming*`, `Control*` | one iteration of the `select!` of `run` |
| `BackendPoll`, `BackendCommand`, `BackendSetRaced` | one turn of the pasteboard thread; the last with a user's copy between `write_payload` and the reading of `changeCount` |
| `Ipc*`, `Ipc*Fails` | one handler, or what it does up to and after its await; a handler whose save fails |
| `Connect`, `SendLatest`, `Subscribe`, `Drop`, `PeerLoopBail` | a connection's life |
| `Crash`, `StartLoads`, `StartPaused`, `StartPublishing` | the process ends; `run` up to the reading of the clipboard, and from there to its loop |

One iteration of the main loop is one step. No other task can see it half done, but for a crash in
the middle: a crash after the step with nothing of what it sent on its way is the same as a crash
after the save, which is its first effect, and `Crash` lets any prefix of what was sent survive. A
save of the main loop that fails ends the daemon (`?` in `run`) and is a crash before the step. One
of an IPC handler does not: memory stays changed, `config.json` as it was, and nobody is told
(`IpcFails`).

What a daemon finds on its clipboard at its start becomes its `latest`, and is not put on the bus
(`daemon.rs:111`): it reaches the peers whose loops read `latest` after that. A loop that was past
that reading, because it connected while the start-up save was awaited, never sends it; `missed`
remembers such a pair, as it does the event published between a loop's reading and its subscribing.

### How `Transfer` corresponds to the code

A `Job` on the sending side is `sState`, `progress`, and its task `pc` (where `run_sender` awaits),
`file`, `offset`, `signals` (its queue), `registered` (the entry in `Inner.signals`). On the
receiving side it is `rState`, `bytes`, `offsets`, `partDir` (the field) and `parts` (the directory
itself, which `cleanup` may fail to remove, unnoticed). `outbound` is the manager's queue, `wire`
the bus, stream and incoming queue. File contents are counted in chunks: of a file the model knows
how many it has been offered with, how many it has now and how many are written. Timeouts may fire
whenever the task waits with an empty queue: the two sides share no clock.

`start` and `startOffers` are two steps, because the job can be cancelled before its Offer is
queued: `overtaken` remembers those. The other handlers too queue their message after the lock is
released (`accept`, `reject`, the answers to Chunk and Complete), which is one step in the model.
The only message a request can put ahead of theirs is a Cancel; what it overtakes then finds a
sender's task that has ended, and is ignored, as it would be behind it.

### How `Connection` corresponds to the code

`stage` is where `peer_loop` is; `writing` is the rest of what `send` awaits; `got` what the present
call of `receive` has read, which `BusSent` and `BusSkipped` forget because `select!` drops that
call; `tcp` the stream with both sockets' buffers; `bus` and `lagged` the broadcast receiver. A
length that is read from the middle of a record is taken to end the connection at once; in the code
it does so either at once (too large a length) or after as many bytes (they do not decrypt).

### How `Dialling` corresponds to the code

| Model | Code |
|---|---|
| `peers`, `port` | the peers of `config.json`; the port `network_manager` listens on, another after each start |
| `active`, `dialing` | the sets in `NetworkContext` and of `network_manager` |
| `supervisor[d][a]` | the task `outbound_supervisor` of d for a, the address it keeps, and where it awaits |
| `slots` | TCP connections: `near` is the dialler's end, `far` the acceptor's, from the backlog to the end of its loop |
| `Discovered` | the branch of `network_manager` for an mDNS answer |
| `Dials` ... `Wakes` | one pass through the loop of `outbound_supervisor` |
| `Accepted`, `TaskStarts`, `AcceptorConnected`, `AcceptorLoopEnds` | the branch for an accepted connection, `spawn_peer` and `spawn_connected` |
| `Stranger`, `blocked` | the preface that `network_manager` reads in its own loop |
| `Lost`, `Restart`, `PowerLoss` | a connection both ends see the end of; a process that starts again; a machine whose peers are not told |

The two ends of a connection are apart: one may be in its loop while the other is still in the
handshake, has closed, or is gone without a word.

### How `Pairing` corresponds to the code

`process[n]` is `pair_interactive` of n with the config it loaded when it started; `streams` are the
connections with the messages of the handshake and the answers. `Accept` and `Connect` are the
branches of its `select!`, `Asked` what `pair_stream` does up to the question, `Answers` the user's
answer and its sending, `Agreed` and `Completes` the other's answer and the save, `Fails` every way
that ends with an error, `GivesUp` the 120 seconds of the window and the 60 of a stream. A
connection stays readable after its other end has closed: what was sent before is still in the
buffer. `DaemonStarts` ... `Unpair` are what a daemon that runs beside does to the same file.

### How `InputTransport` corresponds to the code

`addresses`, `sessions`, `pending` and `seen_handshakes` are the variables of `run` of these names,
of one peer. A process draws its ephemeral key and its nonce once, so an `incarnation` stands for
both and session keys for the pair of incarnations they are made of; `Session.peer` is the other
one's. `receive_window` is the set of the numbers its bits stand for. `net` is a set, of datagrams
that arrive in any order: a copy of a datagram that is still on its way is the same datagram, and
what `send_data` sends three times is a datagram that may arrive again. `announced` are mDNS answers
`run` has not read. Each action is one branch of `select!`, of which nothing else sees a half; where
a branch sends several datagrams, `SendFails`, `FlushFails` and `HelloAnswerFails` stop it between
them. A Hello sent in answer to data of another session changes nothing when it fails; that it can
fail is in `Lose`.

### How `CursorSession` corresponds to the code

`dev[n]` is one record: the variables of `run` (`outgoing`, `incoming`, `preview`, `takeover`,
`portal_edges`, `last_seen`), what it shares with the event tap (`active`, `allowed_edges`), the
queue of captured events, whether the Injector holds something down, and what is on its way to each
peer. Every handler is an operator that takes the record and returns it changed, so that one step of
the model is one branch of the code's `select!`, whole:

| Model | Code |
|---|---|
| `Begin*` | `CaptureEvent::Begin`: a return, an ignored one, nobody there, an Enter or a Probe |
| `Pointer*`, `Input*`, `LocalInput*` | the other events of the capture |
| `Probe*`, `Enter*`, `Ack*`, `Leave*`, `Input...` of a message | the branches of `InputMessage`, each with the conditions of its guards |
| `Tick` | the branch of the interval: trust, time-outs, the repeated Leave, the edges |
| `User*` | the event tap's callback |
| `Hear`, `Miss` | a Ping or Pong arrives, or PEER_TIMEOUT (1.2 s) and the two seconds of `select_peer` pass |

A restart clears `held`, which stands for the Injector's own books: a daemon that is killed does not
run `Injector::end`, and what the system does with keys its process held down is not modelled.
Messages are first-in first-out but for what a scenario lets overtake or get lost. What is sent
three times is one message: `InputTransport` shows that it is handed over once. Timers are not
counted: `last_seen` is recent, late or gone, and a tick finds a time-out over or not.

### How `WaylandCapture` corresponds to the code

`state` is `CaptureState` with its names; `active`, `allowed_edges` and `events` are the atomics and
the queue `Capture` shares with the thread; `over` is the compositor's idea of the surface the
pointer is on. `PointerEnter`, `PointerLeave`, `Locked`, `Unlocked`, `Closed` and the movements are
the compositor's callbacks, `sync_release` one pass of the thread's own loop (release, edges no
longer allowed, a lock that has been idle for 750 ms). `outgoing`, `incoming` and `TakeEvent` stand
for the loop of `input/mod.rs`: which branch it takes depends on peers and is a choice, what each
branch does to the capture is the code's.

### How `WaylandClipboard` corresponds to the code

`thread` has the variables of the thread's loop; `commands` its queue; `selection` is what the
compositor has; `watch` the child `wl-paste --watch`, which says that something changed, later, and
whose end the thread notices. `TakeCommand` is one command, `Look` the rest of a turn of the loop:
read, compare with what was injected, with the baseline and with what was handled, and report. The
code does both in a turn; the model also has turns of one without the other. A read is one step, of
what is there: it may fail, whole or for some formats of a text (`Misread`), and the code swallows
that (`.ok()?`) at a resume (`TakeRebaselineMisread`) as at a look (`ReadFails`); the digest of what
was read in part is another than the whole's (`whole`). Each copy and each event has a content of
its own, except for `UserCopiesAgain`, which copies what was there before.

## 3. Runs

`tlc -workers 2 -config <run>.cfg <module>`. Every run says CHECK_DEADLOCK FALSE because each model
really stops: the environment does what its budget allows and the rest goes quiet.

| Run | Module | States | Shows |
|---|---|---|---|
| `sync_two` | `MCClipboardSync` | 595 000 | two devices: types, clocks, order, agreement, what is shown, echo, pause, unpair |
| `sync_forward` | `MCClipboardSync` | 490 | four devices, three of them in a cycle: every event reaches all, forwarding ends |
| `transfer` | `MCTransfer` | 205 000 | one transfer of two files (2 chunks and 1): placement, claims, cleaning up, termination |
| `connection` | `MCConnection` | 70 000 | one connection: implements `LossyFifo` both ways, skips nothing, delivers |
| `input` | `MCInputTransport` | 82 000 | two devices: at most once, out of order, the pending queue, a session for who waits |
| `cursor` | `MCCursorSession` | 34 000 | two devices lend each other their pointers: directions, keys, edges, captures, time-outs |
| `capture` | `MCWaylandCapture` | 184 000 | two edges: one owner, what is captured is lent, locks end |
| `wayland_clip` | `MCWaylandClipboard` | 375 000 | one thread: no echo of peers' contents, every user's text is reported |
| `dialling` | `MCDialling` | 10 000 | two daemons, three connections at a time: one loop per peer, reconnection |
| `pairing` | `MCPairing` | 61 000 | three devices: trust was confirmed by both users, and is mutual |
| `sync_three` | `MCClipboardSync` | (stops) | violation of `AgreeWhenConnected` with three devices |
| `transfer_overwrite` | `MCTransfer` | (stops) | violation of `NeverOverwritten` with two transfers |

### Bounds

What the environment does is bounded by `Budgets`, a set of scenarios: a step of the environment is
possible if some scenario allows all that has been done with it. The programs' own steps have no
bound. The scenarios are in the MC modules, each with what it is for:

* `sync_two`: two copies with a lost connection and a crash; text, files, an unpairing, a lost
  connection and a copy during the thread's write; a copy, two pauses, a resume and a crash; a copy,
  a pause, and a pause, a resume and an unpairing that cannot be saved, with a crash that brings
  back what is on disk; three copies. A crash in any of them has the start-up window, with a
  connection made in it. Two devices and three copies have every order of concurrent, crossing and
  successive events that a relation between two of them can have; two copies and a crash a reused
  number and a lost suffix; a resume between two pauses every order of the flag, the control
  messages and the changes. `SeenLimit` is 1 there, so that ids are evicted while copies of their
  events can still come back. Larger topologies are explored where the question is about topology: a
  cycle of three with a fourth device on a tail, and a star of three (three concurrent events in
  different orders).
* `connection`: `Window` and `BusLimit` are 2 pieces and 1 message, less than a large message and
  less than the messages published, so that buffers fill and receivers lag.
* `input`: five scenarios, each about one thing that ends a session or reorders it: three messages
  and a duplicate with a window of two numbers, so that one is overtaken by as much as the window
  covers and by more; a failing send; a restart; a change of address; an unpairing. Its queue holds
  one message, of which two wait.
* `cursor`: eight scenarios. Two pushes, by one user or by both, have the crossing of two Enters and
  a push during a session; a key, a movement, a touch, each with a push, what a session carries and
  the two ways it ends; a lost and an overtaken datagram, a network that is down, a restart and an
  unpairing, each at every point of a session.
* `capture`: three captures in a row have a release for the first while the second is in the queue
  and a third begins; two locks taken away have one of them taken between a Begin and its handling.
* `transfer`: one transfer of two files, so that one ends between two; two cancellations are one by
  each user, at any point from before the Offer on; one failure of each kind may be at any call.
* `wayland_clip`: seven scenarios over texts, files, resumes, shared files and failures, also
  failing reads with texts, and with files and resumes; two of each so that one can take the other's
  place in what the thread remembers.
* `dialling`: two devices, of which one dials, as of any two; three connections, so that a second
  arrives while a first is half open and a third waits. Five scenarios, by what ends a connection.
* `pairing`: three windows and a fourth, which connect in any way, but one window of a device at a
  time; two devices beside a daemon.

### Fairness

`FairSpec` has weak fairness of what each task does when it can: tokio polls every ready task,
`select!` begins with a random branch, threads go round their loops for ever, supervisors retry,
intervals tick and the service manager restarts. Nothing is assumed of users, the network or
crashes. In `Dialling` it covers mDNS answers, supervisors and accepting tasks, one by one; that
dialling fails or a stranger leaves is left to chance. In `InputTransport` it covers discovery, the
tick and the arrival of some Hello and some datagram of data: a datagram that a scenario does not
lose arrives. In `CursorSession` it is of one step, `Progress`: some handler runs, some message
arrives, or time passes while the network is down; the properties under it ask for nothing stronger.
In `WaylandCapture` and `WaylandClipboard` it covers the thread's turn and the taking of what is in
a queue. In `Transfer` it covers `run_sender`, the handling of messages and the queues; users owe
nobody an answer. A timeout is part of `run_sender`, which is what makes it end: the timer is due
sooner or later. `Pairing` has no fairness: it says nothing of what must happen.

### Where the code does something else than the documents say

Two have runs and findings in `PROJECT.json`:

1. `sync_three`: three concurrent copies can leave devices with different events for good. The order
   behind `wins` is not transitive: with a before c, and b concurrent with both, b can win over c,
   c over a, and a over b.
2. `transfer_overwrite`: of two transfers of the same file name, both accepted before either ends,
   the second replaces the first's file.

The others can be reproduced: a `.cfg` of this directory, or one with a line or two changed. The
properties of the runs say what holds beside them, and name their exceptions.

| Configuration | Property | What the code does |
|---|---|---|
| `sync_gap.cfg` | `AgreeWhenConnected` | a copy between a new peer loop's reading of `latest` and its subscribing to the bus is not sent to that peer until the next copy (`daemon.rs:450`; README.md:403-404) |
| `sync_start.cfg` | `AgreeWhenConnected` | what a daemon finds on its clipboard at its start is not sent to a peer that connected before it was made an event (`daemon.rs:111`; README.md:402-404) |
| `sync_unsaved.cfg` | `PausedEvenUnsaved` | a pause whose save fails is in force in memory, but the main loop is not told: it holds its event on, and peers that connect are sent it (`daemon.rs:526`; README.md:404) |
| `sync_two.cfg` † `PauseOverFiles` | `PausedHoldsNothing` | files whose prompt was answered before a pause are published, and held for peers, after it (`daemon.rs:545`) |
| `sync_two.cfg` † `PauseAndResume` | `PausedCopyNeverPublished` (invariant) | a copy made during a pause is published after it (`daemon.rs:119`; README.md:404) |
| `sync_two.cfg` † `ThreeCopies` | `CurrentIsShown` | a local copy that crosses a remote Set on the queues is current, and not what is shown (`daemon.rs:173`) |
| `sync_two.cfg` † `FilesAndCrash` | `AgreeWhenQuiet` without its third premise | a daemon that restarts with files on its clipboard holds no event and refuses its own from its peers, which keep it (`daemon.rs:101`, `154`) |
| `rename_sequence.cfg` | `SequenceUnique` | `lan-cat name` beside a daemon saves an old clock; after a crash a number is used twice (`main.rs:156`) |
| `rename_sequence.cfg` | `RenameIsKept` (invariant) | the daemon's next save undoes the rename |
| `connection_torn.cfg` | `StaysInStep` | a bus message during a half-finished `receive` ends the connection (`daemon.rs:452`) |
| `connection_deadlock.cfg` | `NeverWaitsForever` | two large messages in opposite directions stop a connection for ever (`daemon.rs:461`) |
| `transfer.cfg`, `Manifest <- EmptyLast`, `Budgets <- Undisturbed` | `CompletedIsFinal` | a Cancel turns a completed transfer into a cancelled one |
| `transfer.cfg`, `EmptyLast`, `Budgets <- OneDrop` | `CancelledIsFinal` | a transfer its sender cancelled ends as completed |
| the same | `ReceiverEnds` | a receiver whose sender is gone waits for ever |
| `transfer.cfg` | `PartsAreRemoved` | a `.part` directory that cannot be removed stays, and no one is told (`transfer/mod.rs:575`) |
| `transfer_overtaken.cfg` | `NobodyEverIsLeftWaiting` | a Cancel queued before its transfer's Offer finds a receiver that does not know the transfer; the Offer behind it leaves the receiver waiting, with the connection up (`transfer/mod.rs:120`) |
| `input_refused.cfg` | `RefusedIsOld` | after one failing send a device numbers its messages from 1 again, under the same keys, and its peer refuses them until they catch up (`transport.rs:180`, `378`) |
| `input.cfg`, `Budgets <- MovesAndLoses` | `AlwaysAnswered` | a device whose session ended and whose address changed sends Hellos that its peer has seen before and refuses, for ever, as replays |
| `cursor_captive.cfg` | `NobodyIsCaptive` | a Begin that is in the queue as an Enter is accepted is ignored, and the tap goes on capturing for nobody (`mod.rs:121`) |
| `cursor.cfg`, `Budgets <- LostDatagram` | `NobodyIsCaptive` | one lost Enter or Ack, and its sender waits captured for as long as the peer lives: a session that is not ready has no time-out |
| `cursor.cfg`, `Budgets <- TwoPushes` | `CrossingIsSettled` (invariant) | of two devices that enter each other the one of the smaller id yields; the other refuses its Enter with a Leave, which ends its own entry there, and then takes the Ack and sends to a peer it is not in (`mod.rs:293`) |
| `cursor.cfg`, `Budgets <- PushesAgain` | `BorrowedIsLent` | the Leave of a probe that was given up ends what its receiver has begun to lend in between; the peer it has entered stays entered, by nobody (`mod.rs:347`) |
| `capture_captive.cfg` | `LockAlwaysEnds` | the same as `cursor_captive`, on Wayland: the pointer stays locked |
| `capture_phantom.cfg` | `LentIsAlwaysCaptured` | the release for a lock that was lost ends the capture whose Begin is behind it in the queue: a peer is entered and nothing is sent (`mod.rs:134`) |
| `wayland_swallowed.cfg` | `CopiedFilesAreReported` | files a peer sent are not cleared from what was injected when they are seen; the next files the user copies are taken for them (`wayland.rs:121`) |
| `wayland_misread.cfg` | `NeverEchoes` | a resume whose read fails leaves no baseline and no digest: what a peer sent is then reported as a copy (`wayland.rs:80`) |
| `wayland_clip.cfg`, `Budgets <- ReceivesAndResumes` | `NeverEchoes` | files that arrive as the user resumes are reported as a copy |
| `wayland_clip.cfg`, `Budgets <- ReceivesAndShares` | `NeverEchoes` | a text that arrives as the user shares files is |
| `dialling_restart.cfg` | `AlwaysReconnects` | a supervisor dials the address it was started with; a peer that comes back on another port is never dialled (`daemon.rs:358`) |
| `dialling.cfg`, `Budgets <- PowerLosses` | `AlwaysReconnects` | a peer whose machine lost power stays in `active`, and its new connections are turned away (`daemon.rs:392`) |
| `dialling.cfg`, `Budgets <- OneStranger` | `AlwaysReconnects` | a connection that sends nothing stops `network_manager` (`daemon.rs:313`) |
| `dialling.cfg`, `Budgets <- OneUnpairing` | `UnpairedLeaves` (`PROPERTY`) | an unpairing between a loop's Hello and its subscribing is not heard of: the loop goes on (`daemon.rs:450`, `573`) |
| `pairing_onesided.cfg` | `TrustIsAlwaysMutual` | a window that gives up after its user's yes is trusted by one that finds the yes in its buffer (`network.rs:88`) |
| `pairing_clock.cfg` | `PairingOnlyAddsPeers` | a daemon started while a pairing window is open has its clock, and its unpairings, undone by the window's save |

† with `SeenLimit = 3` and `StartLinked = TRUE`, and `Budgets` as named.

Two documents differ without a run: pressure on an edge is confirmed after 2 s (`CONFIRM_TIME`), not
three (README.md:395); on Wayland the end of a session lets go of keys but not of buttons
(`wayland.rs:1177-1184`), on macOS of both.

## 4. Theorems

`tlapm <module>.tla` for each of the eight proof modules. Assumed are only the ASSUMEs of the
modules: devices are natural numbers, limits are positive, None is no value, reachability is a
relation on devices, budgets are functions to numbers. The sets of devices, edges, slots,
topologies, limits and budgets are otherwise arbitrary: what TLC checks in a scenario the proofs say
of every one.

**`ClipboardSyncProofs`**. `TypeCorrect`; `ClocksCorrect` (`[]ClockInv`), and from it
`NothingIsAheadOfDisk`, `SequenceNumbersUnique`, `LocalCopyWins`, `DiskClockNeverGoesBack`.
`SequenceUnique` is not inductive: to number an event differently from all others of its device, the
daemon's clock has to be as far as the greatest number out there, and after a crash that clock is
what `config.json` says. `ClockInv` adds: the clock in `config.json` is the one in memory
(`ClockSaved`; the rest may differ, after a handler whose save failed); no clock in memory, on disk
or in an event knows more of a device than the device's own file (`NothingAheadOfDisk`); an event's
number is its clock's entry for its origin (`EventsValid`); a clock has taken in the event its
device holds (`CurrentCovered`). Every step leaves the clocks alone, merges an event's clock, or
increments and creates one event. `BeatsAsymmetric` and `BeatsTotal`, of the operators of
`VersionVector`: of two events of different devices exactly one replaces the other, so that two
devices that have both agree. That `Beats` is not transitive is the reason why agreement is proved
of two devices, not of three (`sync_three`).

Besides the clocks:

* `UnpairedIsCutOff` (`UnpairedGetsNothingNew`): of all that puts something on the way to a device,
  the bus alone is looked at by `authorized`, so a step that adds to a channel of an unpaired device
  is the sending of `latest`.
* `NothingIsEchoed` (`NoEcho`): `TakesFrom(n, W)` says that what the pasteboard thread has yet to
  read, has read, and what prompts, sync requests and control messages carry is content of `W`.
  Every step keeps it, for every `W` that holds what the user copies, because a write leaves no
  change to be read. With `W` the content of n's own user it is the invariant of `NoEcho`;
  `PlainInv` (content that is no list of files) and `NumberedInv` (the first k copies) are other
  uses of it.
* `PausedDaemonHoldsNothing`: `PausedHoldsNothing` (which excepts pauses that could not be saved),
  as long as nobody has both copied files and paused; the exception is real (`sync_two` has no
  scenario with both), and `PausedHoldsOnlyFiles` says what is left without it: files a user asked
  to sync are all a paused daemon can hold.
* `WhatIsHeldIsShown` (`RemoteCurrentIsShown`): if a device holds a peer's event, the last write in
  the thread's queue is of its content, or no write is left and the clipboard shows it, or shows a
  copy of its own user that no event carries (`ShownInv`). That such a copy stays unpublished by
  others needs two facts: what is on a clipboard and not of its user came in an event
  (`ForeignInv`), and what is copied next is new (`NumberedInv`).
* `TwoDevicesAgree` (`AgreeWhenQuiet`): of two devices that find each other. Two invariants meet
  when nothing is on its way. A daemon holds every event that it made or has handled, or one that
  replaced it (`BehindInv`); what a device holds of its own is on its way to the other, or the other
  holds it or what replaced it (`DeliveredInv`). So each holds what the other holds or what replaced
  it, and of two events only one replaces the other. `BehindInv` needs "replaces" to be transitive,
  which it is of two devices: of any three events two have the same origin, and the events of one
  device are a chain of ever greater clocks (`ChainInv`, with the clocks above). A new connection is
  sent what is held because without pauses `latest` and `current` are one (`LatestInv`), unless it
  read `latest` before the start-up publication, which `missed` excepts; a daemon that restarts
  finds its last copy on its clipboard and makes an event of it that replaces all before, if the
  copy is no list of files (`ClipInv`). Ids evicted from `seen` do no harm: an event that is handled
  again is compared again.

**`ConnectionProofs`**. `ConnectionIsFifo`: `Spec => Implements`, each direction of a connection is
a `LossyFifo`, for messages of any size and however often `receive` is dropped half done. The
invariant (`StreamSound`, `[]StreamInv`) follows the pieces on the way: they are pieces of the
messages sent, one after the other without a hole, from where the reader is to where the writer is.
A reader that has pieces of a message is exactly behind them; one whose call was dropped may be
anywhere, but then no piece fits, unless it is at a message's beginning. So what is put together is
the next message, whole, or nothing. Each step is of one of six kinds for each direction, and maps
to a step of `LossyFifo` or a stutter.

`NothingIsSkipped` (`NothingSkipped`) is about the bus before it. Its invariant (`BusInv`) gives
each message on the bus its place in what is due: the first is right behind what has been sent
(`latest` counted apart), the next one further if it is for the peer, the last is behind all that is
due. So a message taken and sent is the next one due. A bus that has dropped a message has no such
places any more; then the loop takes nothing from it, because Lagged ends it. With
`ConnectionIsFifo` this becomes `HandedAsPublished`, from end to end: what one end's main loop is
handed is what the other held when it subscribed, if it held anything, and then what was published
since, without a hole and in order.

**`TransferProofs`**. All five invariants of the run `transfer`, for any number of transfers over
one connection, any manifests and any number of losses, cancellations and crashes.

* `CompletedMeansPlaced` and `OnlyWholeFiles`: a Finished, wherever it is between the receiver's
  queue and the sender's task, stands for files in place (`PlacedSound`); it needs no more, because
  nothing is ever taken out of place.
* `NoPartsRemain`: `PartsAreCleanedUp`, which excepts the transfers whose directory could not be
  removed (`unremoved`), is inductive as it stands.
* `OneChunkAtATime` (`StopAndWait`): the invariant (`TokenSound`) counts messages in the five queues
  between the two tasks. A transfer has one token at most, a chunk or its acknowledgement, and none
  unless its task waits for one or has ended; which of the two it is says whether the receiver is a
  chunk ahead. An Offer that is on its way makes the receiver new, so there is one at most, with no
  token and nothing accepted beside it. Queues lose messages, never gain them: `CountAppend`,
  `CountTail` and `CountPrefix` are about any sequence of messages.
* `ReceiverIsTold` (`NobodyIsLeftWaiting`): bus and manager's queue are taken as one sequence,
  `From(side)`, which `Route` leaves as it is while the daemons are connected. In it a transfer's
  Offer is ahead of all else, unless its user cancelled before it was queued (`overtaken`), so that
  no Cancel finds a receiver that does not know the transfer and is lost, and a task is done, or its
  user has cancelled, only when the receiver's job is over or a Cancel is in it (`EndSound`). What a
  receiver says last, it says when its job is over.

**`InputTransportProofs`**. `HandedOnce` (`OnceWhileSessionLasts`) and `NothingWaitsForASession`,
for every size of window and queue. The window tells numbers apart, not messages; so the invariant
(`WindowSound`) says that a message is sent under one number, that what waits has not been sent and
waits once, and that the window refuses what was handed over, whatever moved it on since.

`OnlyOldIsRefused` (`OnlyOldRefused`) is the converse, as long as no process restarts, no address
changes, nobody unpairs and no send fails: what a window refuses has been handed over, or is as old
as the window is wide. Its invariant (`CalmInv`) says that there is one incarnation and one address
of each device on the way; that a number is given to one message, and none is beyond what its sender
has counted; and that a number the window marks is a message that was handed over. What a window
does not mark and refuses can only be too old, and the session that made the window is still there.

**`CursorSessionProofs`**. `LendsOrBorrows`, `NoKeyStaysDown`, `BorrowedHasOneWayBack`,
`EndsRelease`. Each is about one device whatever reaches it, so the invariant (`SoundAlways`) is
about one record, and the proof is by what handlers are made of: each operator takes a sound record
to a sound one, ends the capture if it ends the lending, and begins none (`Handled`); that composes,
and only the user begins a capture.

`WhatIsCapturedIsBorrowed` (`CapturedIsBorrowed`) is about two devices and what is on the way
between them. Under its exceptions one device is pushed and all others rest: these lend nothing and
say only ProbeAck, Ack and Leave. The one that is pushed borrows nothing, and is captured as long as
it lends or has one Begin to handle. Whom it has entered owes it a Leave that is on the way, or has
an Enter before it with no Leave behind, or borrows on the opposite edge, with the Ack on the way or
handled (`LendsTo`). The exceptions are about counters that only grow, so that an undisturbed state
has only undisturbed ones before it (`UndisturbedBefore`) and the invariant (`SoloInv`) need not
speak of others. The proof takes each step of a device that rests and of the one that is pushed, and
says what it does to the other's half of `LendsTo`.

**`WaylandProofs`**. Of `WaylandCapture`, `OneOwner`: one edge at most owns the lock and the
keyboard (`LockCorrect` adds that an edge that waits for the compositor counts as locked).
`CapturesAreLent`: while nobody enters, what is captured has been released, is lent, or has its
Begin in the queue; and if no lock is taken away there is one Begin in the queue at most, that of
the capture there is.

Of `WaylandClipboard`, an instance with variables of its own, `NothingEchoes`: its `NoEcho`, if None
is no payload. The thread knows what a peer sent by looking at the clipboard alone, so the invariant
(`EchoInv`) speaks of what is there now: a peer's text is what the thread wrote last or what it read
last, a peer's files are those whose paths it wrote last, whoever copied what in between and whether
or not the child has said so. A resume makes texts the baseline but forgets paths, and forgets
everything if it cannot read; sharing files forgets what text was written; a text read in part is
another. `forgotten` remembers what was there then: what `NoEcho` excepts is where a step of this
proof fails without it.

**`PairingProofs`**. `TrustedWereConfirmed`: whom a device trusts was confirmed by both users over
one connection. Trust is in three places, each written back from another, so the invariant
(`TrustIsConfirmed`) says it of all three; a confirmation lasts because a window answers once, for
the one connection it made or took, and a connection is taken once. `PairedTrustEachOther`
(`TrustIsMutual`): one who has answered waits in that stream, or has left having answered, or has
heard what the other answered and saved it if both agree (`MutualInv`). It needs the streams'
invariant above, that a window saves once, and that what it saves is added to what config.json has:
so it is while no daemon writes beside it, which the property excepts.

**`DiallingProofs`**. `OneLoopForEach`: `active` is the peers with a loop, and there is one for
each. On the dialler's side because a pair has one supervisor and that one connection; on the
acceptor's because the end of a handshake looks at `active` again; never both because the smaller id
dials (`ConnectionsSound`).

Only model-checked:

* agreement of more than two devices in `ClipboardSync`, which some topologies do not have
  (`sync_three`);
* everything under fairness, which is out of the prover's reach: `SentArrives`, `EventReachesAll`,
  `ForwardingEnds`, `SenderEnds`, `HelloAnswered`, `TakeoverEndsLending`, `NothingHangs`,
  `LockEnds`, `CopiesAreReported`, `Reconnects`.

## 5. Not modelled

* The Noise handshakes and the cipher: a connection delivers what was sent or ends, a datagram is
  authentic or ignored, and the codes of a pairing are compared rightly.
* A half-open connection, of which one end has ended and the other does not know, is left out of
  `ClipboardSync` (both ends go down in one step); `Connection` and `Dialling` have it.
* A daemon's new peer loop may, in the code, run while its main loop still has messages of the old
  connection in its queue; `Incoming` hands these over before the new loop is past its Hello or
  after it has subscribed, not between.
* Clipboard formats, digests and sizes, except that a payload is or is not a list of files; reading
  and writing of those files; a Set that fails in the macOS thread.
* The shift of the replay window's 64 bits (a set of numbers in the model).
* Positions, sizes and amounts of input, `validate()`, and the drawing of previews and surfaces; the
  message Cancel, which is handled and never sent; messages of a peer that is not trusted, which the
  transport does not deliver; an error of the platform that ends the cursor service (`?` in its
  loop), which leaves the capture to the end of the process.
* The Wayland injector's virtual devices, and `lock_pointer` failing, which it does only for a
  second lock of the same pointer, a case `OneEdgeOwnsInput` excludes.
* Validation of IPC arguments, listing requests, log and user messages; the GUI; the installers.
  They read or write nothing that outlives a request but files no other part reads.
* The common temporary file of two writers of `config.json`.
* mDNS: it answers with a daemon's present address, sooner or later.

## 6. What could come next

* An abstract specification of a transfer as its two users see it (offered, accepted, completed,
  failed), implemented by `Transfer`.
* `ClipboardSync` over `Dialling`, in place of its `Connect` and `Drop`: too large for TLC with
  copies and crashes in one instance, but half-open connections would meet synchronisation there.
* `CursorSession` with the capture of `WaylandCapture` in place of the macOS tap.
