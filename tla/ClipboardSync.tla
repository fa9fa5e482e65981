--------------------------- MODULE ClipboardSync ---------------------------
(***************************************************************************)
(* Clipboard synchronisation between lan-cat daemons: on every device the  *)
(* daemon's main loop (daemon.rs, run), the pasteboard thread it talks to  *)
(* over two queues (clipboard/macos.rs), one peer_loop per connection, the *)
(* IPC handlers that change what the loop reads, and config.json, which is *)
(* all that a crash leaves behind.                                         *)
(*                                                                         *)
(* A step is what one task does between two points where another task     *)
(* can tell the difference.  chan[n][m] is everything on its way from n's  *)
(* broadcast bus to m's main loop: the bus receiver of n's peer_loop for   *)
(* m, the TCP stream and m's incoming queue, all of them first-in          *)
(* first-out, of which a broken connection loses a suffix.                 *)
(***************************************************************************)
EXTENDS VersionVector, Sequences, FiniteSets

CONSTANTS
  None,          \* Rust's Option::None
  SeenLimit,     \* event ids `remember` keeps (4096 in the code)
  Reach,         \* pairs of devices whose discovery and TCP reach each other
  StartLinked,   \* whether the peer loops of Reach already run in Init
  Budgets        \* scenarios: how often the environment may do what, each

ASSUME SeenLimitAssumption == SeenLimit \in Nat \ {0}

ASSUME ReachAssumption == Reach \subseteq Device \X Device

\* What users, the network and the disk do: copy text, copy files, copy while
\* the pasteboard thread writes, pause, resume, unpair, each of these three with
\* a save that fails, drop a connection, crash.
EnvironmentKind ==
  {"copy", "copyFiles", "race", "pause", "resume", "unpair", "pauseFails",
   "resumeFails", "unpairFails", "drop", "crash"}

ASSUME BudgetsAssumption == Budgets \subseteq [EnvironmentKind -> Nat]

ASSUME StartLinkedAssumption == StartLinked \in BOOLEAN

\* Clipboard content: the device whose user copied it, which of all copies it
\* is, whether it is a list of files, and whether sync was paused there.
Payload == [by : Device, no : Nat, files : BOOLEAN, paused : BOOLEAN]

\* protocol.rs, ClipboardEvent; the uuid is the event's number.
Event ==
  [id : Nat, origin : Device, sequence : Nat, clock : VV, payload : Payload]

ASSUME NoneAssumption == None \notin Event /\ None \notin Payload

\* config.rs, Config: the part the daemon's clipboard tasks read and write, and
\* the device's name, which every save writes too.
Config == [clock : VV, paused : BOOLEAN, peers : SUBSET Device, name : Nat]

\* clipboard/mod.rs, Command.
Command == [op : {"Set"}, payload : Payload]
             \cup [op : {"Rebaseline", "MarkFilesHandled"}]

\* daemon.rs, Control.
Control == [op : {"SyncFiles"}, payload : Payload] \cup [op : {"Pause", "Resume"}]

VARIABLES
  up,        \* the daemon runs
  starting,  \* what a daemon that starts found on the clipboard and has yet to
             \* publish, before it enters its main loop
  cfg,       \* its Config in memory, and the clock of the main loop
  disk,      \* config.json
  current,   \* the event the main loop holds to be on the clipboard
  latest,    \* the event a new connection is sent
  seen,      \* seen_order: the ids of the events handled, oldest first
  clip,      \* the system clipboard
  dirty,     \* changeCount differs from the thread's count
  changes,   \* queue: pasteboard thread -> main loop
  commands,  \* queue: main loop -> pasteboard thread
  control,   \* queue: IPC handlers -> main loop
  sync,      \* copied files: prompts shown and sync requests being read
  link,      \* state of the peer_loop n runs for m
  chan,      \* events on their way from n's bus to m's main loop
  created,   \* history: every event made
  missed,    \* history: <<n, m>>, n made an event that the loop it runs for m,
             \* past reading `latest`, was not sent
  spent      \* how often the environment has done what

vars == <<up, starting, cfg, disk, current, latest, seen, clip, dirty, changes,
          commands, control, sync, link, chan, created, missed, spent>>

SyncRequest == [stage : {"prompt", "reading"}, payload : Payload]

LinkState == {"down", "hello", "gap", "live", "closing"}

TypeOK ==
  /\ up \in [Device -> BOOLEAN]
  /\ starting \in [Device -> Payload \cup {None}]
  /\ cfg \in [Device -> Config]
  /\ disk \in [Device -> Config]
  /\ current \in [Device -> created \cup {None}]
  /\ latest \in [Device -> created \cup {None}]
  /\ seen \in [Device -> Seq(Nat)]
  /\ \A n \in Device : Len(seen[n]) <= SeenLimit
  /\ clip \in [Device -> Payload \cup {None}]
  /\ dirty \in [Device -> BOOLEAN]
  /\ \A n \in Device : dirty[n] => clip[n] # None
  /\ changes \in [Device -> Seq(Payload)]
  /\ commands \in [Device -> Seq(Command)]
  /\ control \in [Device -> Seq(Control)]
  /\ sync \in [Device -> SUBSET SyncRequest]
  /\ link \in [Device -> [Device -> LinkState]]
  /\ chan \in [Device -> [Device -> Seq(created)]]
  /\ created \in SUBSET Event /\ IsFiniteSet(created)
  /\ missed \in SUBSET (Device \X Device)
  /\ spent \in [EnvironmentKind -> Nat]

Linked(n, m) == <<n, m>> \in Reach \/ <<m, n>> \in Reach

\* Daemons that have started with an empty clipboard and trust each other.
Init ==
  /\ up = [n \in Device |-> TRUE]
  /\ starting = [n \in Device |-> None]
  /\ cfg = [n \in Device |->
              [clock |-> Zero, paused |-> FALSE, peers |-> Device \ {n}, name |-> 0]]
  /\ disk = cfg
  /\ current = [n \in Device |-> None]
  /\ latest = [n \in Device |-> None]
  /\ seen = [n \in Device |-> <<>>]
  /\ clip = [n \in Device |-> None]
  /\ dirty = [n \in Device |-> FALSE]
  /\ changes = [n \in Device |-> <<>>]
  /\ commands = [n \in Device |-> <<>>]
  /\ control = [n \in Device |-> <<>>]
  /\ sync = [n \in Device |-> {}]
  /\ link = [n \in Device |-> [m \in Device |->
               IF StartLinked /\ n # m /\ Linked(n, m) THEN "live" ELSE "down"]]
  /\ chan = [n \in Device |-> [m \in Device |-> <<>>]]
  /\ created = {}
  /\ missed = {}
  /\ spent = [kind \in EnvironmentKind |-> 0]

\* An action of the environment, which some scenario allows.
Spend(kind) ==
  /\ spent' = [spent EXCEPT ![kind] = @ + 1]
  /\ \E b \in Budgets : \A k \in EnvironmentKind : spent'[k] <= b[k]

----------------------------------------------------------------------------
(* Helpers of the main loop *)

\* The daemon is past its start-up publication.
InMainLoop(n) == up[n] /\ starting[n] = None

\* Config::save after an assignment to the loaded Config: config.json is
\* replaced, by a rename, with all of it.
Save(n, config) ==
  /\ cfg' = [cfg EXCEPT ![n] = config]
  /\ disk' = [disk EXCEPT ![n] = config]

\* Mutant: the clock is kept in memory only.
SaveClockInMemory(n, clock) ==
  /\ cfg' = [cfg EXCEPT ![n].clock = clock]
  /\ UNCHANGED disk

SaveClock(n, clock) == Save(n, [cfg[n] EXCEPT !.clock = clock])

\* ClipboardEvent::new: `clock` is the clock after its increment.
NewEvent(n, clock, payload) ==
  [id |-> Cardinality(created) + 1, origin |-> n, sequence |-> clock[n],
   clock |-> clock, payload |-> payload]

\* ClipboardEvent::validate, what it says of the clock.
Valid(e) == e.clock[e.origin] = e.sequence

\* Mutant: nothing is evicted.
rememberAll(n, id) == seen' = [seen EXCEPT ![n] = Append(@, id)]

remember(n, id) ==
  seen' = [seen EXCEPT ![n] =
             IF Len(@) < SeenLimit THEN Append(@, id) ELSE Append(Tail(@), id)]

Seen(n, id) == \E i \in 1..Len(seen[n]) : seen[n][i] = id

\* The `wins` closure: e replaces what n holds.
Wins(n, e) == current[n] = None \/ Beats(e, current[n])

\* bus_tx.send and what each subscribed peer_loop of n does with the event:
\* skip its source, end if its peer is no longer trusted, send otherwise.
\* Mutant: events received from a peer are not forwarded.
ReceivesLocal(n, m, source) == link[n][m] = "live" /\ source = n

Receives(n, m, source) == link[n][m] = "live" /\ m # source

\* Mutant: trust is not looked at again before sending.
SentOnUnchecked(n, e, source) ==
  [m \in Device |-> IF Receives(n, m, source)
                      THEN Append(chan[n][m], e) ELSE chan[n][m]]

SentOn(n, e, source) ==
  [m \in Device |-> IF Receives(n, m, source) /\ m \in cfg[n].peers
                      THEN Append(chan[n][m], e) ELSE chan[n][m]]

LinksAfter(n, source) ==
  [m \in Device |-> IF Receives(n, m, source) /\ m \notin cfg[n].peers
                      THEN "closing" ELSE link[n][m]]

\* A loop that has not subscribed yet never sees the event.
MissedBy(n, source) == {<<n, m>> : m \in {d \in Device :
                                            link[n][d] = "gap" /\ d # source}}

\* publish_local_payload.
Publish(n, payload) ==
  LET clock == increment(cfg[n].clock, n)
      e == NewEvent(n, clock, payload)
  IN /\ SaveClock(n, clock)
     /\ created' = created \cup {e}
     /\ remember(n, e.id)
     /\ current' = [current EXCEPT ![n] = e]
     /\ latest' = [latest EXCEPT ![n] = e]
     /\ chan' = [chan EXCEPT ![n] = SentOn(n, e, n)]
     /\ link' = [link EXCEPT ![n] = LinksAfter(n, n)]
     /\ missed' = missed \cup MissedBy(n, n)

----------------------------------------------------------------------------
(* The user and the pasteboard thread *)

NextContent(n, files) ==
  [by |-> n, files |-> files, paused |-> cfg[n].paused,
   no |-> 1 + spent["copy"] + spent["copyFiles"] + spent["race"]]

UserCopy(n, files) ==
  /\ Spend(IF files THEN "copyFiles" ELSE "copy")
  /\ clip' = [clip EXCEPT ![n] = NextContent(n, files)]
  /\ dirty' = [dirty EXCEPT ![n] = TRUE]
  /\ UNCHANGED <<up, starting, cfg, disk, current, latest, seen, changes,
                 commands, control, sync, link, chan, created, missed>>

\* The end of an iteration: changeCount moved, so the content is read and sent.
BackendPoll(n) ==
  /\ up[n] /\ dirty[n]
  /\ dirty' = [dirty EXCEPT ![n] = FALSE]
  /\ changes' = [changes EXCEPT ![n] = Append(@, clip[n])]
  /\ UNCHANGED <<up, starting, cfg, disk, current, latest, seen, clip,
                 commands, control, sync, link, chan, created, missed, spent>>

\* Mutant: the thread does not take its own write for read.
TakesCountAtResume(c) == c.op = "Rebaseline"

\* Whether a command takes the present changeCount as the one already read.
TakesCount(c) == c.op \in {"Set", "Rebaseline"}

\* A command from the main loop.
BackendCommand(n) ==
  /\ up[n] /\ commands[n] # <<>>
  /\ LET c == Head(commands[n])
     IN /\ clip' = IF c.op = "Set" THEN [clip EXCEPT ![n] = c.payload] ELSE clip
        /\ dirty' = [dirty EXCEPT ![n] = ~TakesCount(c) /\ (@ \/ c.op = "Set")]
  /\ commands' = [commands EXCEPT ![n] = Tail(@)]
  /\ UNCHANGED <<up, starting, cfg, disk, current, latest, seen, changes,
                 control, sync, link, chan, created, missed, spent>>

\* A Set during which the user copies, after write_payload and before
\* changeCount is read: the thread takes the copy for its own write.
BackendSetRaced(n) ==
  /\ up[n] /\ commands[n] # <<>> /\ Head(commands[n]).op = "Set"
  /\ Spend("race")
  /\ clip' = [clip EXCEPT ![n] = NextContent(n, FALSE)]
  /\ dirty' = [dirty EXCEPT ![n] = FALSE]
  /\ commands' = [commands EXCEPT ![n] = Tail(@)]
  /\ UNCHANGED <<up, starting, cfg, disk, current, latest, seen, changes,
                 control, sync, link, chan, created, missed>>

----------------------------------------------------------------------------
(* The main loop: local changes *)

LocalChange(n) ==
  /\ InMainLoop(n) /\ changes[n] # <<>>
  /\ changes' = [changes EXCEPT ![n] = Tail(@)]
  /\ UNCHANGED <<up, starting, clip, dirty, commands, control, spent>>

LocalChangeDropped(n) ==
  /\ LocalChange(n)
  /\ cfg[n].paused
  /\ UNCHANGED <<cfg, disk, current, latest, seen, sync, link, chan, created,
                 missed>>

\* Copied files open a prompt, a process of its own.
LocalChangeFiles(n) ==
  /\ LocalChange(n)
  /\ ~cfg[n].paused
  /\ Head(changes[n]).files
  /\ sync' = [sync EXCEPT ![n] = @ \cup
                {[stage |-> "prompt", payload |-> Head(changes[n])]}]
  /\ UNCHANGED <<cfg, disk, current, latest, seen, link, chan, created,
                 missed>>

LocalChangePublished(n) ==
  /\ LocalChange(n)
  /\ ~cfg[n].paused
  /\ ~Head(changes[n]).files
  /\ Publish(n, Head(changes[n]))
  /\ UNCHANGED sync

----------------------------------------------------------------------------
(* The main loop: events from peers *)

\* n's peer_loop for m forwards what it receives only once it has subscribed;
\* what an earlier connection delivered is in the incoming queue already.
Incoming(n, m) ==
  /\ InMainLoop(n)
  /\ link[n][m] \notin {"hello", "gap"}
  /\ chan[m][n] # <<>>

\* Mutant: duplicates are accepted.
AcceptsTwice(n, e) ==
  ~cfg[n].paused /\ Valid(e) /\ e.origin \in cfg[n].peers

\* Mutant: events are accepted while paused.
AcceptsPaused(n, e) ==
  ~Seen(n, e.id) /\ Valid(e) /\ e.origin \in cfg[n].peers

Accepts(n, e) ==
  /\ ~cfg[n].paused
  /\ ~Seen(n, e.id)
  /\ Valid(e)
  /\ e.origin \in cfg[n].peers

IncomingDropped(n, m) ==
  /\ Incoming(n, m)
  /\ ~Accepts(n, Head(chan[m][n]))
  /\ chan' = [chan EXCEPT ![m][n] = Tail(@)]
  /\ UNCHANGED <<up, starting, cfg, disk, current, latest, seen, clip, dirty,
                 changes, commands, control, sync, link, created, missed,
                 spent>>

\* Mutant: a write is skipped when one is pending.
SetQueuedOnce(n, payload) ==
  IF commands[n] = <<>> THEN <<[op |-> "Set", payload |-> payload]>>
                        ELSE commands[n]

\* Clipboard::set_payload.
SetQueued(n, payload) ==
  Append(commands[n], [op |-> "Set", payload |-> payload])

IncomingAccepted(n, m) ==
  /\ Incoming(n, m)
  /\ LET e == Head(chan[m][n])
     IN /\ Accepts(n, e)
        /\ remember(n, e.id)
        /\ SaveClock(n, merge(cfg[n].clock, e.clock))
        /\ chan' = [chan EXCEPT ![m][n] = Tail(@), ![n] = SentOn(n, e, m)]
        /\ link' = [link EXCEPT ![n] = LinksAfter(n, m)]
        /\ missed' = missed \cup MissedBy(n, m)
        /\ IF Wins(n, e)
             THEN /\ commands' = [commands EXCEPT ![n] = SetQueued(n, e.payload)]
                  /\ current' = [current EXCEPT ![n] = e]
                  /\ latest' = [latest EXCEPT ![n] = e]
             ELSE UNCHANGED <<commands, current, latest>>
  /\ UNCHANGED <<up, starting, clip, dirty, changes, control, sync, created,
                 spent>>

----------------------------------------------------------------------------
(* The main loop: control messages *)

ControlPause(n) ==
  /\ InMainLoop(n) /\ control[n] # <<>> /\ Head(control[n]).op = "Pause"
  /\ control' = [control EXCEPT ![n] = Tail(@)]
  /\ latest' = [latest EXCEPT ![n] = None]
  /\ UNCHANGED <<up, starting, cfg, disk, current, seen, clip, dirty, changes,
                 commands, sync, link, chan, created, missed, spent>>

ControlResume(n) ==
  /\ InMainLoop(n) /\ control[n] # <<>> /\ Head(control[n]).op = "Resume"
  /\ control' = [control EXCEPT ![n] = Tail(@)]
  /\ commands' = [commands EXCEPT ![n] = Append(@, [op |-> "Rebaseline"])]
  /\ current' = [current EXCEPT ![n] = None]
  /\ latest' = [latest EXCEPT ![n] = None]
  /\ UNCHANGED <<up, starting, cfg, disk, seen, clip, dirty, changes, sync,
                 link, chan, created, missed, spent>>

\* The one publication that does not look at `paused`.
ControlSyncFiles(n) ==
  /\ InMainLoop(n) /\ control[n] # <<>> /\ Head(control[n]).op = "SyncFiles"
  /\ control' = [control EXCEPT ![n] = Tail(@)]
  /\ commands' = [commands EXCEPT ![n] = Append(@, [op |-> "MarkFilesHandled"])]
  /\ Publish(n, Head(control[n]).payload)
  /\ UNCHANGED <<up, starting, clip, dirty, changes, sync, spent>>

----------------------------------------------------------------------------
(* IPC handlers *)

IpcPause(n) ==
  /\ up[n] /\ Spend("pause")
  /\ Save(n, [cfg[n] EXCEPT !.paused = TRUE])
  /\ control' = [control EXCEPT ![n] = Append(@, [op |-> "Pause"])]
  /\ UNCHANGED <<up, starting, current, latest, seen, clip, dirty, changes,
                 commands, sync, link, chan, created, missed>>

\* A handler whose save fails returns the error: the Config in memory stays as
\* it changed it, config.json as it was, and neither the main loop nor a
\* peer_loop is told.
IpcFails(n, config) ==
  /\ cfg' = [cfg EXCEPT ![n] = config]
  /\ UNCHANGED <<up, starting, disk, current, latest, seen, clip, dirty,
                 changes, commands, control, sync, link, chan, created,
                 missed>>

IpcPauseFails(n) ==
  /\ up[n] /\ Spend("pauseFails")
  /\ IpcFails(n, [cfg[n] EXCEPT !.paused = TRUE])

IpcResume(n) ==
  /\ up[n] /\ Spend("resume")
  /\ Save(n, [cfg[n] EXCEPT !.paused = FALSE])
  /\ control' = [control EXCEPT ![n] = Append(@, [op |-> "Resume"])]
  /\ UNCHANGED <<up, starting, current, latest, seen, clip, dirty, changes,
                 commands, sync, link, chan, created, missed>>

IpcResumeFails(n) ==
  /\ up[n] /\ Spend("resumeFails")
  /\ IpcFails(n, [cfg[n] EXCEPT !.paused = FALSE])

\* The prompt's "Sync clipboard": the handler reads `paused`, then reads the
\* files on another thread, ...
IpcSyncFilesRequest(n) ==
  /\ up[n] /\ ~cfg[n].paused
  /\ \E s \in sync[n] :
       /\ s.stage = "prompt"
       /\ sync' = [sync EXCEPT ![n] = (@ \ {s}) \cup {[s EXCEPT !.stage = "reading"]}]
  /\ UNCHANGED <<up, starting, cfg, disk, current, latest, seen, clip, dirty,
                 changes, commands, control, link, chan, created, missed,
                 spent>>

\* ... and then queues the payload, whatever has happened meanwhile.
IpcSyncFilesQueue(n) ==
  /\ up[n]
  /\ \E s \in sync[n] :
       /\ s.stage = "reading"
       /\ sync' = [sync EXCEPT ![n] = @ \ {s}]
       /\ control' = [control EXCEPT ![n] =
                        Append(@, [op |-> "SyncFiles", payload |-> s.payload])]
  /\ UNCHANGED <<up, starting, cfg, disk, current, latest, seen, clip, dirty,
                 changes, commands, link, chan, created, missed, spent>>

\* The peer is forgotten and a Ping wakes every subscribed peer_loop.
IpcUnpair(n, m) ==
  /\ up[n] /\ m \in cfg[n].peers /\ Spend("unpair")
  /\ Save(n, [cfg[n] EXCEPT !.peers = @ \ {m}])
  /\ link' = [link EXCEPT ![n][m] = IF @ = "live" THEN "closing" ELSE @]
  /\ UNCHANGED <<up, starting, current, latest, seen, clip, dirty, changes,
                 commands, control, sync, chan, created, missed>>

IpcUnpairFails(n, m) ==
  /\ up[n] /\ m \in cfg[n].peers /\ Spend("unpairFails")
  /\ IpcFails(n, [cfg[n] EXCEPT !.peers = @ \ {m}])

----------------------------------------------------------------------------
(* Connections *)

\* The device with the smaller id dials; both ends are authenticated against
\* their configs and have exchanged Hello.
Connect(n, m) ==
  /\ n < m /\ <<n, m>> \in Reach
  /\ up[n] /\ up[m]
  /\ m \in cfg[n].peers /\ n \in cfg[m].peers
  /\ link[n][m] = "down" /\ link[m][n] = "down"
  /\ link' = [link EXCEPT ![n][m] = "hello", ![m][n] = "hello"]
  /\ missed' = missed \ {<<n, m>>, <<m, n>>}
  /\ UNCHANGED <<up, starting, cfg, disk, current, latest, seen, clip, dirty,
                 changes, commands, control, sync, chan, created, spent>>

\* peer_loop: read `latest` and send it, ...
SendLatest(n, m) ==
  /\ link[n][m] = "hello"
  /\ link' = [link EXCEPT ![n][m] = "gap"]
  /\ chan' = IF latest[n] = None THEN chan
             ELSE [chan EXCEPT ![n][m] = Append(@, latest[n])]
  /\ UNCHANGED <<up, starting, cfg, disk, current, latest, seen, clip, dirty,
                 changes, commands, control, sync, created, missed, spent>>

\* ... and only then subscribe to the bus.
Subscribe(n, m) ==
  /\ link[n][m] = "gap"
  /\ link' = [link EXCEPT ![n][m] = "live"]
  /\ UNCHANGED <<up, starting, cfg, disk, current, latest, seen, clip, dirty,
                 changes, commands, control, sync, chan, created, missed,
                 spent>>

\* A connection ends: each direction delivers a prefix of what is on its way.
Hangup(n, m) ==
  /\ link' = [link EXCEPT ![n][m] = "down", ![m][n] = "down"]
  /\ \E i \in 0..Len(chan[n][m]), j \in 0..Len(chan[m][n]) :
       chan' = [chan EXCEPT ![n][m] = SubSeq(@, 1, i), ![m][n] = SubSeq(@, 1, j)]
  /\ UNCHANGED <<up, starting, cfg, disk, current, latest, seen, clip, dirty,
                 changes, commands, control, sync, created, missed>>

\* Also a bus receiver that lagged: it ends the loop the same way.
Drop(n, m) ==
  /\ n < m /\ link[n][m] # "down" /\ Spend("drop")
  /\ Hangup(n, m)

PeerLoopBail(n, m) ==
  /\ link[n][m] = "closing"
  /\ Hangup(n, m)
  /\ UNCHANGED spent

----------------------------------------------------------------------------
(* Crash and restart *)

\* A prefix of what n had on its way survives; all that is in n's memory and
\* all that others had on their way to n is lost.  A save of the main loop that
\* fails ends the daemon before it does anything else, like a crash before that
\* step; one of an IPC handler does not (IpcFails).
Crash(n) ==
  /\ up[n] /\ Spend("crash")
  /\ up' = [up EXCEPT ![n] = FALSE]
  /\ starting' = [starting EXCEPT ![n] = None]
  /\ current' = [current EXCEPT ![n] = None]
  /\ latest' = [latest EXCEPT ![n] = None]
  /\ seen' = [seen EXCEPT ![n] = <<>>]
  /\ changes' = [changes EXCEPT ![n] = <<>>]
  /\ commands' = [commands EXCEPT ![n] = <<>>]
  /\ control' = [control EXCEPT ![n] = <<>>]
  /\ sync' = [sync EXCEPT ![n] = {s \in @ : s.stage = "prompt"}]
  /\ link' = [d \in Device |-> [m \in Device |->
                IF n \in {d, m} THEN "down" ELSE link[d][m]]]
  /\ \E keep \in [Device -> UNION {0..Len(chan[n][m]) : m \in Device}] :
       /\ \A m \in Device : keep[m] <= Len(chan[n][m])
       /\ chan' = [d \in Device |-> [m \in Device |->
                     IF d = n THEN SubSeq(chan[n][m], 1, keep[m])
                     ELSE IF m = n THEN <<>> ELSE chan[d][m]]]
  /\ UNCHANGED <<cfg, disk, clip, dirty, created, missed>>

\* Clipboard::start: what is on the clipboard, files excepted.
InitialPayload(n) ==
  IF clip[n] # None /\ ~clip[n].files THEN clip[n] ELSE None

\* The daemon loads config.json, reads the clipboard and starts its tasks; from
\* here on it accepts connections and IPC requests.
StartLoads(n) ==
  /\ ~up[n]
  /\ up' = [up EXCEPT ![n] = TRUE]
  /\ cfg' = [cfg EXCEPT ![n] = disk[n]]
  /\ dirty' = [dirty EXCEPT ![n] = FALSE]
  /\ starting' = [starting EXCEPT ![n] = InitialPayload(n)]
  /\ UNCHANGED <<disk, current, latest, seen, clip, changes, commands, control,
                 sync, link, chan, created, missed, spent>>

StartPaused(n) ==
  /\ up[n] /\ starting[n] # None
  /\ cfg[n].paused
  /\ starting' = [starting EXCEPT ![n] = None]
  /\ UNCHANGED <<up, cfg, disk, current, latest, seen, clip, dirty, changes,
                 commands, control, sync, link, chan, created, missed, spent>>

\* The loops that have read `latest` already never see the start-up event.
MissedAtStart(n) ==
  {<<n, m>> : m \in {d \in Device : link[n][d] \in {"gap", "live"}}}

\* What it found is a local event, which is not put on the bus: only a peer_loop
\* that reads `latest` later sends it.  (A handler that pauses after `paused` was
\* read and before `latest` is set queues its control message behind all this.)
StartPublishing(n) ==
  /\ up[n] /\ starting[n] # None
  /\ ~cfg[n].paused
  /\ LET clock == increment(cfg[n].clock, n)
         e == NewEvent(n, clock, starting[n])
     IN /\ SaveClock(n, clock)
        /\ created' = created \cup {e}
        /\ remember(n, e.id)
        /\ current' = [current EXCEPT ![n] = e]
        /\ latest' = [latest EXCEPT ![n] = e]
  /\ missed' = missed \cup MissedAtStart(n)
  /\ starting' = [starting EXCEPT ![n] = None]
  /\ UNCHANGED <<up, clip, dirty, changes, commands, control, sync, link, chan,
                 spent>>

----------------------------------------------------------------------------
(* The specification *)

MainLoop(n) ==
  \/ LocalChangeDropped(n)
  \/ LocalChangeFiles(n)
  \/ LocalChangePublished(n)
  \/ \E m \in Device : IncomingDropped(n, m) \/ IncomingAccepted(n, m)
  \/ ControlPause(n)
  \/ ControlResume(n)
  \/ ControlSyncFiles(n)

Pasteboard(n) == BackendPoll(n) \/ BackendCommand(n)

PeerLoops(n, m) ==
  \/ Connect(n, m)
  \/ SendLatest(n, m)
  \/ Subscribe(n, m)
  \/ PeerLoopBail(n, m)

Environment(n) ==
  \/ \E files \in BOOLEAN : UserCopy(n, files)
  \/ BackendSetRaced(n)
  \/ IpcPause(n) \/ IpcPauseFails(n)
  \/ IpcResume(n) \/ IpcResumeFails(n)
  \/ IpcSyncFilesRequest(n)
  \/ \E m \in Device : IpcUnpair(n, m) \/ IpcUnpairFails(n, m)
  \/ \E m \in Device : Drop(n, m)
  \/ Crash(n)

Start(n) == StartLoads(n) \/ StartPaused(n) \/ StartPublishing(n)

Next ==
  \E n \in Device :
    \/ MainLoop(n)
    \/ Pasteboard(n)
    \/ \E m \in Device : PeerLoops(n, m)
    \/ IpcSyncFilesQueue(n)
    \/ Start(n)
    \/ Environment(n)

Spec == Init /\ [][Next]_vars

\* Every task that can run does (tokio's and the system's scheduling; select!
\* picks among the ready branches at random), discovery and the dialling
\* supervisor connect devices that can, and the service manager restarts a
\* daemon that failed.  Nothing is assumed of the environment.
Fairness ==
  \A n \in Device :
    /\ WF_vars(LocalChangeDropped(n) \/ LocalChangeFiles(n)
                 \/ LocalChangePublished(n))
    /\ \A m \in Device : WF_vars(IncomingDropped(n, m) \/ IncomingAccepted(n, m))
    /\ WF_vars(ControlPause(n) \/ ControlResume(n) \/ ControlSyncFiles(n))
    /\ WF_vars(BackendPoll(n))
    /\ WF_vars(BackendCommand(n))
    /\ \A m \in Device : WF_vars(PeerLoops(n, m))
    /\ WF_vars(IpcSyncFilesQueue(n))
    /\ WF_vars(Start(n))

FairSpec == Spec /\ Fairness

----------------------------------------------------------------------------
(* Safety *)

\* No clock anywhere (in memory, on disk, in an event) knows more events of
\* device m than m's config.json accounts for, so a daemon that restarts from
\* it cannot number an event as one already out there (config.rs: "Prevents
\* sequence reuse after restart").
NothingAheadOfDisk ==
  \A m \in Device :
    /\ \A n \in Device : /\ cfg[n].clock[m] <= disk[m].clock[m]
                         /\ disk[n].clock[m] <= disk[m].clock[m]
    /\ \A e \in created : e.clock[m] <= disk[m].clock[m]

\* Two different events never have the same origin and sequence number,
\* whatever crashes: the clock is on disk before the event exists
\* (publish_local_payload, and the start-up publication of run).
SequenceUnique ==
  \A e, f \in created :
    e.origin = f.origin /\ e.sequence = f.sequence => e = f

\* What SequenceUnique rests on besides: the clock on file is the one in memory
\* (the rest of the Config may differ, after a handler whose save failed), an
\* event passes its own validation, and a clock covers the event its device
\* holds.
ClockSaved == \A n \in Device : disk[n].clock = cfg[n].clock

EventsValid == \A e \in created : Valid(e)

CurrentCovered ==
  \A n \in Device : current[n] # None => Leq(current[n].clock, cfg[n].clock)

\* The inductive invariant of the clocks.
ClockInv ==
  /\ TypeOK
  /\ ClockSaved
  /\ NothingAheadOfDisk
  /\ EventsValid
  /\ SequenceUnique
  /\ CurrentCovered

\* No daemon is starting, no connection is being set up, ended or still
\* delivering, and all trust.
NetworkQuiet ==
  \A n, m \in Device :
    /\ starting[n] = None
    /\ chan[n][m] = <<>>
    /\ n # m => m \in cfg[n].peers
    /\ n # m /\ Linked(n, m) => link[n][m] = "live"

\* Nothing is left for the tasks of device n to do.
DeviceQuiet(n) ==
  /\ up[n] /\ ~dirty[n]
  /\ changes[n] = <<>> /\ commands[n] = <<>> /\ control[n] = <<>>

\* Connected daemons that have exchanged all they sent hold the same event,
\* however their copies, losses, restarts, reconnections and unsaved unpairings
\* interleaved, as long as no event was made after a peer_loop had read `latest`
\* that this loop was not sent (before it subscribed to the bus, or at any time
\* if it is the event of the daemon's start), no daemon was paused (it discards
\* events) or resumed (it forgets the one it holds), and not both were files
\* copied and a daemon restarted (one that finds files on its clipboard holds
\* nothing, and takes no event of its own back from a peer).
AgreeWhenQuiet ==
  /\ NetworkQuiet /\ missed = {}
  /\ spent["pause"] = 0 /\ spent["pauseFails"] = 0 /\ spent["resume"] = 0
  /\ spent["crash"] = 0 \/ spent["copyFiles"] = 0
  => \A n, m \in Device : current[n] = current[m]

\* The same without the exception for those events (README.md:
\* "Concurrent copies converge", "Latest in-memory event is sent when a peer
\* reconnects").
AgreeWhenConnected ==
  NetworkQuiet => \A n, m \in Device : current[n] = current[m]

\* A device left in peace shows what it holds to be current, when that came
\* from a peer: no interleaving of the user, the pasteboard thread and the
\* main loop leaves another content on its clipboard, but one its own user
\* copied and no event carries (dropped while paused, files not synced, a copy
\* taken for the thread's own write).
RemoteCurrentIsShown ==
  \A n \in Device :
    DeviceQuiet(n) /\ current[n] # None =>
      \/ current[n].origin = n
      \/ clip[n] = current[n].payload
      \/ clip[n] # None /\ clip[n].by = n /\ \A e \in created : e.payload # clip[n]

\* The same of whatever it holds to be current: what every device agrees on is
\* what every clipboard shows (README.md: "Concurrent copies converge").
CurrentIsShown ==
  \A n \in Device :
    DeviceQuiet(n) /\ current[n] # None => clip[n] = current[n].payload

\* A paused daemon that has handled its control messages holds no event that a
\* peer connecting now would be sent (README.md: "Pause discards events"),
\* unless a pause could not be saved: its handler sends no control message.
PausedHoldsNothing ==
  spent["pauseFails"] = 0 =>
    \A n \in Device :
      cfg[n].paused /\ control[n] = <<>> => latest[n] = None

\* The same without the exception.
PausedEvenUnsaved ==
  \A n \in Device :
    cfg[n].paused /\ control[n] = <<>> => latest[n] = None

\* What is copied while sync is paused is never published (README.md: "resume
\* takes a new baseline and does not replay old content").
PausedCopyNeverPublished == \A e \in created : ~e.payload.paused

----------------------------------------------------------------------------
(* Action properties *)

\* A local publication replaces, on every device that knows what it replaces,
\* the event the publisher held: the publisher's clock has taken in every event
\* it ever held.
LocalCopyBeatsCurrent ==
  [][\A n \in Device : \A e \in created' \ created :
       e.origin = n /\ current[n] # None => Beats(e, current[n])]_vars

\* What a peer's event put on the clipboard is never taken for a local copy by
\* a running daemon: it is not published again and opens no prompt (README.md:
\* "The receiver should not open another confirmation popup").  Only a daemon
\* that starts publishes what it finds, whoever copied it.
NoEcho ==
  [][\A n \in Device : InMainLoop(n) =>
       /\ \A e \in created' \ created : e.origin = n => e.payload.by = n
       /\ \A s \in sync'[n] : s.payload.by = n]_vars

\* config.json's clock never goes back, over crashes and restarts.
DiskClockGrows ==
  [][\A n \in Device : Leq(disk[n].clock, disk'[n].clock)]_vars

\* Once a peer is unpaired nothing more is sent to it, but for the `latest` of
\* a peer_loop that was about to send it.
UnpairedGetsNothingNew ==
  [][\A n, m \in Device :
       Len(chan'[n][m]) > Len(chan[n][m]) /\ m \notin cfg[n].peers =>
         link[n][m] = "hello"]_vars

----------------------------------------------------------------------------
(* Liveness *)

\* Every event reaches every daemon, directly or through others.
EventReachesAll ==
  \A n \in Device, id \in UNION {1..b["copy"] : b \in Budgets} :
    (\E e \in created : e.id = id) ~> Seen(n, id)

\* Forwarding comes to an end (README.md: "Duplicate suppression prevents sync
\* loops").
ForwardingEnds == <>[](\A n, m \in Device : chan[n][m] = <<>>)

=============================================================================
