-------------------------------- MODULE Pairing --------------------------------
(***************************************************************************)
(* `lan-cat pair` on several devices (network.rs: pair_interactive,        *)
(* pair_stream), beside the daemons that may be started meanwhile.  Each   *)
(* process publishes itself, dials a device of a larger id or takes a      *)
(* device that dials it, shakes hands, asks its user whether the codes     *)
(* agree, exchanges the answers, and saves the config it loaded first with *)
(* the other device in it.                                                 *)
(***************************************************************************)
EXTENDS Naturals, Sequences

CONSTANTS
  Device,      \* device ids, which are compared
  None,        \* nothing
  MaxStreams,  \* bound: connections that are made
  Budgets      \* scenarios: how often a user does what, each

ASSUME DeviceAssumption == Device \subseteq Nat
ASSUME NoneAssumption == None \notin {"yes", "no"}
ASSUME MaxStreamsAssumption == MaxStreams \in Nat

\* A user opens a pairing window; a daemon starts; a copy; an unpairing.
UserKind == {"open", "daemon", "copy", "unpair"}

ASSUME BudgetsAssumption == Budgets \subseteq [UserKind -> Nat]

VARIABLES
  config,   \* config.json
  process,  \* `lan-cat pair`
  daemon,   \* the daemon's copy of config.json, while it runs
  streams,  \* all connections there were, in order
  spent     \* how often the users have done what

vars == <<config, process, daemon, streams, spent>>

\* `clock` counts what the device has published.
Config == [peers : SUBSET Device, clock : Nat]

\* `loaded` is config.json as it was when the window opened.
Process == [stage : {"open", "handshake", "asked", "waits"}, loaded : Config, stream : 1..MaxStreams \cup {0}]

ASSUME NoProcessAssumption == None \notin Process

\* `messages` of the handshake there were, the answers, who has closed its end,
\* and who closed it having answered, without the other's answer.
Stream == [from : Device, to : Device, accepted : BOOLEAN, messages : 1..3,
           said : [Device -> {"yes", "no", None}], closed : SUBSET Device, gaveUp : SUBSET Device]

TypeOK ==
  /\ config \in [Device -> Config]
  /\ process \in [Device -> Process \cup {None}]
  /\ daemon \in [Device -> Config \cup {None}]
  /\ streams \in Seq(Stream) /\ Len(streams) <= MaxStreams
  /\ spent \in [UserKind -> Nat]

Init ==
  /\ config = [n \in Device |-> [peers |-> {}, clock |-> 0]]
  /\ process = [n \in Device |-> None]
  /\ daemon = [n \in Device |-> None]
  /\ streams = <<>>
  /\ spent = [kind \in UserKind |-> 0]

Spend(kind) ==
  /\ spent' = [spent EXCEPT ![kind] = @ + 1]
  /\ \E b \in Budgets : \A k \in UserKind : spent'[k] <= b[k]

At(n, stage) == process[n] # None /\ process[n].stage = stage
StreamOf(n) == streams[process[n].stream]
Other(n) == IF StreamOf(n).from = n THEN StreamOf(n).to ELSE StreamOf(n).from

\* n goes on to a stage, in stream s.
Reaches(n, stage, s) == process' = [process EXCEPT ![n].stage = stage, ![n].stream = s]

\* The process ends: its listener, with what waits there, and its stream close.
Ends(n) ==
  /\ process' = [process EXCEPT ![n] = None]
  /\ streams' = [s \in DOMAIN streams |->
       IF s = process[n].stream \/ (streams[s].to = n /\ ~streams[s].accepted)
       THEN [streams[s] EXCEPT
               !.closed = @ \cup {n},
               !.gaveUp = IF streams[s].said[n] # None THEN @ \cup {n} ELSE @]
       ELSE streams[s]]

----------------------------------------------------------------------------
(* pair_interactive and pair_stream *)

\* The daemon is looked for once, and config.json is loaded.
Open(n) ==
  /\ process[n] = None /\ daemon[n] = None
  /\ process' = [process EXCEPT ![n] = [stage |-> "open", loaded |-> config[n], stream |-> 0]]
  /\ Spend("open")
  /\ UNCHANGED <<config, daemon, streams>>

\* A window of a larger id was found. It may have taken another device already:
\* then the connection waits in its listener.
Connect(n, m) ==
  /\ At(n, "open") /\ n < m /\ process[m] # None
  /\ Len(streams) < MaxStreams
  /\ streams' = Append(streams, [from |-> n, to |-> m, accepted |-> FALSE, messages |-> 1,
                                 said |-> [d \in Device |-> None], closed |-> {}, gaveUp |-> {}])
  /\ Reaches(n, "handshake", Len(streams) + 1)
  /\ UNCHANGED <<config, daemon, spent>>

\* One connection a window, whichever comes first.
Accept(m, s) ==
  /\ At(m, "open") /\ s \in DOMAIN streams
  /\ streams[s].to = m /\ ~streams[s].accepted /\ m \notin streams[s].closed
  /\ streams' = [streams EXCEPT ![s].accepted = TRUE, ![s].messages = 2]
  /\ Reaches(m, "handshake", s)
  /\ UNCHANGED <<config, daemon, spent>>

\* The handshake has come to the message n waits for.
HasMessage(n) == StreamOf(n).messages = (IF StreamOf(n).from = n THEN 2 ELSE 3)

\* The one who dialled is asked when it has sent its identity, the other when it
\* has received it.
Asked(n) ==
  /\ At(n, "handshake") /\ HasMessage(n)
  /\ streams' = [streams EXCEPT ![process[n].stream].messages = 3]
  /\ Reaches(n, "asked", process[n].stream)
  /\ UNCHANGED <<config, daemon, spent>>

Answers(n, answer) ==
  /\ At(n, "asked")
  /\ streams' = [streams EXCEPT ![process[n].stream].said[n] = answer]
  /\ Reaches(n, "waits", process[n].stream)
  /\ UNCHANGED <<config, daemon, spent>>

\* Mutant: what the other's user says is enough.
AgreedByOther(n) == StreamOf(n).said[Other(n)] = "yes"
\* Mutant: what the device's own user says is enough.
AgreedByOwn(n) == StreamOf(n).said[n] = "yes"
Agreed(n) == StreamOf(n).said[n] = "yes" /\ StreamOf(n).said[Other(n)] = "yes"

\* The other's answer is there.
Completes(n) ==
  /\ At(n, "waits") /\ StreamOf(n).said[Other(n)] # None
  /\ config' = IF Agreed(n)
               THEN [config EXCEPT ![n] = [process[n].loaded EXCEPT !.peers = @ \cup {Other(n)}]]
               ELSE config
  /\ process' = [process EXCEPT ![n] = None]
  /\ streams' = [streams EXCEPT ![process[n].stream].closed = @ \cup {n}]
  /\ UNCHANGED <<daemon, spent>>

\* What it reads next will not come: the other has closed its end.
Fails(n) ==
  /\ At(n, "handshake") \/ At(n, "waits")
  /\ Other(n) \in StreamOf(n).closed
  /\ IF At(n, "waits") THEN StreamOf(n).said[Other(n)] = None ELSE ~HasMessage(n)
  /\ Ends(n)
  /\ UNCHANGED <<config, daemon, spent>>

\* The window's two minutes or the pairing's sixty seconds are over, counted by
\* each for itself, or the process is killed.
GivesUp(n) ==
  /\ process[n] # None
  /\ Ends(n)
  /\ UNCHANGED <<config, daemon, spent>>

----------------------------------------------------------------------------
(* The daemons *)

\* Nothing keeps a daemon from starting while a window is open.
DaemonStarts(n) ==
  /\ daemon[n] = None
  /\ daemon' = [daemon EXCEPT ![n] = config[n]]
  /\ Spend("daemon")
  /\ UNCHANGED <<config, process, streams>>

DaemonStops(n) ==
  /\ daemon[n] # None
  /\ daemon' = [daemon EXCEPT ![n] = None]
  /\ UNCHANGED <<config, process, streams, spent>>

\* The daemon saves its own copy, whole.
DaemonSaves(n, changed) ==
  /\ daemon' = [daemon EXCEPT ![n] = changed]
  /\ config' = [config EXCEPT ![n] = changed]
  /\ UNCHANGED <<process, streams>>

Copies(n) ==
  /\ daemon[n] # None
  /\ DaemonSaves(n, [daemon[n] EXCEPT !.clock = @ + 1])
  /\ Spend("copy")

Unpair(n, m) ==
  /\ daemon[n] # None /\ m \in daemon[n].peers
  /\ DaemonSaves(n, [daemon[n] EXCEPT !.peers = @ \ {m}])
  /\ Spend("unpair")

----------------------------------------------------------------------------
Pair(n) ==
  \/ Open(n) \/ (\E m \in Device : Connect(n, m)) \/ (\E s \in 1..MaxStreams : Accept(n, s))
  \/ Asked(n) \/ (\E answer \in {"yes", "no"} : Answers(n, answer))
  \/ Completes(n) \/ Fails(n) \/ GivesUp(n)

Daemon(n) ==
  \/ DaemonStarts(n) \/ DaemonStops(n) \/ Copies(n) \/ (\E m \in Device : Unpair(n, m))

Next == \E n \in Device : Pair(n) \/ Daemon(n)

Spec == Init /\ [][Next]_vars

----------------------------------------------------------------------------
(* Properties *)

Between(n, m) == {s \in DOMAIN streams : {streams[s].from, streams[s].to} = {n, m}}

\* Who is trusted was confirmed by both users, over one connection: whatever
\* connections three windows make with each other, and whatever a daemon saves.
PairedByBoth ==
  \A n \in Device : \A m \in config[n].peers :
    \E s \in Between(n, m) : streams[s].said[n] = "yes" /\ streams[s].said[m] = "yes"

\* Trust is mutual once both windows are closed, but with a device that gave up
\* having said yes, or a daemon that ran beside its window.
TrustIsMutual ==
  \A n, m \in Device :
    m \in config[n].peers /\ process[n] = None /\ process[m] = None =>
      \/ n \in config[m].peers
      \/ \E s \in Between(n, m) : m \in streams[s].gaveUp
      \/ spent["daemon"] > 0

----------------------------------------------------------------------------
(* What the code does not keep; see the README *)

\* A device that trusts another is trusted by it.
TrustIsAlwaysMutual ==
  \A n, m \in Device :
    m \in config[n].peers /\ process[n] = None /\ process[m] = None => n \in config[m].peers

\* Pairing leaves what config.json says of the clock, and who was unpaired, as it
\* is.
PairingOnlyAddsPeers ==
  [][\A n \in Device : process[n] # None /\ process'[n] = None =>
       config'[n].clock = config[n].clock /\ config[n].peers \subseteq config'[n].peers]_vars
=============================================================================
