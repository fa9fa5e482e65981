---------------------------- MODULE ConfigRename ----------------------------
(***************************************************************************)
(* `lan-cat name <new>` beside a daemon that runs (main.rs, Command::Name): *)
(* another process that loads the whole of config.json, changes the name   *)
(* and saves the whole of it, while the daemon, which read the file once   *)
(* when it started, goes on saving what it has in memory.                  *)
(***************************************************************************)
EXTENDS ClipboardSync

VARIABLES
  stage,   \* of the one rename per device: "ready", "loaded", "done"
  held     \* the Config the command has loaded

renameVars == <<vars, stage, held>>

InitRename ==
  /\ Init
  /\ stage = [n \in Device |-> "ready"]
  /\ held = disk

CliLoad(n) ==
  /\ stage[n] = "ready"
  /\ stage' = [stage EXCEPT ![n] = "loaded"]
  /\ held' = [held EXCEPT ![n] = disk[n]]
  /\ UNCHANGED vars

\* set_name and save: names are numbered, 1 is the new one.
CliSave(n) ==
  /\ stage[n] = "loaded"
  /\ stage' = [stage EXCEPT ![n] = "done"]
  /\ disk' = [disk EXCEPT ![n] = [held[n] EXCEPT !.name = 1]]
  /\ UNCHANGED <<held, up, starting, cfg, current, latest, seen, clip, dirty,
                 changes, commands, control, sync, link, chan, created, missed,
                 spent>>

NextRename ==
  \/ Next /\ UNCHANGED <<stage, held>>
  \/ \E n \in Device : CliLoad(n) \/ CliSave(n)

SpecRename == InitRename /\ [][NextRename]_renameVars

\* Once the command has ended the name on disk is the new one (README.md:
\* "`lan-cat name <new-device-name>` stores a printable 1..63 character name").
RenameIsKept == \A n \in Device : stage[n] = "done" => disk[n].name = 1
=============================================================================
