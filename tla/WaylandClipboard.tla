--------------------------- MODULE WaylandClipboard ---------------------------
(***************************************************************************)
(* The clipboard thread on Wayland (clipboard/wayland.rs).  It writes what *)
(* the daemon tells it to, and tells the daemon what others copied.  There *)
(* is no count of changes to tell its own writes by, as on macOS: it goes  *)
(* by what is in the clipboard, against the last it read, wrote or was     *)
(* told to leave alone.  That something changed it learns from a child     *)
(* process, wl-paste --watch, later and at times never; without the child  *)
(* it looks every two seconds.                                             *)
(*                                                                         *)
(* The clipboard is in the compositor's hands: users copy at any time, but *)
(* not while the thread is in the middle of a read.  Texts stand for all   *)
(* that is not files.                                                      *)
(***************************************************************************)
EXTENDS Naturals, Sequences

CONSTANTS
  None,     \* Rust's Option::None
  Budgets   \* scenarios: how often users, peers and failures may do what

EnvironmentKind ==
  {"copyText", "copyFiles", "setText", "setFiles", "again", "mark", "rebaseline",
   "watcherEnds", "readFails", "writeFails"}

ASSUME BudgetsAssumption == Budgets \subseteq [EnvironmentKind -> Nat]

\* A payload, its digest, or the paths of its files: each copy of a user, and
\* each event of a peer, has one of its own; 0 is there before the daemon.  A
\* text some formats of which could not be read has another digest.
Texts == [by : {"user", "peer"}, files : {FALSE}, no : Nat, whole : BOOLEAN]
Files == [by : {"user", "peer"}, files : {TRUE}, no : Nat, whole : {TRUE}]
Content == Texts \cup Files
MaybeContent == Content \cup {None}
Command == [op : {"Set"}, content : Content] \cup [op : {"MarkFilesHandled"}, content : Files]
             \cup [op : {"Rebaseline"}]

VARIABLES
  thread,     \* the variables of the thread
  commands,   \* the queue of the daemon's commands
  selection,  \* compositor: what is in the clipboard
  watch,      \* the child: whether a change, or its end, is on its way
  reported,   \* what the daemon has been told of
  dropped,    \* history: what was there when the daemon resumed
  forgotten,  \* history: what the thread, by its own doing, no longer knows
  spent       \* how often the environment has done what

vars == <<thread, commands, selection, watch, reported, dropped, forgotten, spent>>

Thread ==
  [baseline : Texts \cup {None}, baseline_files : Files \cup {None},
   injected : MaybeContent, injected_files : Files \cup {None},
   handled_files : Files \cup {None}, watcher_active : BOOLEAN]

TypeOK ==
  /\ thread \in Thread
  /\ commands \in Seq(Command)
  /\ selection \in MaybeContent
  /\ watch \in [selection : {"no", "seen", "sent"}, child : {"alive", "ended", "known"}]
  /\ reported \subseteq Content
  /\ dropped \subseteq MaybeContent
  /\ forgotten \subseteq MaybeContent
  /\ spent \in [EnvironmentKind -> Nat]

TextOf(content) == IF content # None /\ ~content.files THEN content ELSE None
FilesOf(content) == IF content # None /\ content.files THEN content ELSE None

\* What is there at the start is the initial payload, unless it is files or could
\* not be read; the child says what is there when it starts.
Init ==
  /\ selection \in {None} \cup [by : {"user"}, files : BOOLEAN, no : {0}, whole : {TRUE}]
  /\ \E found \in {None, selection} :
       thread = [baseline |-> TextOf(found), baseline_files |-> FilesOf(found),
                 injected |-> None, injected_files |-> None, handled_files |-> None,
                 watcher_active |-> TRUE]
  /\ commands = <<>>
  /\ watch = [selection |-> IF selection = None THEN "no" ELSE "seen", child |-> "alive"]
  /\ reported = {}
  /\ dropped = {selection}
  /\ forgotten = {}
  /\ spent = [kind \in EnvironmentKind |-> 0]

Spend(kind) ==
  /\ spent' = [spent EXCEPT ![kind] = @ + 1]
  /\ \E b \in Budgets : \A k \in EnvironmentKind : spent'[k] <= b[k]

----------------------------------------------------------------------------
(* The clipboard and the child that watches it *)

Shows(content) ==
  /\ selection' = content
  /\ watch' = IF watch.child = "alive" THEN [watch EXCEPT !.selection = "seen"] ELSE watch

New(who, files) ==
  [by |-> who, files |-> files, whole |-> TRUE,
   no |-> 1 + spent["copyText"] + spent["copyFiles"] + spent["setText"] + spent["setFiles"]]

UserCopies(files) ==
  /\ Shows(New("user", files))
  /\ Spend(IF files THEN "copyFiles" ELSE "copyText")
  /\ UNCHANGED <<thread, commands, reported, dropped, forgotten>>

\* ... what there has been before: the baseline, or what has been reported.
UserCopiesAgain(content) ==
  /\ content \in (reported \cup {thread.baseline}) \ {None, selection}
  /\ Shows(content)
  /\ Spend("again")
  /\ UNCHANGED <<thread, commands, reported, dropped, forgotten>>

\* The child prints a byte for each change.
WatcherPrints ==
  /\ watch.selection = "seen"
  /\ watch' = [watch EXCEPT !.selection = "sent"]
  /\ UNCHANGED <<thread, commands, selection, reported, dropped, forgotten, spent>>

WatcherEnds ==
  /\ watch.child = "alive"
  /\ watch' = [selection |-> IF watch.selection = "sent" THEN "sent" ELSE "no", child |-> "ended"]
  /\ Spend("watcherEnds")
  /\ UNCHANGED <<thread, commands, selection, reported, dropped, forgotten>>

----------------------------------------------------------------------------
(* The daemon *)

Orders(command) ==
  /\ commands' = Append(commands, command)
  /\ UNCHANGED <<thread, selection, watch, reported, dropped, forgotten>>

\* An event of a peer replaces what the daemon has.
SetPayload(files) ==
  /\ Orders([op |-> "Set", content |-> New("peer", files)])
  /\ Spend(IF files THEN "setFiles" ELSE "setText")

\* The user has chosen to share files the daemon asked about.
MarkFilesHandled(content) ==
  /\ content \in reported /\ content.files
  /\ Orders([op |-> "MarkFilesHandled", content |-> content])
  /\ Spend("mark")

\* The user resumes.
Rebaseline == Orders([op |-> "Rebaseline"]) /\ Spend("rebaseline")

----------------------------------------------------------------------------
(* The thread: a command *)

NextIs(op) == commands # <<>> /\ Head(commands).op = op
Takes(t) == thread' = t /\ commands' = Tail(commands) /\ UNCHANGED reported

Set(t, content) == [t EXCEPT !.injected = content, !.injected_files = FilesOf(content)]

SetWritten ==
  /\ NextIs("Set")
  /\ Shows(Head(commands).content)
  /\ Takes(Set(thread, Head(commands).content))
  /\ UNCHANGED <<dropped, forgotten, spent>>

SetFails ==
  /\ NextIs("Set")
  /\ Takes(thread)
  /\ Spend("writeFails")
  /\ UNCHANGED <<selection, watch, dropped, forgotten>>

\* A text it has put there and not read yet is forgotten, and a peer's files are.
FilesHandled ==
  /\ NextIs("MarkFilesHandled")
  /\ LET paths == Head(commands).content
     IN Takes([thread EXCEPT !.baseline_files = paths, !.injected_files = paths,
                             !.handled_files = paths, !.injected = None])
  /\ forgotten' = forgotten \cup ({selection} \ {thread.baseline})
  /\ UNCHANGED <<selection, watch, dropped, spent>>

\* Mutant: only files are read.
RebaselinedFiles(t, content) ==
  [t EXCEPT !.baseline_files = FilesOf(content), !.injected = None, !.injected_files = None]

Rebaselined(t, content) ==
  [t EXCEPT !.baseline_files = FilesOf(content), !.baseline = TextOf(content),
            !.injected = None, !.injected_files = None]

TakesRebaseline(content) ==
  /\ NextIs("Rebaseline")
  /\ Takes(Rebaselined(thread, content))
  /\ dropped' = dropped \cup {selection}
  /\ UNCHANGED <<selection, watch>>

\* Files are known by their paths until the next change is read.
TakeRebaseline ==
  /\ TakesRebaseline(selection)
  /\ forgotten' = forgotten \cup ({FilesOf(selection)} \ {None})
  /\ UNCHANGED spent

\* What a read that fails finds: nothing, or what formats of a text it could read.
Misread(content) ==
  {None} \cup (IF TextOf(content) = None THEN {} ELSE {[content EXCEPT !.whole = FALSE]})

TakeRebaselineMisread ==
  /\ selection # None
  /\ \E content \in Misread(selection) : TakesRebaseline(content)
  /\ forgotten' = forgotten \cup {selection}
  /\ Spend("readFails")

TakeCommand ==
  SetWritten \/ SetFails \/ FilesHandled \/ TakeRebaseline \/ TakeRebaselineMisread

----------------------------------------------------------------------------
(* The thread: a change *)

Drained == [watch EXCEPT !.selection = IF @ = "sent" THEN "no" ELSE @,
                         !.child = IF @ = "ended" THEN "known" ELSE @]
ActiveAfter(t) == [t EXCEPT !.watcher_active = @ /\ Drained.child # "known"]

\* Mutant: any text is taken for the daemon's own while one is awaited.
IsInjectedAny(t, content) == t.injected # None
IsInjected(t, content) == t.injected = content

\* The thread has read a text.
ReadText(t, content) ==
  LET seen == [t EXCEPT !.baseline_files = None, !.handled_files = None]
  IN /\ thread' = IF t.baseline = content THEN seen
                  ELSE [seen EXCEPT !.baseline = content, !.injected_files = None, !.injected = None]
     /\ reported' = IF t.baseline = content \/ IsInjected(t, content) THEN reported
                    ELSE reported \cup {content}

\* The thread has read the paths of files; `changed`: the child said so.
ReadFiles(t, content, changed) ==
  LET known == content = t.handled_files \/ content = t.baseline_files
      seen == [t EXCEPT !.baseline_files = content, !.baseline = None, !.handled_files = None]
  IN IF ~changed /\ known THEN thread' = t /\ UNCHANGED reported
     ELSE IF content = t.injected_files THEN thread' = seen /\ UNCHANGED reported
     ELSE /\ thread' = [seen EXCEPT !.injected = None]
          /\ reported' = IF t.injected # None THEN reported ELSE reported \cup {content}

Reads(content, changed) ==
  /\ watch' = Drained
  /\ IF content = None THEN thread' = ActiveAfter(thread) /\ UNCHANGED reported
     ELSE IF content.files THEN ReadFiles(ActiveAfter(thread), content, changed)
     ELSE ReadText(ActiveAfter(thread), content)
  /\ UNCHANGED <<commands, selection, dropped>>

Read(changed) == Reads(selection, changed) /\ UNCHANGED <<forgotten, spent>>

SelectionRead ==
  /\ watch.selection = "sent"
  /\ Read(TRUE)

Polls == Drained.child = "known"

\* FALLBACK_POLL is over and there is no child any more.
FallbackRead ==
  /\ watch.selection # "sent" /\ Polls
  /\ Read(FALSE)

\* What the child told of is lost, or taken for what could be read of it: without
\* another change, or the poll, nothing reads it again.
ReadFails ==
  /\ watch.selection = "sent" \/ Polls
  /\ \E content \in Misread(selection) :
       /\ Reads(content, watch.selection = "sent")
       /\ forgotten' = IF content = None THEN forgotten ELSE forgotten \cup {content, selection}
  /\ Spend("readFails")

Look == SelectionRead \/ FallbackRead

Next ==
  \/ \E files \in BOOLEAN : UserCopies(files) \/ SetPayload(files)
  \/ \E content \in reported \cup {thread.baseline} : UserCopiesAgain(content)
  \/ WatcherPrints \/ WatcherEnds
  \/ \E content \in reported : MarkFilesHandled(content)
  \/ Rebaseline
  \/ TakeCommand
  \/ Look \/ ReadFails

Spec == Init /\ [][Next]_vars

\* The thread goes round its loop at least every 250 ms; the child prints.
FairSpec == Spec /\ WF_vars(TakeCommand) /\ WF_vars(Look) /\ WF_vars(WatcherPrints)

----------------------------------------------------------------------------
(* Properties *)

\* What peers sent, and the thread put into the clipboard, it does not report as
\* a copy, which would be published or asked about again: not when a user's copy
\* comes between its writing and its reading, nor after a resume, nor without the
\* child.  Left out is what the thread gave up what it knew it by, and only that:
\* the files that were there when the user resumed, whatever was there at a resume
\* that could not read it or as the user shared files, and a text of which only
\* some formats could be read.
NoEcho == \A content \in reported : content.by = "user" \/ content \in forgotten

IsNews(content) == content # None /\ content.by = "user" /\ content.no > 0

\* A text that a user copies and that stays is reported, whatever peers sent
\* shortly before, with the child or without, unless reading it failed or the
\* user resumed when it was there.
CopiesAreReported ==
  []<>(IsNews(selection) /\ ~selection.files /\ spent["readFails"] = 0
         => selection \in reported \cup dropped)

----------------------------------------------------------------------------
(* What the code does not keep; see the README *)

\* The same of files.
CopiedFilesAreReported ==
  []<>(IsNews(selection) /\ selection.files => selection \in reported \cup dropped)

\* NoEcho without what is left out.
NeverEchoes == \A content \in reported : content.by = "user"
=============================================================================
