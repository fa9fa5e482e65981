-------------------------- MODULE MCClipboardSync --------------------------
(***************************************************************************)
(* Instances of ClipboardSync for TLC: who is there, who reaches whom and  *)
(* what the environment may do.                                            *)
(***************************************************************************)
EXTENDS ClipboardSync, TLC

Two == {1, 2}
Three == {1, 2, 3}
Four == {1, 2, 3, 4}

PairReach == {<<1, 2>>}
\* Everybody reaches 1, the smallest id.
StarReach == {<<1, 2>>, <<1, 3>>}
\* 2, 3 and 4 reach each other and 1 reaches 2: a cycle that leaves out 1, which
\* drops its own events when they come back.
LassoReach == {<<1, 2>>, <<2, 3>>, <<3, 4>>, <<2, 4>>}

NoBudget == [k \in EnvironmentKind |-> 0]

\* Text copied, connections lost, daemons crashed.
Faults == ("copy" :> 2 @@ "drop" :> 1 @@ "crash" :> 1) @@ NoBudget
\* Text copied only.
Copy1 == ("copy" :> 1) @@ NoBudget
Copies3 == ("copy" :> 3) @@ NoBudget
\* Everything users do except pausing, and lost connections.
Users == ("copy" :> 1 @@ "copyFiles" :> 1 @@ "race" :> 1 @@ "unpair" :> 1
            @@ "drop" :> 1) @@ NoBudget
\* Pausing and resuming, with crashes.
Pauses == ("copy" :> 1 @@ "pause" :> 2 @@ "resume" :> 1 @@ "crash" :> 1) @@ NoBudget
\* Handlers whose save fails, and a crash that brings back what is on disk.
Unsaved == ("copy" :> 1 @@ "pause" :> 1 @@ "pauseFails" :> 1 @@ "resumeFails" :> 1
              @@ "unpairFails" :> 1 @@ "crash" :> 1) @@ NoBudget
\* A pause and a resume between copies.
Resumes == ("copy" :> 1 @@ "pause" :> 1 @@ "resume" :> 1) @@ NoBudget
\* Copied files and a pause.
PausedFiles == ("copyFiles" :> 1 @@ "pause" :> 1) @@ NoBudget
\* Text copied and a daemon crashed.
CopyAndCrash == ("copy" :> 1 @@ "crash" :> 1) @@ NoBudget
\* Text and files copied, and a daemon crashed.
CopiesAndCrash == ("copy" :> 1 @@ "copyFiles" :> 1 @@ "crash" :> 1) @@ NoBudget

\* The scenarios of each run.
TwoDevices == {Faults, Users, Pauses, Unsaved, Copies3}
OneCopy == {Copy1}
ThreeCopies == {Copies3}
PauseAndResume == {Resumes}
PauseOverFiles == {PausedFiles}
TextAndCrash == {CopyAndCrash}
UnsavedPause == {Unsaved}
FilesAndCrash == {CopiesAndCrash}
=============================================================================
