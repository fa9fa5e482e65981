-------------------------- MODULE MCWaylandClipboard --------------------------
(***************************************************************************)
(* Instances of WaylandClipboard for TLC.                                  *)
(***************************************************************************)
EXTENDS WaylandClipboard, TLC

Only(kinds) == [k \in EnvironmentKind |-> IF k \in DOMAIN kinds THEN kinds[k] ELSE 0]

\* Texts of peers and users, and one copied a second time; files of both; the
\* child ends; resumes, with files too; files that are shared; reading or writing
\* fails, when the user resumes too.
CopyTexts == Only("copyText" :> 2 @@ "setText" :> 2 @@ "again" :> 1 @@ "watcherEnds" :> 1)
CopyFiles == Only("copyText" :> 1 @@ "copyFiles" :> 1 @@ "setText" :> 1 @@ "setFiles" :> 2
              @@ "watcherEnds" :> 1)
Resumes == Only("copyText" :> 2 @@ "copyFiles" :> 1 @@ "setText" :> 1 @@ "rebaseline" :> 1
                @@ "watcherEnds" :> 1)
ResumesFiles == Only("copyText" :> 1 @@ "setText" :> 1 @@ "setFiles" :> 1 @@ "rebaseline" :> 1
                     @@ "again" :> 1)
Shares == Only("copyFiles" :> 1 @@ "copyText" :> 1 @@ "setText" :> 2 @@ "mark" :> 1)
Failures == Only("copyText" :> 2 @@ "setText" :> 2 @@ "readFails" :> 1 @@ "writeFails" :> 1)
Misreads == Only("copyText" :> 1 @@ "setText" :> 2 @@ "rebaseline" :> 1 @@ "readFails" :> 1
                 @@ "again" :> 1 @@ "watcherEnds" :> 1)
AllScenarios == {CopyTexts, CopyFiles, Resumes, ResumesFiles, Shares, Failures, Misreads}

ReceivesAndMisreads == {Only("setText" :> 1 @@ "rebaseline" :> 1 @@ "readFails" :> 1)}
ReceivesThenCopies == {Only("setFiles" :> 1 @@ "copyFiles" :> 1)}
ReceivesAndResumes == {Only("setFiles" :> 1 @@ "rebaseline" :> 1)}
ReceivesAndShares == {Only("setText" :> 1 @@ "copyFiles" :> 1 @@ "mark" :> 1)}
=============================================================================
