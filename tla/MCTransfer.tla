---------------------------- MODULE MCTransfer ----------------------------
(***************************************************************************)
(* Instances of Transfer for TLC.                                          *)
(***************************************************************************)
EXTENDS Transfer, TLC

CONSTANTS t1, t2, a, b

One == {t1}
Both == {t1, t2}
Names == {a, b}

\* Two files, and two files of which the last is empty.
TwoFiles == t1 :> <<[name |-> a, size |-> 2], [name |-> b, size |-> 1]>>
EmptyLast == t1 :> <<[name |-> a, size |-> 1], [name |-> b, size |-> 0]>>
\* Two transfers with a file of the same name.
SameName == t1 :> <<[name |-> a, size |-> 1]>>
              @@ t2 :> <<[name |-> b, size |-> 0], [name |-> a, size |-> 1]>>

NoBudget == [k \in EnvironmentKind |-> 0]
Losses == ("drop" :> 1 @@ "crash" :> 1 @@ "io" :> 1 @@ "part" :> 1 @@ "cancel" :> 1
             @@ "resize" :> 1) @@ NoBudget
Cancels == ("cancel" :> 2 @@ "resize" :> 1 @@ "io" :> 1 @@ "create" :> 1) @@ NoBudget
Drops == ("drop" :> 1 @@ "cancel" :> 1) @@ NoBudget

\* The scenarios of each run.
LossesOrCancels == {Losses, Cancels}
OneDrop == {Drops}
Undisturbed == {NoBudget}
=============================================================================
