----------------------------- MODULE MCSpawnWait -----------------------------
(* Two threads on both systems: the failure of the first may come before     *)
(* each of the two commands of the second, and while one runs.               *)
EXTENDS SpawnWait

TwoThreads == <<"t1", "t2">>
FewCommands == [t \in {"t1", "t2"} |-> IF t = "t1" THEN 1 ELSE 2]
Systems    == {"windows", "posix"}
ExitCodes  == {0, 1}
Amounts    == {0, 3}
TwoHandles == {"h1", "h2"}
=============================================================================
