------------------------- MODULE MCWindowsJobServer -------------------------
(* Two makes with three and two workers, for WindowsJobServer.             *)
EXTENDS WindowsJobServer, TLC

CONSTANTS top, sm, a1, a2, a3, b1, b2

TreeProcs   == {top, sm}
TreeThreads == {a1, a2, a3, b1, b2}
TreeProcOf  == [t \in TreeThreads |-> IF t \in {a1, a2, a3} THEN top ELSE sm]

SmallThreads == {a1, a2, b1, b2}
SmallProcOf  == [t \in SmallThreads |-> IF t \in {a1, a2} THEN top ELSE sm]
=============================================================================
