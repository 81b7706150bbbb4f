-------------------------- MODULE MCPosixJobServer --------------------------
(* A top make with three workers and a sub-make with one, and the top make *)
(* alone, for PosixJobServer.                                              *)
EXTENDS PosixJobServer, TLC

CONSTANTS top, sm, a1, a2, a3, b1, b2

TreeProcs   == {top, sm}
TreeThreads == {a1, a2, a3, b1}
TreeProcOf  == [t \in TreeThreads |-> IF t = b1 THEN sm ELSE top]

OneProc     == {top}
OneThreads  == {a1, a2, a3}
OneProcOf   == [t \in OneThreads |-> top]
=============================================================================
