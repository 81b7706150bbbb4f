-------------------------- MODULE MCSerialJobServer --------------------------
(* A top make with three workers and a sub-make with two, for              *)
(* SerialJobServer.                                                        *)
EXTENDS SerialJobServer, TLC

CONSTANTS top, sm, a1, a2, a3, b1, b2

TreeProcs   == {top, sm}
TreeThreads == {a1, a2, a3, b1, b2}
TreeProcOf  == [t \in TreeThreads |-> IF t \in {a1, a2, a3} THEN top ELSE sm]
=============================================================================
