------------------------------ MODULE JobSlots ------------------------------
(***************************************************************************)
(* What a job server promises the makes of a tree: each make has one slot  *)
(* of its own and the makes share MaxJobs more.  The state is the set of   *)
(* workers that have a job.  A make with k > 0 jobs uses k - 1 shared      *)
(* slots, so the jobs of all makes use Committed of them.                  *)
(***************************************************************************)
EXTENDS Integers, FiniteSets

CONSTANTS Threads, ProcOf, MaxJobs

VARIABLE running    \* the workers that have a job

Committed(S) == Cardinality(S) - Cardinality({ProcOf[t] : t \in S})

Init == running = {}

Start(t) ==
  /\ t \notin running
  /\ Committed(running \cup {t}) <= MaxJobs
  /\ running' = running \cup {t}

Finish(t) == t \in running /\ running' = running \ {t}

Next == \E t \in Threads : Start(t) \/ Finish(t)

Spec == Init /\ [][Next]_running

SlotsRespected == Committed(running) <= MaxJobs
=============================================================================
