-------------------------- MODULE WindowsJobServer --------------------------
(***************************************************************************)
(* The Windows job server of JWmake (os_specific/windows/Win_Jobserver.cpp *)
(* with the named semaphore of semaphores.h).                              *)
(*                                                                         *)
(* The makes of a tree share one named semaphore with MaxJobs units.  As   *)
(* in PosixJobServer the first job of a make is free, the others cost a    *)
(* unit, and a step is one access to shared state.  Here TakeNewJob tests  *)
(* current_jobs and increments it in two steps.  A make that exits gives   *)
(* nothing back and counts nothing, so the makes are simply all there.     *)
(***************************************************************************)
EXTENDS Integers, FiniteSets

CONSTANTS
  Procs,     \* the makes of the tree
  Threads,   \* the worker threads of all makes
  ProcOf,    \* the make a worker thread belongs to
  MaxJobs    \* the argument of the constructor: the value of -j

ASSUME TreeAssumption ==
  /\ IsFiniteSet(Threads)
  /\ ProcOf \in [Threads -> Procs]
  /\ MaxJobs \in Nat \ {0}

VARIABLES
  units,     \* the count of the named semaphore
  current,   \* current[p]: current_jobs of make p
  pc         \* pc[t]: what worker t does next

vars == <<units, current, pc>>

ThreadsOf(p) == {t \in Threads : ProcOf[t] = p}

(* CreateSemaphore(nullptr, max_jobs, max_jobs, name).                     *)
Init ==
  /\ units = MaxJobs
  /\ current = [p \in Procs |-> 0]
  /\ pc = [t \in Threads |-> "idle"]

-----------------------------------------------------------------------------
Transition(t, from, to) ==
  /\ pc[t] = from
  /\ pc' = [pc EXCEPT ![t] = to]

(* A worker is about to run a command: OS::TakeJob.                        *)
BeginTake(t) == Transition(t, "idle", "test") /\ UNCHANGED <<units, current>>

(* Faulty: the make's free slot is used without counting it.               *)
TestBusyUncounted(t) ==
  /\ \/ current[ProcOf[t]] >= 1 /\ Transition(t, "test", "wait")
     \/ current[ProcOf[t]] < 1  /\ Transition(t, "test", "job")
  /\ UNCHANGED <<units, current>>

(* while (!taken && current_jobs >= 1): with no job the make's free slot   *)
(* is there to use.                                                        *)
TestBusy(t) ==
  /\ \/ current[ProcOf[t]] >= 1 /\ Transition(t, "test", "wait")
     \/ current[ProcOf[t]] < 1  /\ Transition(t, "test", "increment")
  /\ UNCHANGED <<units, current>>

(* Faulty: the wait has no timeout.                                        *)
WaitForEver(t) ==
  /\ units > 0
  /\ Transition(t, "wait", "increment")
  /\ units' = units - 1
  /\ UNCHANGED current

(* Faulty: a timeout is taken for a unit.                                  *)
WaitForUnchecked(t) ==
  /\ Transition(t, "wait", "increment")
  /\ units' = IF units > 0 THEN units - 1 ELSE 0
  /\ UNCHANGED current

(* semaphore.WaitFor(50ms): a unit, or a timeout and once more round.      *)
WaitFor(t) ==
  /\ \/ units > 0 /\ units' = units - 1 /\ Transition(t, "wait", "increment")
     \/ units = 0 /\ units' = units /\ Transition(t, "wait", "test")
  /\ UNCHANGED current

(* Faulty: a job is not counted.                                           *)
IncrementForgotten(t) ==
  /\ Transition(t, "increment", "job")
  /\ UNCHANGED <<units, current>>

(* current_jobs++, and TakeNewJob returns.                                 *)
Increment(t) ==
  /\ Transition(t, "increment", "job")
  /\ current' = [current EXCEPT ![ProcOf[t]] = @ + 1]
  /\ UNCHANGED units

(* The command has ended: OS::GiveJob enters ReleaseJob.                   *)
BeginRelease(t) == Transition(t, "job", "zero?") /\ UNCHANGED <<units, current>>

(* current_jobs == 0 throws "Job server has returned more jobs than it has *)
(* consumed", out of a destructor: no thread of the make takes a step any  *)
(* more.                                                                   *)
TestZero(t) ==
  LET p == ProcOf[t] IN
  /\ pc[t] = "zero?"
  /\ pc' = IF current[p] = 0
           THEN [u \in Threads |-> IF ProcOf[u] = p THEN "aborted" ELSE pc[u]]
           ELSE [pc EXCEPT ![t] = "many?"]
  /\ UNCHANGED <<units, current>>

(* Faulty: the second job of a make is taken for its free slot.            *)
TestManyOffByOne(t) ==
  /\ \/ current[ProcOf[t]] > 2  /\ Transition(t, "many?", "post")
     \/ current[ProcOf[t]] <= 2 /\ Transition(t, "many?", "decrement")
  /\ UNCHANGED <<units, current>>

(* current_jobs > 1, a second load.                                        *)
TestMany(t) ==
  /\ \/ current[ProcOf[t]] > 1  /\ Transition(t, "many?", "post")
     \/ current[ProcOf[t]] <= 1 /\ Transition(t, "many?", "decrement")
  /\ UNCHANGED <<units, current>>

(* Faulty: the semaphore has no maximum.                                   *)
PostUnbounded(t) ==
  /\ Transition(t, "post", "decrement")
  /\ units' = units + 1
  /\ UNCHANGED current

(* ReleaseSemaphore fails, unnoticed, when the count is at its maximum.    *)
Post(t) ==
  /\ Transition(t, "post", "decrement")
  /\ units' = IF units < MaxJobs THEN units + 1 ELSE units
  /\ UNCHANGED current

(* current_jobs--, and ReleaseJob returns.                                 *)
Decrement(t) ==
  /\ Transition(t, "decrement", "idle")
  /\ current' = [current EXCEPT ![ProcOf[t]] = @ - 1]
  /\ UNCHANGED units

Step(t) ==
  \/ TestBusy(t) \/ WaitFor(t) \/ Increment(t)
  \/ BeginRelease(t) \/ TestZero(t) \/ TestMany(t) \/ Post(t) \/ Decrement(t)

Next == \E t \in Threads : BeginTake(t) \/ Step(t)

Spec == Init /\ [][Next]_vars

(* The scheduler runs every thread that can run and a command ends.        *)
FairSpec == Spec /\ \A t \in Threads : WF_vars(Step(t))

-----------------------------------------------------------------------------
Releasing == {"zero?", "many?", "post", "decrement"}
Counted   == {"job"} \cup Releasing

Holders(p) == {t \in ThreadsOf(p) : pc[t] \in Counted}

TypeOK ==
  /\ units \in 0 .. MaxJobs
  /\ current \in [Procs -> Nat]
  /\ pc \in [Threads -> {"idle", "test", "wait", "increment", "aborted"} \cup Counted]

(* current_jobs is the number of workers between the increment of          *)
(* TakeNewJob and the decrement of ReleaseJob, so no worker finds it zero  *)
(* when it gives its job back and no make is ever aborted by ReleaseJob.   *)
CountsHolders ==
  \A p \in Procs : current[p] = Cardinality(Holders(p))

NeverAborted == \A t \in Threads : pc[t] # "aborted"

(* A make whose workers want jobs comes to have one, even when all the     *)
(* units are gone: 50ms at a time the wait looks for the free slot again.  *)
MakeAlwaysGetsAJob ==
  \A p \in Procs :
    (\E t \in ThreadsOf(p) : pc[t] \in {"test", "wait"})
      ~> (\E t \in ThreadsOf(p) : pc[t] = "job")

-----------------------------------------------------------------------------
(* What the promise needs and the code does not enforce: in a make, a      *)
(* worker that changes the count is alone in doing so, and none waits for  *)
(* a unit during a release.                                                *)
NoOverlap ==
  \A t, u \in Threads :
    t # u /\ ProcOf[t] = ProcOf[u] =>
      /\ pc[t] \in Releasing \cup {"increment"}
           => pc[u] \notin Releasing \cup {"increment"}
      /\ pc[t] \in Releasing => pc[u] # "wait"

SerialNext == Next /\ NoOverlap'

SerialSpec == Init /\ [][SerialNext]_vars

Running == {t \in Threads : pc[t] \in {"job", "zero?", "many?", "post"}}

Slots == INSTANCE JobSlots WITH running <- Running

(* The job server implements JobSlots.                                     *)
ImplementsJobSlots == Slots!Spec

(* No unit is lost or made: when no worker is between two of its accesses, *)
(* the units that are out are those the jobs need.                         *)
UnitsConserved ==
  (\A t \in Threads : pc[t] \in {"idle", "test", "wait", "job"})
    => units + Slots!Committed(Running) = MaxJobs

=============================================================================
