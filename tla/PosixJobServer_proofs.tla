----------------------- MODULE PosixJobServer_proofs -----------------------
(***************************************************************************)
(* Proofs about PosixJobServer, for every tree of makes, every number of   *)
(* workers and every interleaving of their steps: the state keeps its      *)
(* types, current_jobs counts the workers that have a job, and ReleaseJob  *)
(* never finds it at zero.                                                 *)
(***************************************************************************)
EXTENDS PosixJobServer, FiniteSetTheorems, TLAPS

(* The inductive invariant.  TypeOK needs the counting half: without it    *)
(* Decrement could leave Nat and Exit could overfill the FIFO.             *)
IInv == TypeOK /\ CountsHolders

-----------------------------------------------------------------------------
(* The workers of a make that are counted are finitely many, and the make  *)
(* of a worker is a make: what the counting lemmas need of the constants.  *)
LEMMA HoldersFinite ==
  ASSUME NEW p \in Procs
  PROVE  IsFiniteSet(Holders(p))
<1>1. Holders(p) \subseteq Threads
  BY DEF Holders, ThreadsOf
<1> QED
  BY <1>1, FS_Subset, ThreadsAssumption

(* A worker that comes to be counted, counted by the same step.            *)
LEMMA EnterHolders ==
  ASSUME TypeOK, CountsHolders,
         NEW t \in Threads, NEW to \in Counted, pc[t] \notin Counted,
         pc' = [pc EXCEPT ![t] = to],
         current' = [current EXCEPT ![ProcOf[t]] = @ + 1]
  PROVE  CountsHolders'
<1> SUFFICES ASSUME NEW p \in Procs
             PROVE  current'[p] = Cardinality(Holders(p)')
  BY DEF CountsHolders
<1>1. current[p] = Cardinality(Holders(p)) /\ current[p] \in Nat
  BY DEF CountsHolders, TypeOK
<1>2. CASE p = ProcOf[t]
  <2>1. Holders(p)' = Holders(p) \cup {t} /\ t \notin Holders(p)
    BY <1>2, ThreadsAssumption DEF Holders, ThreadsOf, TypeOK
  <2>2. current'[p] = current[p] + 1
    BY <1>2 DEF TypeOK
  <2> QED
    BY <1>1, <2>1, <2>2, HoldersFinite, FS_AddElement
<1>3. CASE p # ProcOf[t]
  <2>1. Holders(p)' = Holders(p) /\ current'[p] = current[p]
    BY <1>3 DEF Holders, ThreadsOf, TypeOK
  <2> QED
    BY <1>1, <2>1
<1> QED
  BY <1>2, <1>3

(* A worker that is no longer counted, taken off by the same step.         *)
LEMMA LeaveHolders ==
  ASSUME TypeOK, CountsHolders,
         NEW t \in Threads, NEW to, to \notin Counted, pc[t] \in Counted,
         pc' = [pc EXCEPT ![t] = to],
         current' = [current EXCEPT ![ProcOf[t]] = @ - 1]
  PROVE  CountsHolders' /\ current[ProcOf[t]] > 0
<1>1. ProcOf[t] \in Procs /\ t \in Holders(ProcOf[t])
  BY ThreadsAssumption DEF Holders, ThreadsOf
<1>2. current[ProcOf[t]] > 0
  <2>1. Cardinality(Holders(ProcOf[t])) # 0
    BY <1>1, HoldersFinite, FS_EmptySet
  <2> QED
    BY <1>1, <2>1 DEF CountsHolders, TypeOK
<1>3. ASSUME NEW p \in Procs
      PROVE  current'[p] = Cardinality(Holders(p)')
  <2>1. current[p] = Cardinality(Holders(p)) /\ current[p] \in Nat
    BY DEF CountsHolders, TypeOK
  <2>2. CASE p = ProcOf[t]
    <3>1. Holders(p)' = Holders(p) \ {t} /\ t \in Holders(p)
      BY <1>1, <2>2 DEF Holders, ThreadsOf, TypeOK
    <3>2. current'[p] = current[p] - 1
      BY <2>2 DEF TypeOK
    <3> QED
      BY <2>1, <3>1, <3>2, HoldersFinite, FS_RemoveElement
  <2>3. CASE p # ProcOf[t]
    <3>1. Holders(p)' = Holders(p) /\ current'[p] = current[p]
      BY <2>3 DEF Holders, ThreadsOf, TypeOK
    <3> QED
      BY <2>1, <3>1
  <2> QED
    BY <2>2, <2>3
<1> QED
  BY <1>2, <1>3 DEF CountsHolders

(* A worker that moves without being counted or taken off.                 *)
LEMMA KeepHolders ==
  ASSUME TypeOK, CountsHolders,
         NEW t \in Threads, NEW to, pc[t] \in Counted <=> to \in Counted,
         pc' = [pc EXCEPT ![t] = to],
         UNCHANGED current
  PROVE  CountsHolders'
<1>1. ASSUME NEW p \in Procs
      PROVE  Holders(p)' = Holders(p)
  BY DEF Holders, ThreadsOf, TypeOK
<1> QED
  BY <1>1 DEF CountsHolders

(* A make that is gone counts nothing and has no counted worker; the other *)
(* makes are as they were.                                                 *)
LEMMA GoneKeepsCount ==
  ASSUME TypeOK, CountsHolders, NEW p \in Procs, Gone(p)
  PROVE  CountsHolders'
<1> SUFFICES ASSUME NEW q \in Procs
             PROVE  current'[q] = Cardinality(Holders(q)')
  BY DEF CountsHolders
<1>1. CASE q = p
  <2>1. Holders(q)' = {}
    BY <1>1 DEF Gone, Holders, ThreadsOf, Counted, Releasing
  <2>2. current'[q] = 0
    BY <1>1 DEF Gone, TypeOK
  <2> QED
    BY <2>1, <2>2, FS_EmptySet
<1>2. CASE q # p
  <2>1. Holders(q)' = Holders(q)
    BY <1>2 DEF Gone, Holders, ThreadsOf, TypeOK
  <2>2. current'[q] = current[q]
    BY <1>2 DEF Gone, TypeOK
  <2> QED
    BY <2>1, <2>2 DEF CountsHolders
<1> QED
  BY <1>1, <1>2

(* All of a make's state but the FIFO has its type when the make is gone.  *)
LEMMA GoneTyped ==
  ASSUME TypeOK, NEW p \in Procs, Gone(p), pipe' \in 0 .. PipeCapacity
  PROVE  TypeOK'
<1>1. 0 \in -StackBound .. StackBound
  BY JobsAssumption
<1> QED
  BY <1>1 DEF TypeOK, Gone

-----------------------------------------------------------------------------
LEMMA InitIInv == Init => IInv
<1> SUFFICES ASSUME Init PROVE IInv
  OBVIOUS
<1>1. TypeOK
  BY JobsAssumption DEF Init, TypeOK
<1>2. ASSUME NEW p \in Procs
      PROVE  Holders(p) = {}
  BY DEF Init, Holders, ThreadsOf, Counted, Releasing
<1>3. CountsHolders
  BY <1>2, FS_EmptySet DEF Init, CountsHolders
<1> QED
  BY <1>1, <1>3 DEF IInv

(* One step of a worker inside TakeNewJob or ReleaseJob.                   *)
LEMMA StepIInv ==
  ASSUME IInv, NEW t \in Threads, Step(t)
  PROVE  IInv'
<1> DEFINE p == ProcOf[t]
<1>0. p \in Procs /\ TypeOK /\ CountsHolders /\ current[p] \in Nat
      /\ depth[p] \in -StackBound .. StackBound
  BY ThreadsAssumption DEF IInv, TypeOK
<1>1. CASE Exchange(t)
  <2>1. CASE current[p] = 0
    <3>1. current' = [current EXCEPT ![p] = @ + 1] /\ pc' = [pc EXCEPT ![t] = "job"]
      BY <1>0, <1>1, <2>1 DEF Exchange
    <3>2. CountsHolders'
      BY <1>0, <1>1, <3>1, EnterHolders DEF Exchange, Counted, Releasing
    <3> QED
      BY <1>0, <1>1, <3>1, <3>2 DEF Exchange, TypeOK, IInv
  <2>2. CASE current[p] # 0
    <3>1. pc' = [pc EXCEPT ![t] = "read"] /\ UNCHANGED current
      BY <1>1, <2>2 DEF Exchange
    <3>2. CountsHolders'
      BY <1>0, <1>1, <3>1, KeepHolders DEF Exchange, Counted, Releasing
    <3> QED
      BY <1>0, <1>1, <3>1, <3>2 DEF Exchange, TypeOK, IInv, Asking
  <2> QED
    BY <2>1, <2>2
<1>2. CASE ReadToken(t)
  <2>1. PICK to \in {"push", "exchange"} : pc' = [pc EXCEPT ![t] = to]
    BY <1>2 DEF ReadToken
  <2>2. CountsHolders'
    BY <1>0, <1>2, <2>1, KeepHolders DEF ReadToken, Counted, Releasing
  <2>3. pipe' \in 0 .. PipeCapacity
    BY <1>0, <1>2, JobsAssumption DEF ReadToken, TypeOK
  <2> QED
    BY <1>0, <1>2, <2>1, <2>2, <2>3 DEF ReadToken, TypeOK, IInv, Asking, Taking
<1>3. CASE Push(t)
  <2>1. CASE Abort(p)
    BY <1>0, <2>1, GoneKeepsCount, GoneTyped DEF Abort, IInv, TypeOK
  <2>2. CASE ~Abort(p)
    <3>1. Transition(t, "push", "increment") /\ UNCHANGED <<pipe, filled, status, current, sub>>
          /\ depth' = [depth EXCEPT ![p] = @ + 1] /\ depth[p] < StackBound
      BY <1>3, <2>2 DEF Push
    <3>2. CountsHolders'
      BY <1>0, <3>1, KeepHolders DEF Transition, Counted, Releasing
    <3>3. depth[p] + 1 \in -StackBound .. StackBound
      BY <1>0, <3>1, JobsAssumption
    <3> QED
      BY <1>0, <3>1, <3>2, <3>3 DEF Transition, TypeOK, IInv, Taking
  <2> QED
    BY <2>1, <2>2
<1>4. CASE Increment(t)
  <2>1. CountsHolders'
    BY <1>0, <1>4, EnterHolders DEF Increment, Transition, Counted, Releasing
  <2> QED
    BY <1>0, <1>4, <2>1 DEF Increment, Transition, TypeOK, IInv
<1>5. CASE BeginRelease(t)
  <2>1. CountsHolders'
    BY <1>0, <1>5, KeepHolders DEF BeginRelease, Transition, Counted, Releasing
  <2> QED
    BY <1>0, <1>5, <2>1 DEF BeginRelease, Transition, TypeOK, IInv, Releasing
<1>6. CASE TestZero(t)
  <2>1. CASE current[p] = 0
    BY <1>0, <1>6, <2>1, GoneKeepsCount, GoneTyped DEF TestZero, Abort, IInv, TypeOK
  <2>2. CASE current[p] # 0
    <3>1. CountsHolders'
      BY <1>0, <1>6, <2>2, KeepHolders DEF TestZero, Counted, Releasing
    <3> QED
      BY <1>0, <1>6, <2>2, <3>1 DEF TestZero, TypeOK, IInv, Releasing
  <2> QED
    BY <2>1, <2>2
<1>7. CASE TestMany(t)
  <2>1. PICK to \in {"empty?", "decrement"} : pc' = [pc EXCEPT ![t] = to]
    BY <1>7 DEF TestMany, Transition
  <2>2. CountsHolders'
    BY <1>0, <1>7, <2>1, KeepHolders DEF TestMany, Transition, Counted, Releasing
  <2> QED
    BY <1>0, <1>7, <2>1, <2>2 DEF TestMany, TypeOK, IInv, Releasing
<1>8. CASE TestEmpty(t) \/ Top(t)
  <2>1. CASE Abort(p)
    BY <1>0, <2>1, GoneKeepsCount, GoneTyped DEF Abort, IInv, TypeOK
  <2>2. CASE ~Abort(p)
    <3>1. PICK to \in {"top", "write"} : pc' = [pc EXCEPT ![t] = to]
      BY <1>8, <2>2 DEF TestEmpty, Top, Transition
    <3>2. pc[t] \in Releasing /\ UNCHANGED <<pipe, filled, status, current, depth, sub>>
      BY <1>8, <2>2 DEF TestEmpty, Top, Transition, Releasing
    <3>3. CountsHolders'
      BY <1>0, <3>1, <3>2, KeepHolders DEF Counted, Releasing
    <3> QED
      BY <1>0, <3>1, <3>2, <3>3 DEF TypeOK, IInv, Releasing
  <2> QED
    BY <2>1, <2>2
<1>9. CASE WriteToken(t)
  <2>1. CASE UNCHANGED vars
    BY <1>0, <2>1 DEF vars, IInv, TypeOK, CountsHolders, Holders
  <2>2. CASE ~UNCHANGED vars
    <3>1. /\ Transition(t, "write", "pop") /\ pipe < PipeCapacity /\ pipe' = pipe + 1
          /\ UNCHANGED <<filled, status, current, depth, sub>>
      BY <1>9, <2>2 DEF WriteToken
    <3>2. CountsHolders'
      BY <1>0, <3>1, KeepHolders DEF Transition, Counted, Releasing
    <3>3. pipe' \in 0 .. PipeCapacity
      BY <1>0, <3>1, JobsAssumption DEF TypeOK
    <3> QED
      BY <1>0, <3>1, <3>2, <3>3 DEF Transition, TypeOK, IInv, Releasing
  <2> QED
    BY <2>1, <2>2
<1>10. CASE Pop(t)
  <2>1. CASE Abort(p)
    BY <1>0, <2>1, GoneKeepsCount, GoneTyped DEF Abort, IInv, TypeOK
  <2>2. CASE ~Abort(p)
    <3>1. Transition(t, "pop", "decrement") /\ UNCHANGED <<pipe, filled, status, current, sub>>
          /\ depth' = [depth EXCEPT ![p] = @ - 1] /\ depth[p] > -StackBound
      BY <1>10, <2>2 DEF Pop
    <3>2. CountsHolders'
      BY <1>0, <3>1, KeepHolders DEF Transition, Counted, Releasing
    <3>3. depth[p] - 1 \in -StackBound .. StackBound
      BY <1>0, <3>1, JobsAssumption
    <3> QED
      BY <1>0, <3>1, <3>2, <3>3 DEF Transition, TypeOK, IInv, Releasing
  <2> QED
    BY <2>1, <2>2
<1>11. CASE Decrement(t)
  <2>1. CountsHolders' /\ current[p] > 0
    BY <1>0, <1>11, LeaveHolders DEF Decrement, Transition, Counted, Releasing
  <2>2. current[p] - 1 \in Nat
    BY <1>0, <2>1
  <2> QED
    BY <1>0, <1>11, <2>1, <2>2 DEF Decrement, Transition, TypeOK, IInv
<1> QED
  BY <1>1, <1>2, <1>3, <1>4, <1>5, <1>6, <1>7, <1>8, <1>9, <1>10, <1>11 DEF Step

(* Any step of the tree of makes.                                          *)
LEMMA NextIInv == IInv /\ [Next]_vars => IInv'
<1> SUFFICES ASSUME IInv, [Next]_vars PROVE IInv'
  OBVIOUS
<1>0. TypeOK /\ CountsHolders
  BY DEF IInv
<1>1. CASE Populate
  <2>1. CountsHolders'
    BY <1>0, <1>1 DEF Populate, CountsHolders, Holders
  <2>2. pipe' \in 0 .. PipeCapacity /\ filled' \in 0 .. MaxJobs
    BY <1>0, <1>1, JobsAssumption DEF Populate, TypeOK
  <2> QED
    BY <1>0, <1>1, <2>1, <2>2 DEF Populate, TypeOK, IInv
<1>2. CASE Constructed
  <2>1. CountsHolders'
    BY <1>0, <1>2 DEF Constructed, CountsHolders, Holders
  <2> QED
    BY <1>0, <1>2, <2>1 DEF Constructed, TypeOK, IInv
<1>3. ASSUME NEW t \in Threads, BeginTake(t) PROVE IInv'
  <2>1. CountsHolders'
    BY <1>0, <1>3, KeepHolders DEF BeginTake, Transition, Counted, Releasing
  <2> QED
    BY <1>0, <1>3, <2>1 DEF BeginTake, Transition, TypeOK, IInv, Asking
<1>4. ASSUME NEW t \in Threads, Step(t) PROVE IInv'
  BY <1>4, StepIInv
<1>5. ASSUME NEW t \in Threads, NEW q \in Procs, StartMake(t, q) PROVE IInv'
  <2>1. CountsHolders'
    BY <1>0, <1>5 DEF StartMake, CountsHolders, Holders
  <2> QED
    BY <1>0, <1>5, <2>1 DEF StartMake, TypeOK, IInv
<1>6. ASSUME NEW p \in Procs, Exit(p) PROVE IInv'
  <2>1. Holders(p) = {}
    BY <1>6 DEF Exit, Holders, Counted, Releasing
  <2>2. current[p] = 0
    BY <1>0, <2>1, FS_EmptySet DEF CountsHolders
  <2>3. pipe' \in 0 .. PipeCapacity
    BY <1>0, <1>6, <2>2 DEF Exit, TypeOK
  <2>4. CountsHolders' /\ TypeOK'
    BY <1>0, <1>6, <2>3, GoneKeepsCount, GoneTyped DEF Exit
  <2> QED
    BY <2>4 DEF IInv
<1>7. CASE UNCHANGED vars
  BY <1>0, <1>7 DEF vars, IInv, TypeOK, CountsHolders, Holders
<1> QED
  BY <1>1, <1>2, <1>3, <1>4, <1>5, <1>6, <1>7 DEF Next, Over

(* The state keeps its types and current_jobs counts the jobs a make has.  *)
THEOREM Counting == Spec => [](TypeOK /\ CountsHolders)
<1>1. Init => IInv
  BY InitIInv
<1>2. IInv /\ [Next]_vars => IInv'
  BY NextIInv
<1>3. IInv => TypeOK /\ CountsHolders
  BY DEF IInv
<1> QED
  BY <1>1, <1>2, <1>3, PTL DEF Spec

(* ReleaseJob never throws "Job server has returned more jobs than it has  *)
(* consumed": the worker that calls it is itself still counted.            *)
THEOREM NoOverReturn == Spec => []NeverOverReturned
<1>1. IInv => NeverOverReturned
  <2> SUFFICES ASSUME IInv, NEW t \in Threads, pc[t] = "zero?"
               PROVE  current[ProcOf[t]] > 0
    BY DEF NeverOverReturned
  <2>1. ProcOf[t] \in Procs /\ t \in Holders(ProcOf[t])
    BY ThreadsAssumption DEF Holders, ThreadsOf, Counted, Releasing
  <2>2. Cardinality(Holders(ProcOf[t])) # 0
    BY <2>1, HoldersFinite, FS_EmptySet
  <2> QED
    BY <2>1, <2>2 DEF IInv, CountsHolders, TypeOK
<1>2. Init => IInv
  BY InitIInv
<1>3. IInv /\ [Next]_vars => IInv'
  BY NextIInv
<1> QED
  BY <1>1, <1>2, <1>3, PTL DEF Spec

(* The state keeps its types: the FIFO never holds more than its capacity, *)
(* and no count falls below zero.                                          *)
THEOREM Typed == Spec => []TypeOK
BY Counting, PTL
=============================================================================
