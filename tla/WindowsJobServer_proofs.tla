---------------------- MODULE WindowsJobServer_proofs ----------------------
(***************************************************************************)
(* Proofs about WindowsJobServer, for every tree of makes, every number of *)
(* workers and every -j: although TakeNewJob tests current_jobs and        *)
(* increments it in two steps, the count is exact at all times, and        *)
(* ReleaseJob never throws; and under the restriction of SerialSpec no     *)
(* unit of the semaphore is lost or made, and JobSlots is implemented.     *)
(***************************************************************************)
EXTENDS WindowsJobServer, CountingLemmas

(* The inductive invariant.  An abort would stop counted workers that the  *)
(* count still has, so the count is exact only because there is none; and  *)
(* there is none because a worker in ReleaseJob is itself counted.         *)
IInv == TypeOK /\ CountsHolders /\ NeverAborted

-----------------------------------------------------------------------------
(* The counted workers of a make are finitely many.                        *)
LEMMA HoldersFinite ==
  ASSUME NEW p \in Procs
  PROVE  IsFiniteSet(Holders(p))
<1>1. Holders(p) \subseteq Threads
  BY DEF Holders, ThreadsOf
<1> QED
  BY <1>1, FS_Subset, TreeAssumption

(* The make of a counted worker counts at least that worker.               *)
LEMMA HolderIsCounted ==
  ASSUME TypeOK, CountsHolders, NEW t \in Threads, pc[t] \in Counted
  PROVE  current[ProcOf[t]] > 0
<1>1. ProcOf[t] \in Procs /\ t \in Holders(ProcOf[t])
  BY TreeAssumption DEF Holders, ThreadsOf
<1>2. Cardinality(Holders(ProcOf[t])) # 0
  BY <1>1, HoldersFinite, FS_EmptySet
<1> QED
  BY <1>1, <1>2 DEF CountsHolders, TypeOK

(* A worker moves, and is counted after the move as before it.             *)
LEMMA Moves ==
  ASSUME IInv, NEW t \in Threads,
         NEW to \in {"idle", "test", "wait", "increment"} \cup Counted,
         pc[t] \in Counted <=> to \in Counted,
         pc' = [pc EXCEPT ![t] = to], UNCHANGED current, units' \in 0 .. MaxJobs
  PROVE  IInv'
<1>1. TypeOK' /\ NeverAborted'
  BY DEF IInv, TypeOK, NeverAborted, Counted, Releasing
<1>2. ASSUME NEW p \in Procs
      PROVE  Holders(p)' = Holders(p)
  BY DEF IInv, Holders, ThreadsOf, TypeOK
<1>3. CountsHolders'
  BY <1>2 DEF IInv, CountsHolders
<1> QED
  BY <1>1, <1>3 DEF IInv

-----------------------------------------------------------------------------
LEMMA InitIInv == Init => IInv
<1> SUFFICES ASSUME Init PROVE IInv
  OBVIOUS
<1>1. TypeOK /\ NeverAborted
  BY TreeAssumption DEF Init, TypeOK, NeverAborted
<1>2. ASSUME NEW p \in Procs
      PROVE  Holders(p) = {}
  BY DEF Init, Holders, ThreadsOf, Counted, Releasing
<1>3. CountsHolders
  BY <1>2, FS_EmptySet DEF Init, CountsHolders
<1> QED
  BY <1>1, <1>3 DEF IInv

(* current_jobs++: one more counted worker, one more in the count.         *)
LEMMA IncrementIInv ==
  ASSUME IInv, NEW t \in Threads, Increment(t)
  PROVE  IInv'
<1> USE DEF Increment, Transition
<1>1. TypeOK' /\ NeverAborted'
  <2>1. /\ current \in [Procs -> Nat] /\ ProcOf[t] \in Procs
        /\ current' = [current EXCEPT ![ProcOf[t]] = current[ProcOf[t]] + 1]
    BY TreeAssumption DEF IInv, TypeOK
  <2>2. current' \in [Procs -> Nat]
    BY <2>1
  <2> QED
    BY <2>2 DEF IInv, TypeOK, NeverAborted, Counted
<1>2. ASSUME NEW p \in Procs
      PROVE  current'[p] = Cardinality(Holders(p)')
  <2>1. current[p] = Cardinality(Holders(p)) /\ current[p] \in Nat
    BY DEF IInv, CountsHolders, TypeOK
  <2>2. CASE p = ProcOf[t]
    <3>1. Holders(p)' = Holders(p) \cup {t} /\ t \notin Holders(p)
      BY <2>2 DEF IInv, Holders, ThreadsOf, TypeOK, Counted, Releasing
    <3>2. current'[p] = current[p] + 1
      BY <2>2 DEF IInv, TypeOK
    <3>3. Cardinality(Holders(p)') = Cardinality(Holders(p)) + 1
      BY <3>1, HoldersFinite, FS_AddElement
    <3> QED
      BY <2>1, <3>2, <3>3
  <2>3. CASE p # ProcOf[t]
    <3>1. Holders(p)' = Holders(p) /\ current'[p] = current[p]
      BY <2>3 DEF IInv, Holders, ThreadsOf, TypeOK
    <3> QED
      BY <2>1, <3>1
  <2> QED
    BY <2>2, <2>3
<1> QED
  BY <1>1, <1>2 DEF IInv, CountsHolders

(* current_jobs--: one counted worker less, one less in the count.         *)
LEMMA DecrementIInv ==
  ASSUME IInv, NEW t \in Threads, Decrement(t)
  PROVE  IInv'
<1> USE DEF Decrement, Transition
<1>1. current[ProcOf[t]] > 0
  BY HolderIsCounted DEF IInv, Counted, Releasing
<1>2. TypeOK' /\ NeverAborted'
  <2>1. /\ current \in [Procs -> Nat] /\ ProcOf[t] \in Procs
        /\ current' = [current EXCEPT ![ProcOf[t]] = current[ProcOf[t]] - 1]
    BY TreeAssumption DEF IInv, TypeOK
  <2>2. current' \in [Procs -> Nat]
    BY <1>1, <2>1
  <2> QED
    BY <2>2 DEF IInv, TypeOK, NeverAborted
<1>3. ASSUME NEW p \in Procs
      PROVE  current'[p] = Cardinality(Holders(p)')
  <2>1. current[p] = Cardinality(Holders(p)) /\ current[p] \in Nat
    BY DEF IInv, CountsHolders, TypeOK
  <2>2. CASE p = ProcOf[t]
    <3>1. Holders(p)' = Holders(p) \ {t} /\ t \in Holders(p)
      BY <2>2 DEF IInv, Holders, ThreadsOf, TypeOK, Counted, Releasing
    <3>2. current'[p] = current[p] - 1
      BY <2>2 DEF IInv, TypeOK
    <3>3. Cardinality(Holders(p)') = Cardinality(Holders(p)) - 1
      BY <3>1, HoldersFinite, FS_RemoveElement
    <3> QED
      BY <2>1, <3>2, <3>3
  <2>3. CASE p # ProcOf[t]
    <3>1. Holders(p)' = Holders(p) /\ current'[p] = current[p]
      BY <2>3 DEF IInv, Holders, ThreadsOf, TypeOK
    <3> QED
      BY <2>1, <3>1
  <2> QED
    BY <2>2, <2>3
<1> QED
  BY <1>2, <1>3 DEF IInv, CountsHolders

(* Any step of any worker.                                                 *)
LEMMA NextIInv == IInv /\ [Next]_vars => IInv'
<1> SUFFICES ASSUME IInv, [Next]_vars PROVE IInv'
  OBVIOUS
<1>0. units \in 0 .. MaxJobs /\ units \in Int
  BY DEF IInv, TypeOK
<1>1. ASSUME NEW t \in Threads, BeginTake(t) PROVE IInv'
  BY <1>0, <1>1, Moves DEF BeginTake, Transition, Counted, Releasing
<1>2. ASSUME NEW t \in Threads, TestBusy(t) PROVE IInv'
  <2>1. PICK to \in {"wait", "increment"} : Transition(t, "test", to)
    BY <1>2 DEF TestBusy
  <2> QED
    BY <1>0, <1>2, <2>1, Moves DEF TestBusy, Transition, Counted, Releasing
<1>3. ASSUME NEW t \in Threads, WaitFor(t) PROVE IInv'
  <2>1. PICK to \in {"increment", "test"} : Transition(t, "wait", to)
    BY <1>3 DEF WaitFor
  <2>2. units' \in 0 .. MaxJobs
    BY <1>0, <1>3, TreeAssumption DEF WaitFor
  <2> QED
    BY <1>3, <2>1, <2>2, Moves DEF WaitFor, Transition, Counted, Releasing
<1>4. ASSUME NEW t \in Threads, Increment(t) PROVE IInv'
  BY <1>4, IncrementIInv
<1>5. ASSUME NEW t \in Threads, BeginRelease(t) PROVE IInv'
  BY <1>0, <1>5, Moves DEF BeginRelease, Transition, Counted, Releasing
<1>6. ASSUME NEW t \in Threads, TestZero(t) PROVE IInv'
  <2>1. current[ProcOf[t]] > 0
    BY <1>6, HolderIsCounted DEF IInv, TestZero, Counted, Releasing
  <2>2. pc[t] = "zero?" /\ pc' = [pc EXCEPT ![t] = "many?"] /\ UNCHANGED <<units, current>>
    BY <1>6, <2>1 DEF TestZero
  <2> QED
    BY <1>0, <2>2, Moves DEF Counted, Releasing
<1>7. ASSUME NEW t \in Threads, TestMany(t) PROVE IInv'
  <2>1. PICK to \in {"post", "decrement"} : Transition(t, "many?", to)
    BY <1>7 DEF TestMany
  <2> QED
    BY <1>0, <1>7, <2>1, Moves DEF TestMany, Transition, Counted, Releasing
<1>8. ASSUME NEW t \in Threads, Post(t) PROVE IInv'
  <2>1. units' \in 0 .. MaxJobs
    BY <1>0, <1>8, TreeAssumption DEF Post
  <2> QED
    BY <1>8, <2>1, Moves DEF Post, Transition, Counted, Releasing
<1>9. ASSUME NEW t \in Threads, Decrement(t) PROVE IInv'
  BY <1>9, DecrementIInv
<1>10. CASE UNCHANGED vars
  BY <1>10 DEF vars, IInv, TypeOK, NeverAborted, CountsHolders, Holders
<1> QED
  BY <1>1, <1>2, <1>3, <1>4, <1>5, <1>6, <1>7, <1>8, <1>9, <1>10 DEF Next, Step

-----------------------------------------------------------------------------
(* current_jobs is the number of workers that have a job, through every    *)
(* overlap of TakeNewJob and ReleaseJob.                                   *)
THEOREM Counting == Spec => [](TypeOK /\ CountsHolders)
<1>1. IInv => TypeOK /\ CountsHolders
  BY DEF IInv
<1> QED
  BY <1>1, InitIInv, NextIInv, PTL DEF Spec

(* ReleaseJob never throws, so no make is ended by its job server.         *)
THEOREM NoAbort == Spec => []NeverAborted
<1>1. IInv => NeverAborted
  BY DEF IInv
<1> QED
  BY <1>1, InitIInv, NextIInv, PTL DEF Spec

(* The state keeps its types: the semaphore stays between 0 and its        *)
(* maximum, and no current_jobs falls below zero.                          *)
THEOREM Typed == Spec => []TypeOK
BY Counting, PTL
-----------------------------------------------------------------------------
(* SerialSpec: as long as the workers of a make change its count one at a  *)
(* time, and none of them waits for a unit during a release, no unit of    *)
(* the semaphore is lost or made, and the Windows job server implements    *)
(* JobSlots.                                                               *)

(* A worker at the increment has a unit unless it uses the free slot, and  *)
(* it uses the free slot if and only if its make has no job.               *)
InHand == {t \in Threads : pc[t] = "increment" /\ current[ProcOf[t]] > 0}
Makes  == ImageOf(ProcOf, Running)

(* No unit is lost or made, at any time.                                   *)
Conserved ==
  units + Cardinality(Running) - Cardinality(Makes) + Cardinality(InHand) = MaxJobs

(* A worker waits for a unit only while its make has a job, and posts one  *)
(* only while the make has another.                                        *)
WaitsBusy == \A t \in Threads : pc[t] = "wait" => current[ProcOf[t]] > 0
PostsMany == \A t \in Threads : pc[t] = "post" => current[ProcOf[t]] > 1

(* The inductive invariant.  WaitsBusy tells the unit of a wait from the   *)
(* free slot when the increment comes; PostsMany says that a unit is given *)
(* back only for a job that is not in the free slot.                       *)
WInv == IInv /\ NoOverlap /\ Conserved /\ WaitsBusy /\ PostsMany

-----------------------------------------------------------------------------
LEMMA Finite ==
  /\ IsFiniteSet(Running) /\ IsFiniteSet(InHand)
  /\ Cardinality(Running) \in Nat /\ Cardinality(InHand) \in Nat
  /\ Cardinality(Makes) \in Nat /\ Cardinality(Makes) <= Cardinality(Running)
<1>1. Running \subseteq Threads /\ InHand \subseteq Threads
  BY DEF Running, InHand
<1>2. IsFiniteSet(Running) /\ IsFiniteSet(InHand)
  BY <1>1, FS_Subset, TreeAssumption
<1> QED
  BY <1>2, FS_CardinalityType, ImageFinite DEF Makes

LEMMA ConservedNext ==
  Conserved' <=> units' + Cardinality(Running') - Cardinality(ImageOf(ProcOf, Running'))
                 + Cardinality(InHand') = MaxJobs
BY DEF Conserved, Makes, ImageOf, Running

(* What the step of one worker does to the workers that have a job.        *)
Busy == {"job", "zero?", "many?", "post"}

Goes(t, to) == pc' = [pc EXCEPT ![t] = to]

LEMMA GoSets ==
  ASSUME TypeOK, NEW t \in Threads, NEW to, Goes(t, to)
  PROVE  /\ Running' = IF to \in Busy THEN Running \cup {t} ELSE Running \ {t}
         /\ t \in Running <=> pc[t] \in Busy
         /\ pc'[t] = to /\ \A u \in Threads \ {t} : pc'[u] = pc[u]
BY DEF TypeOK, Goes, Running, Busy

(* A worker that changes the count shares its make with workers that are   *)
(* in their jobs, and the count says whether there are any.                *)
LEMMA Company ==
  ASSUME IInv, NoOverlap, NEW t \in Threads
  PROVE  /\ pc[t] = "increment" =>
              (current[ProcOf[t]] > 0 <=> \E u \in Running : ProcOf[u] = ProcOf[t])
         /\ pc[t] \in Releasing =>
              (current[ProcOf[t]] > 1 <=>
                 \E u \in Running : u # t /\ ProcOf[u] = ProcOf[t])
<1> PICK p \in Procs : p = ProcOf[t]
  BY TreeAssumption
<1>1. /\ current[p] = Cardinality(Holders(p)) /\ IsFiniteSet(Holders(p))
      /\ Cardinality(Holders(p)) \in Nat
  BY HoldersFinite, FS_CardinalityType DEF IInv, CountsHolders
<1>2. \A u \in Running : ProcOf[u] = p => u \in Holders(p)
  BY DEF Running, Holders, ThreadsOf, Counted, Releasing
<1>3. ASSUME pc[t] \in Releasing \cup {"increment"}
      PROVE  \A u \in Holders(p) : u # t => u \in Running /\ ProcOf[u] = p
  BY <1>3 DEF NoOverlap, Holders, ThreadsOf, Running, Counted
<1>4. CASE pc[t] = "increment"
  <2>1. t \notin Holders(p)
    BY <1>4 DEF Holders, Counted, Releasing
  <2>2. current[p] > 0 <=> Holders(p) # {}
    BY <1>1, FS_EmptySet
  <2> QED
    BY <1>2, <1>3, <1>4, <2>1, <2>2 DEF Releasing
<1>5. CASE pc[t] \in Releasing
  <2>1. t \in Holders(p)
    BY <1>5 DEF Holders, ThreadsOf, Counted
  <2>2. current[p] > 1 <=> \E u \in Holders(p) : u # t
    BY <1>1, <2>1, AloneOrNot
  <2> QED
    BY <1>2, <1>3, <1>5, <2>2 DEF Releasing
<1> QED
  BY <1>4, <1>5

(* The worker joins those that have a job, or leaves them.                 *)
LEMMA Joins ==
  ASSUME NEW t, t \notin Running
  PROVE  Cardinality(Running \cup {t}) - Cardinality(ImageOf(ProcOf, Running \cup {t}))
           = Cardinality(Running) - Cardinality(Makes)
             + IF \E u \in Running : ProcOf[u] = ProcOf[t] THEN 1 ELSE 0
<1>1. IsFiniteSet(Running)
  BY Finite
<1>2. Cardinality(Running \cup {t}) = Cardinality(Running) + 1
  BY <1>1, FS_AddElement
<1>3. Cardinality(ImageOf(ProcOf, Running \cup {t})) =
        IF \E u \in Running : ProcOf[u] = ProcOf[t] THEN Cardinality(Makes)
        ELSE Cardinality(Makes) + 1
  BY <1>1, ImageAdd DEF Makes
<1> QED
  BY <1>2, <1>3, Finite

LEMMA Leaves ==
  ASSUME NEW t \in Running
  PROVE  Cardinality(Running \ {t}) - Cardinality(ImageOf(ProcOf, Running \ {t}))
           = Cardinality(Running) - Cardinality(Makes)
             - IF \E u \in Running : u # t /\ ProcOf[u] = ProcOf[t] THEN 1 ELSE 0
<1>1. IsFiniteSet(Running)
  BY Finite
<1>2. Cardinality(Running \ {t}) = Cardinality(Running) - 1
  BY <1>1, FS_RemoveElement
<1>3. Cardinality(ImageOf(ProcOf, Running \ {t})) =
        IF \E u \in Running : u # t /\ ProcOf[u] = ProcOf[t] THEN Cardinality(Makes)
        ELSE Cardinality(Makes) - 1
  BY <1>1, ImageRemove DEF Makes
<1> QED
  BY <1>2, <1>3, Finite

-----------------------------------------------------------------------------
(* One lemma for each kind of step.  First the steps that change neither   *)
(* the semaphore nor the count.                                            *)
LEMMA QuietStep ==
  ASSUME WInv, NEW t \in Threads, NEW to, Goes(t, to), UNCHANGED <<units, current>>,
         pc[t] \in Busy <=> to \in Busy, pc[t] # "increment",
         to = "increment" => ~(current[ProcOf[t]] > 0),
         to = "wait" => current[ProcOf[t]] > 0,
         to = "post" => current[ProcOf[t]] > 1
  PROVE  Conserved' /\ WaitsBusy' /\ PostsMany'
<1>1. TypeOK
  BY DEF WInv, IInv
<1>2. Running' = Running
  BY <1>1, GoSets
<1>3. pc'[t] = to /\ \A u \in Threads \ {t} : pc'[u] = pc[u]
  BY <1>1, GoSets
<1>4. InHand' = InHand
  BY <1>3 DEF InHand
<1>5. Conserved'
  BY <1>2, <1>4, ConservedNext DEF WInv, Conserved, Makes
<1>6. WaitsBusy' /\ PostsMany'
  BY <1>3 DEF WInv, WaitsBusy, PostsMany
<1> QED
  BY <1>5, <1>6

(* The wait ends with a unit.                                              *)
LEMMA UnitTaken ==
  ASSUME WInv, NEW t \in Threads, Transition(t, "wait", "increment"),
         units' = units - 1, current' = current
  PROVE  Conserved' /\ WaitsBusy' /\ PostsMany'
<1>1. TypeOK /\ Goes(t, "increment") /\ units \in Int
  BY TreeAssumption DEF WInv, IInv, TypeOK, Transition, Goes
<1>2. Running' = Running
  BY <1>1, GoSets DEF Busy, Transition
<1>3. pc[t] = "wait" /\ pc'[t] = "increment" /\ \A u \in Threads \ {t} : pc'[u] = pc[u]
  BY <1>1, GoSets DEF Transition
<1>4. InHand' = InHand \cup {t} /\ t \notin InHand
  BY <1>3 DEF InHand, WInv, WaitsBusy
<1>5. IsFiniteSet(InHand)
  BY Finite
<1>6. Cardinality(InHand') = Cardinality(InHand) + 1
  BY <1>4, <1>5, FS_AddElement
<1>7. Conserved'
  BY <1>1, <1>2, <1>6, Finite, ConservedNext DEF WInv, Conserved, Makes
<1>8. WaitsBusy' /\ PostsMany'
  BY <1>3 DEF WInv, WaitsBusy, PostsMany
<1> QED
  BY <1>7, <1>8

(* current_jobs++: a job more, in the free slot or for the unit in hand.   *)
LEMMA JobCounted ==
  ASSUME WInv, NEW t \in Threads, Increment(t)
  PROVE  Conserved' /\ WaitsBusy' /\ PostsMany'
<1> PICK p \in Procs : p = ProcOf[t]
  BY TreeAssumption
<1>1. /\ TypeOK /\ Goes(t, "job") /\ pc[t] = "increment" /\ units' = units
      /\ units \in Int /\ current[p] \in Nat
      /\ current' = [current EXCEPT ![p] = @ + 1]
  BY TreeAssumption DEF WInv, IInv, TypeOK, Increment, Transition, Goes
<1>2. Running' = Running \cup {t} /\ t \notin Running
  BY <1>1, GoSets DEF Busy
<1>3. pc'[t] = "job" /\ \A u \in Threads \ {t} : pc'[u] = pc[u]
  BY <1>1, GoSets
<1>4. current'[p] = current[p] + 1 /\ \A q \in Procs \ {p} : current'[q] = current[q]
  BY <1>1 DEF TypeOK
<1>5. \A u \in Threads \ {t} : pc[u] = "increment" => ProcOf[u] \in Procs \ {p}
  BY <1>1, TreeAssumption DEF WInv, NoOverlap
<1>6. InHand' = InHand \ {t}
  BY <1>3, <1>4, <1>5 DEF InHand
<1>7. Cardinality(InHand') = IF current[p] > 0 THEN Cardinality(InHand) - 1
                             ELSE Cardinality(InHand)
  <2>1. IsFiniteSet(InHand) /\ (t \in InHand <=> current[p] > 0)
    BY <1>1, Finite DEF InHand
  <2> QED
    BY <1>6, <2>1, FS_RemoveElement
<1>8. current[p] > 0 <=> \E u \in Running : ProcOf[u] = ProcOf[t]
  BY <1>1, Company DEF WInv
<1>9. Conserved'
  BY <1>1, <1>2, <1>7, <1>8, Joins, Finite, ConservedNext DEF WInv, Conserved
<1>10. \A q \in Procs : current'[q] >= current[q] /\ current[q] \in Nat
                        /\ current'[q] \in Nat
  BY <1>1, <1>4 DEF TypeOK
<1>11. WaitsBusy' /\ PostsMany'
  BY <1>3, <1>10, TreeAssumption DEF WInv, WaitsBusy, PostsMany
<1> QED
  BY <1>9, <1>11

(* current_jobs <= 1: the last job of the make was in its free slot.       *)
LEMMA FreeSlotLeft ==
  ASSUME WInv, NEW t \in Threads, Transition(t, "many?", "decrement"),
         ~(current[ProcOf[t]] > 1), UNCHANGED <<units, current>>
  PROVE  Conserved' /\ WaitsBusy' /\ PostsMany'
<1>1. TypeOK /\ Goes(t, "decrement") /\ pc[t] = "many?" /\ units \in Int
  BY TreeAssumption DEF WInv, IInv, TypeOK, Transition, Goes
<1>2. Running' = Running \ {t} /\ t \in Running
  BY <1>1, GoSets DEF Busy
<1>3. pc'[t] = "decrement" /\ \A u \in Threads \ {t} : pc'[u] = pc[u]
  BY <1>1, GoSets
<1>4. InHand' = InHand
  BY <1>1, <1>3 DEF InHand
<1>5. ~\E u \in Running : u # t /\ ProcOf[u] = ProcOf[t]
  BY <1>1, Company DEF WInv, Releasing
<1>6. Conserved'
  BY <1>1, <1>2, <1>4, <1>5, Leaves, Finite, ConservedNext DEF WInv, Conserved
<1>7. WaitsBusy' /\ PostsMany'
  BY <1>3 DEF WInv, WaitsBusy, PostsMany
<1> QED
  BY <1>6, <1>7

(* A unit is given back: there was room for it, since a job had it.        *)
LEMMA UnitPosted ==
  ASSUME WInv, NEW t \in Threads, Post(t)
  PROVE  Conserved' /\ WaitsBusy' /\ PostsMany'
<1>1. /\ TypeOK /\ Goes(t, "decrement") /\ pc[t] = "post" /\ current' = current
      /\ units \in Int /\ MaxJobs \in Int
      /\ units' = IF units < MaxJobs THEN units + 1 ELSE units
  BY TreeAssumption DEF WInv, IInv, TypeOK, Post, Transition, Goes
<1>2. Running' = Running \ {t} /\ t \in Running
  BY <1>1, GoSets DEF Busy
<1>3. pc'[t] = "decrement" /\ \A u \in Threads \ {t} : pc'[u] = pc[u]
  BY <1>1, GoSets
<1>4. InHand' = InHand
  BY <1>1, <1>3 DEF InHand
<1>5. \E u \in Running : u # t /\ ProcOf[u] = ProcOf[t]
  BY <1>1, Company DEF WInv, PostsMany, Releasing
<1>6. Cardinality(Running') - Cardinality(ImageOf(ProcOf, Running'))
        = Cardinality(Running) - Cardinality(Makes) - 1
  BY <1>2, <1>5, Leaves
<1>7. units' = units + 1
  <2>1. IsFiniteSet(Running') /\ Running' \subseteq Threads
    BY <1>2, Finite, FS_Subset DEF Running
  <2>2. Cardinality(ImageOf(ProcOf, Running')) <= Cardinality(Running')
        /\ Cardinality(ImageOf(ProcOf, Running')) \in Nat /\ Cardinality(Running') \in Nat
    BY <2>1, ImageFinite
  <2> QED
    BY <1>1, <1>6, <2>2, Finite DEF WInv, Conserved
<1>8. Conserved'
  <2>1. Cardinality(Running') \in Nat /\ Cardinality(ImageOf(ProcOf, Running')) \in Nat
    BY <1>2, Finite, FS_Subset, ImageFinite
  <2> QED
    BY <1>1, <1>4, <1>6, <1>7, <2>1, Finite, ConservedNext DEF WInv, Conserved
<1>9. WaitsBusy' /\ PostsMany'
  BY <1>1, <1>3 DEF WInv, WaitsBusy, PostsMany
<1> QED
  BY <1>8, <1>9

(* current_jobs--: nobody else of the make waits, posts or increments.     *)
LEMMA JobUncounted ==
  ASSUME WInv, NEW t \in Threads, Decrement(t)
  PROVE  Conserved' /\ WaitsBusy' /\ PostsMany'
<1> PICK p \in Procs : p = ProcOf[t]
  BY TreeAssumption
<1>1. /\ TypeOK /\ Goes(t, "idle") /\ pc[t] = "decrement" /\ units' = units
      /\ current' = [current EXCEPT ![p] = @ - 1]
  BY DEF WInv, IInv, Decrement, Transition, Goes
<1>2. Running' = Running
  BY <1>1, GoSets DEF Busy
<1>3. pc'[t] = "idle" /\ \A u \in Threads \ {t} : pc'[u] = pc[u]
  BY <1>1, GoSets
<1>4. \A q \in Procs \ {p} : current'[q] = current[q]
  BY <1>1 DEF TypeOK
<1>5. \A u \in Threads \ {t} :
        pc[u] \in {"increment", "wait", "post"} => ProcOf[u] \in Procs \ {p}
  BY <1>1, TreeAssumption DEF WInv, NoOverlap, Releasing
<1>6. InHand' = InHand
  BY <1>1, <1>3, <1>4, <1>5 DEF InHand
<1>7. Conserved'
  BY <1>1, <1>2, <1>6, ConservedNext DEF WInv, Conserved, Makes
<1>8. WaitsBusy' /\ PostsMany'
  BY <1>3, <1>4, <1>5 DEF WInv, WaitsBusy, PostsMany
<1> QED
  BY <1>7, <1>8

-----------------------------------------------------------------------------
(* Nobody is aborted: TestZero goes on to the second load.                 *)
LEMMA ZeroPasses ==
  ASSUME IInv, NEW t \in Threads, TestZero(t)
  PROVE  Transition(t, "zero?", "many?") /\ UNCHANGED <<units, current>>
<1>1. current[ProcOf[t]] > 0
  BY HolderIsCounted DEF IInv, TestZero, Counted, Releasing
<1> QED
  BY <1>1 DEF TestZero, Transition

LEMMA SerialStep ==
  ASSUME WInv, [SerialNext]_vars
  PROVE  Conserved' /\ WaitsBusy' /\ PostsMany'
<1> USE DEF Transition, Goes, Busy
<1>0. /\ IInv /\ units \in Int
      /\ \A t \in Threads : ProcOf[t] \in Procs /\ current[ProcOf[t]] \in Nat
  BY TreeAssumption DEF WInv, IInv, TypeOK
<1>1. ASSUME NEW t \in Threads, BeginTake(t) \/ BeginRelease(t) \/ TestZero(t)
      PROVE  Conserved' /\ WaitsBusy' /\ PostsMany'
  <2>1. CASE BeginTake(t)
    BY <2>1, QuietStep DEF BeginTake
  <2>2. CASE BeginRelease(t)
    BY <2>2, QuietStep DEF BeginRelease
  <2>3. CASE TestZero(t)
    BY <1>0, <2>3, ZeroPasses, QuietStep
  <2> QED
    BY <1>1, <2>1, <2>2, <2>3
<1>2. ASSUME NEW t \in Threads, TestBusy(t)
      PROVE  Conserved' /\ WaitsBusy' /\ PostsMany'
  <2>1. CASE current[ProcOf[t]] >= 1 /\ Transition(t, "test", "wait")
    <3>1. current[ProcOf[t]] > 0 /\ UNCHANGED <<units, current>>
      BY <1>0, <1>2, <2>1 DEF TestBusy
    <3> QED
      BY <2>1, <3>1, QuietStep
  <2>2. CASE current[ProcOf[t]] < 1 /\ Transition(t, "test", "increment")
    <3>1. ~(current[ProcOf[t]] > 0) /\ UNCHANGED <<units, current>>
      BY <1>0, <1>2, <2>2 DEF TestBusy
    <3> QED
      BY <2>2, <3>1, QuietStep
  <2> QED
    BY <1>2, <2>1, <2>2 DEF TestBusy
<1>3. ASSUME NEW t \in Threads, WaitFor(t)
      PROVE  Conserved' /\ WaitsBusy' /\ PostsMany'
  <2>1. CASE units' = units - 1 /\ Transition(t, "wait", "increment")
    BY <1>3, <2>1, UnitTaken DEF WaitFor
  <2>2. CASE units' = units /\ Transition(t, "wait", "test")
    BY <1>3, <2>2, QuietStep DEF WaitFor
  <2> QED
    BY <1>3, <2>1, <2>2 DEF WaitFor
<1>4. ASSUME NEW t \in Threads, TestMany(t)
      PROVE  Conserved' /\ WaitsBusy' /\ PostsMany'
  <2>1. CASE current[ProcOf[t]] > 1 /\ Transition(t, "many?", "post")
    BY <1>4, <2>1, QuietStep DEF TestMany
  <2>2. CASE current[ProcOf[t]] <= 1 /\ Transition(t, "many?", "decrement")
    <3>1. ~(current[ProcOf[t]] > 1) /\ UNCHANGED <<units, current>>
      BY <1>0, <1>4, <2>2 DEF TestMany
    <3> QED
      BY <2>2, <3>1, FreeSlotLeft
  <2> QED
    BY <1>4, <2>1, <2>2 DEF TestMany
<1>5. CASE UNCHANGED vars
  BY <1>5 DEF vars, WInv, Conserved, Makes, InHand, Running, ImageOf, WaitsBusy, PostsMany
<1> QED
  BY <1>1, <1>2, <1>3, <1>4, <1>5, JobCounted, UnitPosted, JobUncounted
     DEF SerialNext, Next, Step

LEMMA SerialInvariant == SerialSpec => []WInv
<1>1. Init => WInv
  <2> SUFFICES ASSUME Init PROVE WInv
    OBVIOUS
  <2>1. Running = {} /\ InHand = {} /\ Makes = {}
    BY DEF Init, Running, InHand, Makes, ImageOf
  <2>2. Conserved
    BY <2>1, FS_EmptySet, TreeAssumption DEF Init, Conserved
  <2>3. NoOverlap /\ WaitsBusy /\ PostsMany
    BY DEF Init, NoOverlap, WaitsBusy, PostsMany, Releasing
  <2> QED
    BY <2>2, <2>3, InitIInv DEF WInv
<1>2. WInv /\ [SerialNext]_vars => WInv'
  <2> SUFFICES ASSUME WInv, [SerialNext]_vars PROVE WInv'
    OBVIOUS
  <2>1. IInv'
    BY NextIInv DEF WInv, SerialNext
  <2>2. NoOverlap'
    BY DEF WInv, SerialNext, NoOverlap, vars
  <2> QED
    BY <2>1, <2>2, SerialStep DEF WInv
<1> QED
  BY <1>1, <1>2, PTL DEF SerialSpec

-----------------------------------------------------------------------------
(* The Committed of JobSlots, with the image written as ImageOf.           *)
LEMMA CommittedDefinition ==
  ASSUME NEW S
  PROVE  Slots!Committed(S) = Cardinality(S) - Cardinality(ImageOf(ProcOf, S))
<1>1. \A T : Slots!Cardinality(T) = Cardinality(T)
  BY DEF Slots!Cardinality, Cardinality
<1> QED
  BY <1>1 DEF Slots!Committed, ImageOf

(* The units that are out are those the jobs need.                         *)
THEOREM Units == SerialSpec => []UnitsConserved
<1>1. WInv => UnitsConserved
  <2> SUFFICES ASSUME WInv, \A t \in Threads : pc[t] \in {"idle", "test", "wait", "job"}
               PROVE  units + Slots!Committed(Running) = MaxJobs
    BY DEF UnitsConserved
  <2>1. InHand = {}
    BY DEF InHand
  <2>2. Cardinality(InHand) = 0
    BY <2>1, FS_EmptySet
  <2>3. units \in Int
    BY TreeAssumption DEF WInv, IInv, TypeOK
  <2> QED
    BY <2>2, <2>3, CommittedDefinition, Finite DEF WInv, Conserved, Makes
<1> QED
  BY <1>1, SerialInvariant, PTL

(* The makes of a tree never use more than MaxJobs slots besides the free  *)
(* one of each make.                                                       *)
THEOREM Limit == SerialSpec => []Slots!SlotsRespected
<1>1. WInv => Slots!SlotsRespected
  BY CommittedDefinition, Finite, TreeAssumption
     DEF Slots!SlotsRespected, WInv, Conserved, Makes, IInv, TypeOK
<1> QED
  BY <1>1, SerialInvariant, PTL

LEMMA WithinLimitNext ==
  ASSUME WInv'
  PROVE  Cardinality(Running') - Cardinality(ImageOf(ProcOf, Running')) <= MaxJobs
<1>1. units' \in 0 .. MaxJobs /\ Conserved'
  BY DEF WInv, IInv, TypeOK
<1>2. Running' \subseteq Threads /\ InHand' \subseteq Threads
  BY DEF Running, InHand
<1>3. IsFiniteSet(Running') /\ IsFiniteSet(InHand')
  BY <1>2, FS_Subset, TreeAssumption
<1>4. /\ Cardinality(InHand') \in Nat /\ Cardinality(Running') \in Nat
      /\ Cardinality(ImageOf(ProcOf, Running')) \in Nat
  BY <1>3, FS_CardinalityType, ImageFinite
<1> QED
  BY <1>1, <1>4, ConservedNext, TreeAssumption

(* A step of a worker adds it to those that have a job, removes it, or     *)
(* leaves them as they are.                                                *)
LEMMA SlotsStep ==
  ASSUME WInv, WInv', [SerialNext]_vars
  PROVE  [Slots!Next]_Running
<1>0. TypeOK /\ IInv
  BY DEF WInv, IInv
<1>1. CASE UNCHANGED vars
  BY <1>1 DEF vars, Running
<1>2. CASE \E t \in Threads : BeginTake(t) \/ Step(t)
  <2>1. PICK t \in Threads : BeginTake(t) \/ Step(t)
    BY <1>2
  <2>2. PICK to : Goes(t, to)
    <3>1. CASE TestZero(t)
      BY <1>0, <3>1, ZeroPasses DEF Transition, Goes
    <3>2. CASE ~TestZero(t)
      BY <2>1, <3>2
         DEF Step, BeginTake, TestBusy, WaitFor, Increment, BeginRelease, TestMany, Post,
             Decrement, Transition, Goes
    <3> QED
      BY <3>1, <3>2
  <2>3. CASE to \in Busy /\ t \notin Running
    <3>1. Running' = Running \cup {t}
      BY <1>0, <2>2, <2>3, GoSets
    <3>2. Slots!Committed(Running \cup {t}) <= MaxJobs
      BY <3>1, CommittedDefinition, WithinLimitNext
    <3>3. Slots!Start(t)
      BY <2>3, <3>1, <3>2 DEF Slots!Start
    <3> QED
      BY <3>3 DEF Slots!Next
  <2>4. CASE to \notin Busy /\ t \in Running
    <3>1. Running' = Running \ {t}
      BY <1>0, <2>2, <2>4, GoSets
    <3>2. Slots!Finish(t)
      BY <2>4, <3>1 DEF Slots!Finish
    <3> QED
      BY <3>2 DEF Slots!Next
  <2>5. CASE to \in Busy <=> t \in Running
    <3>1. Running' = Running
      BY <1>0, <2>2, <2>5, GoSets
    <3> QED
      BY <3>1
  <2> QED
    BY <2>3, <2>4, <2>5
<1> QED
  BY <1>1, <1>2 DEF SerialNext, Next

(* The Windows job server implements JobSlots.                             *)
THEOREM Implements == SerialSpec => ImplementsJobSlots
<1>1. Init => Slots!Init
  BY DEF Init, Slots!Init, Running
<1>2. WInv /\ WInv' /\ [SerialNext]_vars => [Slots!Next]_Running
  BY SlotsStep
<1> QED
  BY <1>1, <1>2, SerialInvariant, PTL DEF SerialSpec, ImplementsJobSlots, Slots!Spec

-----------------------------------------------------------------------------
(* SerialSpec restricts nothing but the overlaps.                          *)
LEMMA Apart == Spec /\ []NoOverlap => SerialSpec
<1>1. [Next]_vars /\ NoOverlap' => [SerialNext]_vars
  BY DEF SerialNext
<1> QED
  BY <1>1, PTL DEF Spec, SerialSpec

(* Makes with one worker each need no restriction: with -j 1, where the    *)
(* threads of a make take turns, the code as it is loses no unit and       *)
(* implements JobSlots, whatever the other makes do with the semaphore at  *)
(* the same time.                                                          *)
OneWorkerEach == \A t, u \in Threads : ProcOf[t] = ProcOf[u] => t = u

THEOREM OneWorker ==
  ASSUME OneWorkerEach
  PROVE  Spec => []UnitsConserved /\ ImplementsJobSlots
<1>1. NoOverlap
  BY DEF OneWorkerEach, NoOverlap
<1>2. Spec => SerialSpec
  BY <1>1, Apart, PTL
<1> QED
  BY <1>2, Units, Implements, PTL
=============================================================================
