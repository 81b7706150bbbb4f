----------------------- MODULE SerialJobServer_proofs -----------------------
(***************************************************************************)
(* Proofs about SerialJobServer, for every tree of makes, every number of  *)
(* workers and every -j: as long as no release of a make overlaps a take   *)
(* or another release of it, no byte of the FIFO is lost or made, the      *)
(* stack of a make has the bytes its jobs were paid with, no make is       *)
(* aborted, and the POSIX job server implements JobSlots.                  *)
(***************************************************************************)
EXTENDS SerialJobServer, PosixJobServer_proofs, CountingLemmas

-----------------------------------------------------------------------------
(* The sets that the invariants count.                                     *)
Stacked      == Paid \cup {"pop"}
StackOf(p)   == {t \in ThreadsOf(p) : pc[t] \in Stacked}
Uncounted(p) == {t \in ThreadsOf(p) : pc[t] = "increment"}
InHand       == {t \in Threads : pc[t] \in {"push", "increment"}}
Makes        == ImageOf(ProcOf, Running)

StackMatches(p) ==
  depth[p] = Cardinality(Uncounted(p))
             + (IF StackOf(p) = {} THEN 0 ELSE Cardinality(StackOf(p)) - 1)

(* A worker that takes a byte is not the only one of its make: the free    *)
(* slot is in use by one that stays in its job meanwhile.                  *)
Accompanied ==
  \A t \in Threads : pc[t] \in Taking => \E u \in ThreadsOf(ProcOf[t]) : pc[u] = "job"

(* A worker that gives a byte back is not the only one that has a job.     *)
GivingBack == {"empty?", "top", "write", "pop"}
HasByte == \A t \in Threads : pc[t] \in GivingBack => current[ProcOf[t]] > 1

(* A worker that waits for a sub-make has a job, a make that is not up has *)
(* no worker at work, and for each sub-make some worker waits.             *)
Waits     == \A t \in Threads : sub[t] # NoProc => pc[t] = "job"
Quiet     == \A p \in Procs : status[p] # "up" => \A t \in ThreadsOf(p) : pc[t] = "idle"
WaitedFor == \A p \in Procs \ {Root} : status[p] = "up" => \E t \in Threads : sub[t] = p

(* The inductive invariant.  Accompanied and HasByte say why the step that *)
(* adds or removes a paid worker neither takes nor leaves the free slot;   *)
(* the last three say that a make goes only when nobody in it has a job.   *)
SInv ==
  /\ IInv
  /\ NoOverlap
  /\ StackMatchesJobs
  /\ BytesConserved
  /\ Accompanied
  /\ HasByte
  /\ Waits /\ Quiet /\ WaitedFor

-----------------------------------------------------------------------------
LEMMA StackDefinition == StackMatchesJobs <=> \A p \in Procs : StackMatches(p)
BY DEF StackMatchesJobs, StackMatches, StackOf, Uncounted, Stacked

LEMMA StackDefinitionNext == StackMatchesJobs' <=> \A p \in Procs : StackMatches(p)'
BY DEF StackMatchesJobs, StackMatches, StackOf, Uncounted, Stacked

LEMMA BytesDefinition ==
  BytesConserved
    <=> pipe + Cardinality(Running) - Cardinality(Makes) + Cardinality(InHand) = filled
BY DEF BytesConserved, Makes, InHand, ImageOf

LEMMA BytesDefinitionNext ==
  BytesConserved'
    <=> pipe' + Cardinality(Running') - Cardinality(Makes') + Cardinality(InHand') = filled'
BY DEF BytesConserved, Makes, InHand, ImageOf, Running

(* The sets are finite.                                                    *)
LEMMA Finite ==
  /\ IsFiniteSet(Running) /\ IsFiniteSet(InHand)
  /\ Cardinality(Running) \in Nat /\ Cardinality(InHand) \in Nat
  /\ Cardinality(Makes) \in Nat /\ Cardinality(Makes) <= Cardinality(Running)
  /\ \A p \in Procs : /\ IsFiniteSet(StackOf(p)) /\ IsFiniteSet(Uncounted(p))
                      /\ IsFiniteSet(Holders(p))
                      /\ Cardinality(StackOf(p)) \in Nat
                      /\ Cardinality(Uncounted(p)) \in Nat
<1>1. /\ Running \in SUBSET Threads /\ InHand \in SUBSET Threads
      /\ \A p \in Procs : /\ StackOf(p) \in SUBSET Threads
                          /\ Uncounted(p) \in SUBSET Threads
                          /\ Holders(p) \in SUBSET Threads
  BY DEF Running, InHand, StackOf, Uncounted, Holders, ThreadsOf
<1>2. \A S \in SUBSET Threads : IsFiniteSet(S)
  BY FS_Subset, ThreadsAssumption
<1>3. \A S \in SUBSET Threads : Cardinality(S) \in Nat
  BY <1>2, FS_CardinalityType
<1> QED
  BY <1>1, <1>2, <1>3, ImageFinite DEF Makes

-----------------------------------------------------------------------------
(* What a move of one worker does to the sets.                             *)
Moves(t, to) == pc' = [pc EXCEPT ![t] = to]

LEMMA MoveSets ==
  ASSUME TypeOK, NEW t \in Threads, NEW to, Moves(t, to)
  PROVE  /\ Running' = IF to \in Paid THEN Running \cup {t} ELSE Running \ {t}
         /\ InHand' = IF to \in {"push", "increment"} THEN InHand \cup {t} ELSE InHand \ {t}
         /\ t \in Running <=> pc[t] \in Paid
         /\ t \in InHand <=> pc[t] \in {"push", "increment"}
BY DEF TypeOK, Moves, Running, InHand

(* The stack of another make is as it was.                                 *)
LEMMA OtherStacks ==
  ASSUME TypeOK, NEW t \in Threads, NEW to, Moves(t, to),
         NEW q \in Procs, q # ProcOf[t], StackMatches(q), depth'[q] = depth[q]
  PROVE  StackMatches(q)'
<1>1. StackOf(q)' = StackOf(q) /\ Uncounted(q)' = Uncounted(q)
  BY DEF TypeOK, Moves, StackOf, Uncounted, ThreadsOf
<1> QED
  BY <1>1 DEF StackMatches

LEMMA OwnStack ==
  ASSUME TypeOK, NEW t \in Threads, NEW to, Moves(t, to), NEW p \in Procs, p = ProcOf[t]
  PROVE  /\ StackOf(p)' = IF to \in Stacked THEN StackOf(p) \cup {t} ELSE StackOf(p) \ {t}
         /\ Uncounted(p)' = IF to = "increment" THEN Uncounted(p) \cup {t}
                            ELSE Uncounted(p) \ {t}
         /\ t \in StackOf(p) <=> pc[t] \in Stacked
         /\ t \in Uncounted(p) <=> pc[t] = "increment"
         /\ t \in Holders(p) <=> pc[t] \in Counted
         /\ StackOf(p) \subseteq Holders(p)
BY ThreadsAssumption
   DEF TypeOK, Moves, StackOf, Uncounted, ThreadsOf, Holders, Stacked, Paid, Counted, Releasing

(* A move that neither pushes nor pops, nor comes to a job nor leaves one. *)
LEMMA StackSame ==
  ASSUME TypeOK, StackMatchesJobs, NEW t \in Threads, NEW to, Moves(t, to),
         pc[t] \in Stacked <=> to \in Stacked,
         pc[t] = "increment" <=> to = "increment",
         UNCHANGED depth
  PROVE  StackMatchesJobs'
<1> DEFINE p == ProcOf[t]
<1>0. p \in Procs
  BY ThreadsAssumption
<1>1. StackOf(p)' = StackOf(p) /\ Uncounted(p)' = Uncounted(p)
  BY DEF TypeOK, Moves, StackOf, Uncounted, ThreadsOf
<1>2. StackMatches(p)'
  BY <1>0, <1>1, StackDefinition DEF StackMatches
<1>3. \A q \in Procs : q # p => StackMatches(q)'
  BY StackDefinition, OtherStacks
<1> QED
  BY <1>2, <1>3, StackDefinitionNext

(* A move that changes neither the FIFO nor whom a byte is spent on.       *)
LEMMA BytesSame ==
  ASSUME TypeOK, BytesConserved, NEW t \in Threads, NEW to, Moves(t, to),
         pc[t] \in Paid <=> to \in Paid,
         pc[t] \in {"push", "increment"} <=> to \in {"push", "increment"},
         UNCHANGED <<pipe, filled>>
  PROVE  BytesConserved'
<1>1. Running' = Running /\ InHand' = InHand
  BY MoveSets
<1>2. Makes' = Makes
  BY <1>1 DEF Makes
<1> QED
  BY <1>1, <1>2, BytesDefinition, BytesDefinitionNext

(* The worker that keeps another company stays in its job: a release may   *)
(* not begin while the other takes.                                        *)
LEMMA AccompaniedMove ==
  ASSUME SInv, NoOverlap', NEW t \in Threads, NEW to, Moves(t, to),
         to \in Taking =>
           pc[t] \in Taking \/ \E u \in ThreadsOf(ProcOf[t]) : u # t /\ pc[u] = "job",
         pc[t] = "job" => to \in Releasing
  PROVE  Accompanied'
<1> SUFFICES ASSUME NEW s \in Threads, pc'[s] \in Taking
             PROVE  \E u \in ThreadsOf(ProcOf[s]) : pc'[u] = "job"
  BY DEF Accompanied, ThreadsOf
<1>0. TypeOK /\ pc'[t] = to /\ \A u \in Threads : u # t => pc'[u] = pc[u]
  BY DEF SInv, IInv, TypeOK, Moves
<1>1. CASE s = t
  <2>1. PICK u \in ThreadsOf(ProcOf[t]) : u # t /\ pc[u] = "job"
    BY <1>0, <1>1 DEF SInv, Accompanied, Taking
  <2> QED
    BY <1>0, <1>1, <2>1 DEF ThreadsOf
<1>2. CASE s # t
  <2>1. PICK u \in ThreadsOf(ProcOf[s]) : pc[u] = "job"
    BY <1>0, <1>2 DEF SInv, Accompanied
  <2>2. u # t
    BY <1>0, <1>2, <2>1 DEF NoOverlap, ThreadsOf
  <2> QED
    BY <1>0, <2>1, <2>2 DEF ThreadsOf
<1> QED
  BY <1>1, <1>2

(* current_jobs does not change under a worker that gives a byte back.     *)
LEMMA HasByteMove ==
  ASSUME SInv, NEW t \in Threads, NEW to, Moves(t, to),
         \A q \in Procs : q # ProcOf[t] => current'[q] = current[q],
         to \in GivingBack => current'[ProcOf[t]] > 1,
         \/ current'[ProcOf[t]] = current[ProcOf[t]]
         \/ current[ProcOf[t]] = 0
         \/ pc[t] \in Taking \cup Releasing
  PROVE  HasByte'
<1> SUFFICES ASSUME NEW s \in Threads, pc'[s] \in GivingBack
             PROVE  current'[ProcOf[s]] > 1
  BY DEF HasByte
<1>0. TypeOK /\ pc'[t] = to /\ \A u \in Threads : u # t => pc'[u] = pc[u]
  BY DEF SInv, IInv, TypeOK, Moves
<1>1. CASE s = t
  BY <1>0, <1>1
<1>2. CASE s # t
  <2>1. current[ProcOf[s]] > 1 /\ ProcOf[s] \in Procs
    BY <1>0, <1>2, ThreadsAssumption DEF SInv, HasByte
  <2>2. ProcOf[s] = ProcOf[t] => pc[t] \notin Taking \cup Releasing
    BY <1>0, <1>2 DEF SInv, NoOverlap, GivingBack, Releasing
  <2> QED
    BY <2>1, <2>2
<1> QED
  BY <1>1, <1>2

(* No move of a worker changes who waits for which make.                   *)
LEMMA TreeMove ==
  ASSUME SInv, NEW t \in Threads, NEW to, Moves(t, to),
         UNCHANGED <<status, sub>>,
         status[ProcOf[t]] = "up" \/ pc[t] # "idle",
         pc[t] = "job" => sub[t] = NoProc
  PROVE  Waits' /\ Quiet' /\ WaitedFor'
<1>0. TypeOK /\ pc'[t] = to /\ \A u \in Threads : u # t => pc'[u] = pc[u]
  BY DEF SInv, IInv, TypeOK, Moves
<1>1. Waits'
  BY <1>0 DEF SInv, Waits
<1>2. status[ProcOf[t]] = "up"
  BY ThreadsAssumption DEF SInv, Quiet, ThreadsOf
<1>3. Quiet'
  BY <1>0, <1>2 DEF SInv, Quiet, ThreadsOf
<1>4. WaitedFor'
  BY DEF SInv, WaitedFor
<1> QED
  BY <1>1, <1>3, <1>4

-----------------------------------------------------------------------------
(* A step that moves a worker and changes nothing that is counted.         *)
LEMMA PlainMove ==
  ASSUME SInv, IInv', NoOverlap', NEW t \in Threads, NEW to, Moves(t, to),
         UNCHANGED <<pipe, filled, status, current, depth, sub>>,
         pc[t] \in Stacked <=> to \in Stacked,
         pc[t] \in Paid <=> to \in Paid,
         pc[t] = "increment" <=> to = "increment",
         pc[t] = "push" <=> to = "push",
         to \in Taking =>
           pc[t] \in Taking \/ \E u \in ThreadsOf(ProcOf[t]) : u # t /\ pc[u] = "job",
         to \in GivingBack => current[ProcOf[t]] > 1,
         pc[t] = "job" => to \in Releasing /\ sub[t] = NoProc,
         pc[t] = "idle" => status[ProcOf[t]] = "up"
  PROVE  SInv'
<1>0. TypeOK
  BY DEF SInv, IInv
<1>1. StackMatchesJobs' /\ BytesConserved'
  BY <1>0, StackSame, BytesSame DEF SInv
<1>2. Accompanied'
  BY AccompaniedMove
<1>3. HasByte'
  BY HasByteMove
<1>4. Waits' /\ Quiet' /\ WaitedFor'
  BY TreeMove
<1> QED
  BY <1>1, <1>2, <1>3, <1>4 DEF SInv

(* compare_exchange_strong(0, 1) finds 0: the first job of the make.       *)
LEMMA FirstJob ==
  ASSUME SInv, IInv', NoOverlap', NEW t \in Threads, Exchange(t), current[ProcOf[t]] = 0
  PROVE  SInv'
<1> DEFINE p == ProcOf[t]
<1>0. /\ TypeOK /\ p \in Procs /\ pc[t] = "exchange" /\ Moves(t, "job")
      /\ current' = [current EXCEPT ![p] = 1]
      /\ UNCHANGED <<pipe, filled, status, depth, sub>>
  BY ThreadsAssumption DEF SInv, IInv, Exchange, Moves
<1>1. Holders(p) = {}
  BY <1>0, Finite, FS_EmptySet DEF SInv, IInv, CountsHolders
<1>2. \A u \in Threads : ProcOf[u] = p => pc[u] \notin Counted
  BY <1>1 DEF Holders, ThreadsOf
<1>3. StackMatchesJobs'
  <2>1. /\ StackOf(p) = {} /\ StackOf(p)' = {t} /\ Uncounted(p)' = Uncounted(p)
    BY <1>0, <1>2
       DEF TypeOK, Moves, StackOf, Uncounted, ThreadsOf, Stacked, Paid, Counted, Releasing
  <2>2. StackMatches(p)'
    <3>1. depth[p] = Cardinality(Uncounted(p)) /\ Cardinality(Uncounted(p)) \in Nat
      BY <1>0, <2>1, StackDefinition, Finite DEF SInv, StackMatches
    <3>2. Cardinality(StackOf(p)') = 1 /\ StackOf(p)' # {}
      BY <2>1, FS_Singleton
    <3> QED
      BY <1>0, <2>1, <3>1, <3>2 DEF StackMatches
  <2>3. \A q \in Procs : q # p => StackMatches(q)'
    BY <1>0, StackDefinition, OtherStacks DEF SInv
  <2> QED
    BY <2>2, <2>3, StackDefinitionNext
<1>4. BytesConserved'
  <2>1. Running' = Running \cup {t} /\ t \notin Running /\ InHand' = InHand
    BY <1>0 DEF TypeOK, Moves, Running, InHand, Paid
  <2>2. \A u \in Running : ProcOf[u] # p
    BY <1>2 DEF Running, Paid, Counted, Releasing
  <2>3. Cardinality(Running') = Cardinality(Running) + 1
    <3>1. IsFiniteSet(Running)
      BY Finite
    <3> QED
      BY <2>1, <3>1, FS_AddElement
  <2>4. Cardinality(Makes') = Cardinality(Makes) + 1
    <3>1. IsFiniteSet(Running)
      BY Finite
    <3>2. Cardinality(ImageOf(ProcOf, Running \cup {t})) = Cardinality(Makes) + 1
      BY <2>2, <3>1, ImageAdd DEF Makes
    <3> QED
      BY <2>1, <3>2 DEF Makes
  <2> QED
    BY <1>0, <2>1, <2>3, <2>4, Finite, BytesDefinition, BytesDefinitionNext DEF SInv, TypeOK
<1>5. Accompanied'
  BY <1>0, AccompaniedMove DEF Taking
<1>6. HasByte'
  BY <1>0, HasByteMove DEF GivingBack, TypeOK
<1>7. Waits' /\ Quiet' /\ WaitedFor'
  BY <1>0, TreeMove
<1> QED
  BY <1>3, <1>4, <1>5, <1>6, <1>7 DEF SInv

(* read returns a byte.                                                    *)
LEMMA ReadByte ==
  ASSUME SInv, IInv', NoOverlap', NEW t \in Threads, ReadToken(t), pipe > 0
  PROVE  SInv'
<1>0. /\ TypeOK /\ pc[t] = "read" /\ Moves(t, "push") /\ pipe' = pipe - 1
      /\ UNCHANGED <<filled, status, current, depth, sub>>
  BY DEF SInv, IInv, ReadToken, Moves
<1>1. StackMatchesJobs'
  BY <1>0, StackSame DEF SInv, Stacked, Paid
<1>2. BytesConserved'
  <2>1. /\ Running' = Running /\ InHand' = InHand \cup {t} /\ t \notin InHand
    BY <1>0 DEF TypeOK, Moves, Running, InHand, Paid
  <2>2. Makes' = Makes
    BY <2>1 DEF Makes
  <2>3. Cardinality(InHand') = Cardinality(InHand) + 1
    <3>1. IsFiniteSet(InHand)
      BY Finite
    <3> QED
      BY <2>1, <3>1, FS_AddElement
  <2> QED
    BY <1>0, <2>1, <2>2, <2>3, Finite, BytesDefinition, BytesDefinitionNext DEF SInv, TypeOK
<1>3. Accompanied'
  BY <1>0, AccompaniedMove DEF Taking
<1>4. HasByte'
  BY <1>0, HasByteMove DEF GivingBack
<1>5. Waits' /\ Quiet' /\ WaitedFor'
  BY <1>0, TreeMove
<1> QED
  BY <1>1, <1>2, <1>3, <1>4, <1>5 DEF SInv

(* push: one more byte on the stack, and one more worker to be counted.    *)
LEMMA PushByte ==
  ASSUME SInv, IInv', NoOverlap', NEW t \in Threads,
         Transition(t, "push", "increment"), depth' = [depth EXCEPT ![ProcOf[t]] = @ + 1],
         UNCHANGED <<pipe, filled, status, current, sub>>
  PROVE  SInv'
<1> DEFINE p == ProcOf[t]
<1>0. /\ TypeOK /\ p \in Procs /\ pc[t] = "push" /\ Moves(t, "increment")
      /\ depth[p] \in Int /\ depth'[p] = depth[p] + 1
      /\ \A q \in Procs : q # p => depth'[q] = depth[q]
  BY ThreadsAssumption DEF SInv, IInv, TypeOK, Transition, Moves
<1>1. StackMatchesJobs'
  <2>1. /\ StackOf(p)' = StackOf(p)
        /\ Uncounted(p)' = Uncounted(p) \cup {t} /\ t \notin Uncounted(p)
    BY <1>0 DEF TypeOK, Moves, StackOf, Uncounted, ThreadsOf, Stacked, Paid
  <2>2. Cardinality(Uncounted(p)') = Cardinality(Uncounted(p)) + 1
    <3>1. IsFiniteSet(Uncounted(p))
      BY <1>0, Finite
    <3> QED
      BY <2>1, <3>1, FS_AddElement
  <2>3. StackMatches(p)'
    BY <1>0, <2>1, <2>2, StackDefinition, Finite DEF SInv, StackMatches
  <2>4. \A q \in Procs : q # p => StackMatches(q)'
    BY <1>0, StackDefinition, OtherStacks DEF SInv
  <2> QED
    BY <2>3, <2>4, StackDefinitionNext
<1>2. BytesConserved'
  BY <1>0, BytesSame DEF SInv, Paid
<1>3. Accompanied'
  BY <1>0, AccompaniedMove DEF Taking
<1>4. HasByte'
  BY <1>0, HasByteMove DEF GivingBack
<1>5. Waits' /\ Quiet' /\ WaitedFor'
  BY <1>0, TreeMove
<1> QED
  BY <1>1, <1>2, <1>3, <1>4, <1>5 DEF SInv

(* current_jobs++: a further job of a make, paid with the byte it pushed.  *)
LEMMA FurtherJob ==
  ASSUME SInv, IInv', NoOverlap', NEW t \in Threads, Increment(t)
  PROVE  SInv'
<1> DEFINE p == ProcOf[t]
<1>0. /\ TypeOK /\ p \in Procs /\ pc[t] = "increment" /\ Moves(t, "job")
      /\ current' = [current EXCEPT ![p] = @ + 1]
      /\ UNCHANGED <<pipe, filled, status, depth, sub>>
  BY ThreadsAssumption DEF SInv, IInv, Increment, Transition, Moves
<1>1. PICK u \in ThreadsOf(p) : pc[u] = "job"
  BY <1>0 DEF SInv, Accompanied, Taking
<1>2. StackMatchesJobs'
  <2>1. /\ StackOf(p)' = StackOf(p) \cup {t} /\ t \notin StackOf(p) /\ u \in StackOf(p)
        /\ Uncounted(p)' = Uncounted(p) \ {t} /\ t \in Uncounted(p)
    BY <1>0, <1>1 DEF TypeOK, Moves, StackOf, Uncounted, ThreadsOf, Stacked, Paid
  <2>2. /\ Cardinality(Uncounted(p)') = Cardinality(Uncounted(p)) - 1
        /\ Cardinality(StackOf(p)') = Cardinality(StackOf(p)) + 1
    <3>1. IsFiniteSet(Uncounted(p)) /\ IsFiniteSet(StackOf(p))
      BY <1>0, Finite
    <3>2. Cardinality(Uncounted(p)') = Cardinality(Uncounted(p)) - 1
      BY <2>1, <3>1, FS_RemoveElement
    <3>3. Cardinality(StackOf(p)') = Cardinality(StackOf(p)) + 1
      BY <2>1, <3>1, FS_AddElement
    <3> QED
      BY <3>2, <3>3
  <2>3. StackOf(p) # {} /\ StackOf(p)' # {}
    BY <2>1
  <2>4. StackMatches(p)'
    <3>1. /\ depth[p] = Cardinality(Uncounted(p)) + (Cardinality(StackOf(p)) - 1)
          /\ Cardinality(Uncounted(p)) \in Nat /\ Cardinality(StackOf(p)) \in Nat
      BY <1>0, <2>3, StackDefinition, Finite DEF SInv, StackMatches
    <3>2. depth'[p] = Cardinality(Uncounted(p)') + (Cardinality(StackOf(p)') - 1)
      BY <1>0, <2>2, <3>1
    <3> QED
      BY <2>3, <3>2 DEF StackMatches
  <2>5. \A q \in Procs : q # p => StackMatches(q)'
    BY <1>0, StackDefinition, OtherStacks DEF SInv
  <2> QED
    BY <2>4, <2>5, StackDefinitionNext
<1>3. BytesConserved'
  <2>1. /\ Running' = Running \cup {t} /\ t \notin Running
        /\ InHand' = InHand \ {t} /\ t \in InHand
    BY <1>0 DEF TypeOK, Moves, Running, InHand, Paid
  <2>2. u \in Running /\ ProcOf[u] = p
    BY <1>1 DEF Running, Paid, ThreadsOf
  <2>3. /\ Cardinality(Running') = Cardinality(Running) + 1
        /\ Cardinality(InHand') = Cardinality(InHand) - 1
    <3>1. IsFiniteSet(Running) /\ IsFiniteSet(InHand)
      BY Finite
    <3>2. Cardinality(Running') = Cardinality(Running) + 1
      BY <2>1, <3>1, FS_AddElement
    <3>3. Cardinality(InHand') = Cardinality(InHand) - 1
      BY <2>1, <3>1, FS_RemoveElement
    <3> QED
      BY <3>2, <3>3
  <2>4. Cardinality(Makes') = Cardinality(Makes)
    <3>1. IsFiniteSet(Running)
      BY Finite
    <3>2. Cardinality(ImageOf(ProcOf, Running \cup {t})) = Cardinality(Makes)
      BY <2>2, <3>1, ImageAdd DEF Makes
    <3> QED
      BY <2>1, <3>2 DEF Makes
  <2> QED
    BY <1>0, <2>3, <2>4, Finite, BytesDefinition, BytesDefinitionNext DEF SInv, TypeOK
<1>4. Accompanied'
  BY <1>0, AccompaniedMove DEF Taking
<1>5. HasByte'
  BY <1>0, HasByteMove DEF GivingBack, TypeOK, Taking
<1>6. Waits' /\ Quiet' /\ WaitedFor'
  BY <1>0, TreeMove
<1> QED
  BY <1>2, <1>3, <1>4, <1>5, <1>6 DEF SInv

-----------------------------------------------------------------------------
(* current_jobs > 1 is false: the only job of the make, in its free slot.  *)
LEMMA LastJob ==
  ASSUME SInv, IInv', NoOverlap', NEW t \in Threads,
         current[ProcOf[t]] <= 1, Transition(t, "many?", "decrement"),
         UNCHANGED <<pipe, filled, status, current, depth, sub>>
  PROVE  SInv'
<1> DEFINE p == ProcOf[t]
<1>0. /\ TypeOK /\ p \in Procs /\ pc[t] = "many?" /\ Moves(t, "decrement")
      /\ UNCHANGED <<pipe, filled, status, depth, sub>>
  BY ThreadsAssumption DEF SInv, IInv, Transition, Moves
<1>1. Holders(p) = {t}
  <2>1. t \in Holders(p)
    BY <1>0 DEF Holders, ThreadsOf, Counted, Releasing
  <2>2. Cardinality(Holders(p)) <= 1
    BY <1>0 DEF SInv, IInv, CountsHolders
  <2> QED
    BY <1>0, <2>1, <2>2, Finite, AloneOrNot
<1>2. \A u \in Threads : ProcOf[u] = p /\ u # t => pc[u] \notin Counted
  BY <1>1 DEF Holders, ThreadsOf
<1>3. StackMatchesJobs'
  <2>1. /\ StackOf(p) = {t} /\ StackOf(p)' = {} /\ Uncounted(p)' = Uncounted(p)
    BY <1>0, <1>2
       DEF TypeOK, Moves, StackOf, Uncounted, ThreadsOf, Stacked, Paid, Counted, Releasing
  <2>2. Cardinality(StackOf(p)) = 1 /\ StackOf(p) # {}
    BY <2>1, FS_Singleton
  <2>3. depth[p] = Cardinality(Uncounted(p)) /\ Cardinality(Uncounted(p)) \in Nat
    BY <1>0, <2>2, StackDefinition, Finite DEF SInv, StackMatches
  <2>4. StackMatches(p)'
    BY <1>0, <2>1, <2>3 DEF StackMatches
  <2>5. \A q \in Procs : q # p => StackMatches(q)'
    BY <1>0, StackDefinition, OtherStacks DEF SInv
  <2> QED
    BY <2>4, <2>5, StackDefinitionNext
<1>4. BytesConserved'
  <2>1. Running' = Running \ {t} /\ t \in Running /\ InHand' = InHand
    BY <1>0 DEF TypeOK, Moves, Running, InHand, Paid
  <2>2. \A u \in Running : u # t => ProcOf[u] # p
    BY <1>2 DEF Running, Paid, Counted, Releasing
  <2>3. Cardinality(Running') = Cardinality(Running) - 1
    <3>1. IsFiniteSet(Running)
      BY Finite
    <3> QED
      BY <2>1, <3>1, FS_RemoveElement
  <2>4. Cardinality(Makes') = Cardinality(Makes) - 1
    <3>1. IsFiniteSet(Running)
      BY Finite
    <3>2. Cardinality(ImageOf(ProcOf, Running \ {t})) = Cardinality(Makes) - 1
      BY <2>1, <2>2, <3>1, ImageRemove DEF Makes
    <3> QED
      BY <2>1, <3>2 DEF Makes
  <2> QED
    BY <1>0, <2>1, <2>3, <2>4, Finite, BytesDefinition, BytesDefinitionNext DEF SInv, TypeOK
<1>5. Accompanied'
  BY <1>0, AccompaniedMove DEF Taking
<1>6. HasByte'
  BY <1>0, HasByteMove DEF GivingBack
<1>7. Waits' /\ Quiet' /\ WaitedFor'
  BY <1>0, TreeMove
<1> QED
  BY <1>3, <1>4, <1>5, <1>6, <1>7 DEF SInv

(* A worker that gives a byte back leaves another in its job: releases do  *)
(* not overlap, so all that are counted but it are in their jobs.          *)
LEMMA AnotherJob ==
  ASSUME SInv, NEW t \in Threads, pc[t] \in GivingBack
  PROVE  \E u \in Threads : ProcOf[u] = ProcOf[t] /\ u # t /\ pc[u] = "job"
<1> DEFINE p == ProcOf[t]
<1>0. p \in Procs
  BY ThreadsAssumption
<1>1. t \in Holders(p)
  BY DEF GivingBack, Holders, ThreadsOf, Counted, Releasing
<1>2. Cardinality(Holders(p)) > 1
  BY <1>0 DEF SInv, IInv, CountsHolders, HasByte
<1>3. PICK u \in Holders(p) : u # t
  BY <1>0, <1>1, <1>2, Finite, AloneOrNot
<1>4. pc[u] \notin Releasing
  BY <1>3 DEF SInv, NoOverlap, GivingBack, Releasing, Holders, ThreadsOf
<1> QED
  BY <1>3, <1>4 DEF Holders, ThreadsOf, Counted

(* write: the byte of a job that was not the only one of the make.         *)
LEMMA WriteByte ==
  ASSUME SInv, IInv', NoOverlap', NEW t \in Threads,
         Transition(t, "write", "pop"), pipe' = pipe + 1,
         UNCHANGED <<filled, status, current, depth, sub>>
  PROVE  SInv'
<1> DEFINE p == ProcOf[t]
<1>0. TypeOK /\ p \in Procs /\ pc[t] = "write" /\ Moves(t, "pop")
  BY ThreadsAssumption DEF SInv, IInv, Transition, Moves
<1>1. StackMatchesJobs'
  BY <1>0, StackSame DEF SInv, Stacked, Paid
<1>2. BytesConserved'
  <2>1. Running' = Running \ {t} /\ t \in Running /\ InHand' = InHand
    BY <1>0 DEF TypeOK, Moves, Running, InHand, Paid
  <2>2. PICK u \in Threads : ProcOf[u] = p /\ u # t /\ pc[u] = "job"
    BY <1>0, AnotherJob DEF GivingBack
  <2>3. u \in Running
    BY <2>2 DEF Running, Paid
  <2>4. Cardinality(Running') = Cardinality(Running) - 1
    <3>1. IsFiniteSet(Running)
      BY Finite
    <3> QED
      BY <2>1, <3>1, FS_RemoveElement
  <2>5. Cardinality(Makes') = Cardinality(Makes)
    <3>1. IsFiniteSet(Running)
      BY Finite
    <3>2. Cardinality(ImageOf(ProcOf, Running \ {t})) = Cardinality(Makes)
      BY <2>1, <2>2, <2>3, <3>1, ImageRemove DEF Makes
    <3> QED
      BY <2>1, <3>2 DEF Makes
  <2> QED
    BY <1>0, <2>1, <2>4, <2>5, Finite, BytesDefinition, BytesDefinitionNext DEF SInv, TypeOK
<1>3. Accompanied'
  BY <1>0, AccompaniedMove DEF Taking
<1>4. HasByte'
  BY <1>0, HasByteMove DEF GivingBack, SInv, HasByte
<1>5. Waits' /\ Quiet' /\ WaitedFor'
  BY <1>0, TreeMove
<1> QED
  BY <1>1, <1>2, <1>3, <1>4, <1>5 DEF SInv

(* pop: the byte that was written leaves the stack.                        *)
LEMMA PopByte ==
  ASSUME SInv, IInv', NoOverlap', NEW t \in Threads,
         Transition(t, "pop", "decrement"), depth' = [depth EXCEPT ![ProcOf[t]] = @ - 1],
         UNCHANGED <<pipe, filled, status, current, sub>>
  PROVE  SInv'
<1> DEFINE p == ProcOf[t]
<1>0. /\ TypeOK /\ p \in Procs /\ pc[t] = "pop" /\ Moves(t, "decrement")
      /\ depth[p] \in Int /\ depth'[p] = depth[p] - 1
      /\ \A q \in Procs : q # p => depth'[q] = depth[q]
  BY ThreadsAssumption DEF SInv, IInv, TypeOK, Transition, Moves
<1>1. StackMatchesJobs'
  <2>1. /\ StackOf(p)' = StackOf(p) \ {t} /\ t \in StackOf(p)
        /\ Uncounted(p)' = Uncounted(p)
    BY <1>0 DEF TypeOK, Moves, StackOf, Uncounted, ThreadsOf, Stacked, Paid
  <2>2. PICK u \in Threads : ProcOf[u] = p /\ u # t /\ pc[u] = "job"
    BY <1>0, AnotherJob DEF GivingBack
  <2>3. u \in StackOf(p)
    BY <2>2 DEF StackOf, ThreadsOf, Stacked, Paid
  <2>4. StackOf(p) # {} /\ StackOf(p)' # {}
    BY <2>1, <2>2, <2>3
  <2>5. Cardinality(StackOf(p)') = Cardinality(StackOf(p)) - 1
    <3>1. IsFiniteSet(StackOf(p))
      BY <1>0, Finite
    <3> QED
      BY <2>1, <3>1, FS_RemoveElement
  <2>6. StackMatches(p)'
    BY <1>0, <2>1, <2>4, <2>5, StackDefinition, Finite DEF SInv, StackMatches
  <2>7. \A q \in Procs : q # p => StackMatches(q)'
    BY <1>0, StackDefinition, OtherStacks DEF SInv
  <2> QED
    BY <2>6, <2>7, StackDefinitionNext
<1>2. BytesConserved'
  BY <1>0, BytesSame DEF SInv, Paid
<1>3. Accompanied'
  BY <1>0, AccompaniedMove DEF Taking
<1>4. HasByte'
  BY <1>0, HasByteMove DEF GivingBack
<1>5. Waits' /\ Quiet' /\ WaitedFor'
  BY <1>0, TreeMove
<1> QED
  BY <1>1, <1>2, <1>3, <1>4, <1>5 DEF SInv

(* current_jobs--: the release is over.                                    *)
LEMMA LeavesRelease ==
  ASSUME SInv, IInv', NoOverlap', NEW t \in Threads, Decrement(t)
  PROVE  SInv'
<1>0. /\ TypeOK /\ pc[t] = "decrement" /\ Moves(t, "idle")
      /\ current' = [current EXCEPT ![ProcOf[t]] = @ - 1]
      /\ UNCHANGED <<pipe, filled, status, depth, sub>>
  BY DEF SInv, IInv, Decrement, Transition, Moves
<1>1. StackMatchesJobs' /\ BytesConserved'
  BY <1>0, StackSame, BytesSame DEF SInv, Stacked, Paid
<1>2. Accompanied'
  BY <1>0, AccompaniedMove DEF Taking
<1>3. HasByte'
  BY <1>0, HasByteMove DEF GivingBack, TypeOK, Releasing
<1>4. Waits' /\ Quiet' /\ WaitedFor'
  BY <1>0, TreeMove
<1> QED
  BY <1>1, <1>2, <1>3, <1>4 DEF SInv

-----------------------------------------------------------------------------
(* The stack of a make is not empty while a worker gives a byte back, and  *)
(* never less than empty.                                                  *)
LEMMA StackHolds ==
  ASSUME SInv
  PROVE  /\ \A p \in Procs : depth[p] \in Nat
         /\ \A t \in Threads : pc[t] \in GivingBack => depth[ProcOf[t]] > 0
<1>1. ASSUME NEW p \in Procs
      PROVE  /\ depth[p] \in Nat
             /\ Cardinality(StackOf(p)) > 1 => depth[p] > 0
  <2>1. /\ StackMatches(p) /\ Cardinality(StackOf(p)) \in Nat
        /\ Cardinality(Uncounted(p)) \in Nat
        /\ StackOf(p) # {} => Cardinality(StackOf(p)) # 0
    BY StackDefinition, Finite, FS_EmptySet DEF SInv
  <2>2. CASE StackOf(p) = {}
    BY <2>1, <2>2, FS_EmptySet DEF StackMatches
  <2>3. CASE StackOf(p) # {}
    <3>1. depth[p] = Cardinality(Uncounted(p)) + (Cardinality(StackOf(p)) - 1)
      BY <2>1, <2>3 DEF StackMatches
    <3> QED
      BY <2>1, <2>3, <3>1
  <2> QED
    BY <2>2, <2>3
<1>2. ASSUME NEW t \in Threads, pc[t] \in GivingBack
      PROVE  depth[ProcOf[t]] > 0
  <2> DEFINE p == ProcOf[t]
  <2>1. PICK u \in Threads : ProcOf[u] = p /\ u # t /\ pc[u] = "job"
    BY <1>2, AnotherJob
  <2>2. p \in Procs /\ t \in StackOf(p) /\ u \in StackOf(p)
    BY <1>2, <2>1, ThreadsAssumption DEF StackOf, ThreadsOf, Stacked, Paid, GivingBack
  <2>3. Cardinality(StackOf(p)) > 1
    BY <2>1, <2>2, Finite, AloneOrNot
  <2> QED
    BY <1>1, <2>2, <2>3
<1> QED
  BY <1>1, <1>2

(* So no step of a worker throws or pops an empty stack: each one moves    *)
(* that worker, or is one more round of a loop.                            *)
LEMMA NoAborts ==
  ASSUME SInv, NEW t \in Threads, Step(t)
  PROVE  \/ UNCHANGED vars
         \/ UNCHANGED status /\ \E to : Moves(t, to)
<1> DEFINE p == ProcOf[t]
<1>0. p \in Procs /\ depth[p] \in Nat /\ (pc[t] \in GivingBack => depth[p] > 0)
  BY StackHolds, ThreadsAssumption
<1>1. pc[t] = "zero?" => current[p] # 0
  <2> SUFFICES ASSUME pc[t] = "zero?" PROVE current[p] # 0
    OBVIOUS
  <2>1. t \in Holders(p)
    BY DEF Holders, ThreadsOf, Counted, Releasing
  <2> QED
    BY <1>0, <2>1, Finite, FS_EmptySet DEF SInv, IInv, CountsHolders
<1>2. CASE Exchange(t)
  BY <1>2, Zenon DEF Exchange, Moves
<1>3. CASE ReadToken(t)
  BY <1>3, Zenon DEF ReadToken, Moves
<1>4. CASE Push(t)
  <2>1. Transition(t, "push", "increment") /\ UNCHANGED status
    BY <1>0, <1>4 DEF Push
  <2> QED
    BY <2>1 DEF Transition, Moves
<1>5. CASE Increment(t) \/ BeginRelease(t) \/ Decrement(t)
  BY <1>5 DEF Increment, BeginRelease, Decrement, Transition, Moves
<1>6. CASE TestZero(t)
  <2>1. pc' = [pc EXCEPT ![t] = "many?"] /\ UNCHANGED status
    BY <1>1, <1>6 DEF TestZero
  <2> QED
    BY <2>1 DEF Moves
<1>7. CASE TestMany(t)
  BY <1>7, Zenon DEF TestMany, Transition, Moves
<1>8. CASE TestEmpty(t)
  <2>1. Transition(t, "empty?", "top") /\ UNCHANGED status
    BY <1>0, <1>8 DEF TestEmpty, GivingBack
  <2> QED
    BY <2>1 DEF Transition, Moves
<1>9. CASE Top(t)
  <2>1. Transition(t, "top", "write") /\ UNCHANGED status
    BY <1>0, <1>9 DEF Top, GivingBack
  <2> QED
    BY <2>1 DEF Transition, Moves
<1>10. CASE WriteToken(t)
  BY <1>10, Zenon DEF WriteToken, Transition, Moves
<1>11. CASE Pop(t)
  <2>1. Transition(t, "pop", "decrement") /\ UNCHANGED status
    BY <1>0, <1>11 DEF Pop, GivingBack
  <2> QED
    BY <2>1 DEF Transition, Moves
<1> QED
  BY <1>2, <1>3, <1>4, <1>5, <1>6, <1>7, <1>8, <1>9, <1>10, <1>11 DEF Step

-----------------------------------------------------------------------------
LEMMA InitSInv == Init => SInv
<1> SUFFICES ASSUME Init PROVE SInv
  OBVIOUS
<1>1. IInv
  BY InitIInv
<1>2. \A t \in Threads : pc[t] = "idle" /\ sub[t] = NoProc
  BY DEF Init
<1>3. NoOverlap /\ Accompanied /\ HasByte /\ Waits /\ Quiet
  BY <1>2 DEF NoOverlap, Accompanied, HasByte, Waits, Quiet, Releasing, Taking, GivingBack,
              ThreadsOf
<1>4. WaitedFor
  BY DEF Init, WaitedFor
<1>5. StackMatchesJobs
  <2>1. ASSUME NEW p \in Procs PROVE StackOf(p) = {} /\ Uncounted(p) = {} /\ depth[p] = 0
    BY <1>2 DEF Init, StackOf, Uncounted, ThreadsOf, Stacked, Paid
  <2> QED
    BY <2>1, StackDefinition, FS_EmptySet DEF StackMatches
<1>6. BytesConserved
  <2>1. Running = {} /\ InHand = {}
    BY <1>2 DEF Running, InHand, Paid
  <2>2. Makes = {}
    BY <2>1 DEF Makes, ImageOf
  <2> QED
    BY <2>1, <2>2, BytesDefinition, FS_EmptySet DEF Init
<1> QED
  BY <1>1, <1>3, <1>4, <1>5, <1>6 DEF SInv

(* The sets depend on the places of the workers only.                      *)
LEMMA SetsUnchanged ==
  ASSUME UNCHANGED pc
  PROVE  /\ Running' = Running /\ InHand' = InHand /\ Makes' = Makes
         /\ \A p : StackOf(p)' = StackOf(p) /\ Uncounted(p)' = Uncounted(p)
<1>1. Running' = Running /\ InHand' = InHand
  BY DEF Running, InHand
<1>2. \A p : StackOf(p)' = StackOf(p) /\ Uncounted(p)' = Uncounted(p)
  BY DEF StackOf, Uncounted
<1> QED
  BY <1>1, <1>2 DEF Makes

(* A step that moves no worker and touches neither FIFO, stacks, counts    *)
(* nor makes.                                                              *)
LEMMA StutterSInv ==
  ASSUME SInv, IInv', UNCHANGED vars
  PROVE  SInv'
<1>1. UNCHANGED <<pipe, filled, status, current, depth, pc, sub>>
  BY DEF vars
<1>2. NoOverlap' /\ Accompanied' /\ HasByte' /\ Waits' /\ Quiet' /\ WaitedFor'
  BY <1>1 DEF SInv, NoOverlap, Accompanied, HasByte, Waits, Quiet, WaitedFor
<1>3. StackMatchesJobs' /\ BytesConserved'
  BY <1>1, SetsUnchanged, StackDefinition, StackDefinitionNext, BytesDefinition,
     BytesDefinitionNext DEF SInv, StackMatches
<1> QED
  BY <1>2, <1>3 DEF SInv

(* One step of a worker, made while no other of its make is in the way.    *)
LEMMA StepSInv ==
  ASSUME SInv, IInv', NoOverlap', NEW t \in Threads, Step(t)
  PROVE  SInv'
<1> DEFINE p == ProcOf[t]
<1>0. p \in Procs /\ depth[p] \in Nat /\ (pc[t] \in GivingBack => depth[p] > 0)
  BY StackHolds, ThreadsAssumption
<1>1. CASE Exchange(t)
  <2>1. CASE current[p] = 0
    BY <1>1, <2>1, FirstJob
  <2>2. CASE current[p] # 0
    <3>1. /\ pc[t] = "exchange" /\ Moves(t, "read")
          /\ UNCHANGED <<pipe, filled, status, current, depth, sub>>
      BY <1>1, <2>2 DEF Exchange, Moves
    <3>2. PICK u \in Holders(p) : TRUE
      BY <1>0, <2>2, Finite, FS_EmptySet DEF SInv, IInv, CountsHolders
    <3>3. u \in ThreadsOf(p) /\ u # t /\ pc[u] \in Counted
      BY <3>1, <3>2 DEF Holders, Counted, Releasing
    <3>4. pc'[t] = "read" /\ pc'[u] = pc[u]
      BY <3>1, <3>3 DEF SInv, IInv, TypeOK, Moves, ThreadsOf
    <3>5. pc[u] \notin Releasing
      BY <3>3, <3>4 DEF NoOverlap, Taking, ThreadsOf
    <3>6. pc[u] = "job"
      BY <3>3, <3>5 DEF Counted
    <3> QED
      BY <3>1, <3>3, <3>6, PlainMove DEF Stacked, Paid, Taking, GivingBack
  <2> QED
    BY <2>1, <2>2
<1>2. CASE ReadToken(t)
  <2>1. CASE pipe > 0
    BY <1>2, <2>1, ReadByte
  <2>2. CASE ~(pipe > 0)
    <3>1. /\ pc[t] = "read" /\ Moves(t, "exchange")
          /\ UNCHANGED <<pipe, filled, status, current, depth, sub>>
      BY <1>2, <2>2 DEF ReadToken, Moves
    <3> QED
      BY <3>1, PlainMove DEF Stacked, Paid, Taking, GivingBack
  <2> QED
    BY <2>1, <2>2
<1>3. CASE Push(t)
  BY <1>0, <1>3, PushByte DEF Push
<1>4. CASE Increment(t)
  BY <1>4, FurtherJob
<1>5. CASE BeginRelease(t)
  <2>1. /\ pc[t] = "job" /\ Moves(t, "zero?") /\ sub[t] = NoProc
        /\ UNCHANGED <<pipe, filled, status, current, depth, sub>>
    BY <1>5 DEF BeginRelease, Transition, Moves
  <2> QED
    BY <2>1, PlainMove DEF Stacked, Paid, Taking, GivingBack, Releasing
<1>6. CASE TestZero(t)
  <2>1. pc[t] = "zero?" /\ t \in Holders(p)
    BY <1>6 DEF TestZero, Holders, ThreadsOf, Counted, Releasing
  <2>2. current[p] # 0
    BY <1>0, <2>1, Finite, FS_EmptySet DEF SInv, IInv, CountsHolders
  <2>3. /\ Moves(t, "many?")
        /\ UNCHANGED <<pipe, filled, status, current, depth, sub>>
    BY <1>6, <2>2 DEF TestZero, Moves
  <2> QED
    BY <2>1, <2>3, PlainMove DEF Stacked, Paid, Taking, GivingBack
<1>7. CASE TestMany(t)
  <2>1. CASE current[p] <= 1 /\ Transition(t, "many?", "decrement")
    BY <1>7, <2>1, LastJob DEF TestMany
  <2>2. CASE current[p] > 1 /\ Transition(t, "many?", "empty?")
    <3>1. /\ pc[t] = "many?" /\ Moves(t, "empty?")
          /\ UNCHANGED <<pipe, filled, status, current, depth, sub>>
      BY <1>7, <2>2 DEF TestMany, Transition, Moves
    <3> QED
      BY <2>2, <3>1, PlainMove DEF Stacked, Paid, Taking, GivingBack
  <2> QED
    BY <1>7, <2>1, <2>2 DEF TestMany
<1>8. CASE TestEmpty(t)
  <2>1. /\ pc[t] = "empty?" /\ Moves(t, "top")
        /\ UNCHANGED <<pipe, filled, status, current, depth, sub>>
    BY <1>0, <1>8 DEF TestEmpty, Transition, Moves, GivingBack
  <2> QED
    BY <2>1, PlainMove DEF Stacked, Paid, Taking, GivingBack, SInv, HasByte
<1>9. CASE Top(t)
  <2>1. /\ pc[t] = "top" /\ Moves(t, "write")
        /\ UNCHANGED <<pipe, filled, status, current, depth, sub>>
    BY <1>0, <1>9 DEF Top, Transition, Moves, GivingBack
  <2> QED
    BY <2>1, PlainMove DEF Stacked, Paid, Taking, GivingBack, SInv, HasByte
<1>10. CASE WriteToken(t)
  <2>1. CASE Transition(t, "write", "pop") /\ pipe' = pipe + 1
    BY <1>10, <2>1, WriteByte DEF WriteToken, Transition, vars
  <2>2. CASE UNCHANGED vars
    BY <2>2, StutterSInv
  <2> QED
    BY <1>10, <2>1, <2>2 DEF WriteToken
<1>11. CASE Pop(t)
  BY <1>0, <1>11, PopByte DEF Pop, GivingBack
<1>12. CASE Decrement(t)
  BY <1>12, LeavesRelease
<1> QED
  BY <1>1, <1>2, <1>3, <1>4, <1>5, <1>6, <1>7, <1>8, <1>9, <1>10, <1>11, <1>12 DEF Step

(* A make exits when its workers are idle, with an empty stack; the jobs   *)
(* of the other makes are as they were.                                    *)
LEMMA ExitSInv ==
  ASSUME SInv, IInv', NoOverlap', NEW p \in Procs, Exit(p)
  PROVE  SInv'
<1>0. /\ TypeOK /\ Gone(p) /\ \A t \in Threads : ProcOf[t] = p => pc[t] = "idle"
  BY DEF SInv, IInv, Exit, ThreadsOf
<1>1. \A t \in Threads : pc'[t] = pc[t]
  BY <1>0 DEF Gone
<1>2. UNCHANGED pc
  BY <1>0, <1>1 DEF TypeOK, Gone
<1>3. \A t \in Threads : ProcOf[t] = p => sub[t] = NoProc
  BY <1>0 DEF SInv, Waits
<1>4. UNCHANGED <<pipe, filled>>
  <2>1. Holders(p) = {}
    BY <1>0 DEF Holders, ThreadsOf, Counted, Releasing
  <2>2. current[p] = 0
    BY <2>1, FS_EmptySet DEF SInv, IInv, CountsHolders
  <2> QED
    BY <1>0, <2>2 DEF Exit, Gone, TypeOK
<1>5. StackMatchesJobs'
  <2>1. StackOf(p) = {} /\ Uncounted(p) = {}
    BY <1>0 DEF StackOf, Uncounted, ThreadsOf, Stacked, Paid
  <2>2. depth'[p] = 0 /\ \A q \in Procs : q # p => depth'[q] = depth[q]
    BY <1>0 DEF Gone, TypeOK
  <2>3. StackMatches(p)'
    BY <1>2, <2>1, <2>2, SetsUnchanged, FS_EmptySet DEF StackMatches
  <2>4. \A q \in Procs : q # p => StackMatches(q)'
    BY <1>2, <2>2, SetsUnchanged, StackDefinition DEF SInv, StackMatches
  <2> QED
    BY <2>3, <2>4, StackDefinitionNext
<1>6. BytesConserved'
  BY <1>2, <1>4, SetsUnchanged, BytesDefinition, BytesDefinitionNext DEF SInv
<1>7. Accompanied'
  BY <1>2 DEF SInv, Accompanied
<1>8. HasByte'
  <2>1. \A q \in Procs : q # p => current'[q] = current[q]
    BY <1>0 DEF Gone, TypeOK
  <2> QED
    BY <1>0, <1>2, <2>1, ThreadsAssumption DEF SInv, HasByte, GivingBack
<1>9. Waits'
  BY <1>0, <1>2 DEF SInv, Waits, Gone
<1>10. Quiet'
  <2>1. \A q \in Procs : q # p => status'[q] = status[q]
    BY <1>0 DEF Gone, TypeOK
  <2> QED
    BY <1>0, <1>2, <2>1 DEF SInv, Quiet, ThreadsOf
<1>11. WaitedFor'
  <2> SUFFICES ASSUME NEW q \in Procs \ {Root}, status'[q] = "up"
               PROVE  \E t \in Threads : sub'[t] = q
    BY DEF WaitedFor
  <2>1. q # p /\ status[q] = "up"
    BY <1>0 DEF Gone, TypeOK
  <2>2. PICK t \in Threads : sub[t] = q
    BY <2>1 DEF SInv, WaitedFor
  <2>3. sub'[t] = q
    BY <1>0, <1>3, <2>1, <2>2, ProcsAssumption DEF Gone
  <2> QED
    BY <2>3
<1> QED
  BY <1>5, <1>6, <1>7, <1>8, <1>9, <1>10, <1>11 DEF SInv

(* Any step of the tree of makes that keeps takes and releases apart.      *)
LEMMA NextSInv == SInv /\ [SerialNext]_vars => SInv'
<1> SUFFICES ASSUME SInv, [SerialNext]_vars PROVE SInv'
  OBVIOUS
<1>0. IInv' /\ TypeOK
  <2>1. [Next]_vars
    BY DEF SerialNext
  <2> QED
    BY <2>1, NextIInv DEF SInv, IInv
<1>1. CASE UNCHANGED vars
  BY <1>0, <1>1, StutterSInv
<1>2. CASE SerialNext
  <2>0. NoOverlap'
    BY <1>2 DEF SerialNext
  <2>1. CASE Populate
    <3>1. /\ UNCHANGED <<status, current, depth, pc, sub>>
          /\ pipe' = pipe + 1 /\ filled' = filled + 1
      BY <2>1 DEF Populate
    <3>2. StackMatchesJobs'
      BY <3>1, SetsUnchanged, StackDefinition, StackDefinitionNext DEF SInv, StackMatches
    <3>3. BytesConserved'
      BY <1>0, <3>1, SetsUnchanged, Finite, BytesDefinition, BytesDefinitionNext
         DEF SInv, TypeOK
    <3> QED
      BY <1>0, <2>0, <3>1, <3>2, <3>3
         DEF SInv, Accompanied, HasByte, Waits, Quiet, WaitedFor
  <2>2. CASE Constructed
    <3>1. /\ UNCHANGED <<pipe, filled, current, depth, pc, sub>>
          /\ status' = [status EXCEPT ![Root] = "up"]
      BY <2>2 DEF Constructed
    <3>2. StackMatchesJobs' /\ BytesConserved'
      BY <3>1, SetsUnchanged, StackDefinition, StackDefinitionNext, BytesDefinition,
         BytesDefinitionNext DEF SInv, StackMatches
    <3> QED
      BY <1>0, <2>0, <3>1, <3>2
         DEF SInv, TypeOK, Accompanied, HasByte, Waits, Quiet, WaitedFor
  <2>3. ASSUME NEW t \in Threads, BeginTake(t) PROVE SInv'
    <3>1. /\ pc[t] = "idle" /\ Moves(t, "exchange") /\ status[ProcOf[t]] = "up"
          /\ UNCHANGED <<pipe, filled, status, current, depth, sub>>
      BY <2>3 DEF BeginTake, Transition, Moves
    <3> QED
      BY <1>0, <2>0, <3>1, PlainMove DEF Stacked, Paid, Taking, GivingBack
  <2>4. ASSUME NEW t \in Threads, Step(t) PROVE SInv'
    BY <1>0, <2>0, <2>4, StepSInv
  <2>5. ASSUME NEW t \in Threads, NEW q \in Procs, StartMake(t, q) PROVE SInv'
    <3>1. /\ UNCHANGED <<pipe, filled, current, depth, pc>> /\ pc[t] = "job"
          /\ status' = [status EXCEPT ![q] = "up"] /\ sub' = [sub EXCEPT ![t] = q]
          /\ sub[t] = NoProc
      BY <2>5 DEF StartMake
    <3>2. StackMatchesJobs' /\ BytesConserved'
      BY <3>1, SetsUnchanged, StackDefinition, StackDefinitionNext, BytesDefinition,
         BytesDefinitionNext DEF SInv, StackMatches
    <3>3. Waits' /\ Quiet'
      BY <1>0, <3>1 DEF SInv, TypeOK, Waits, Quiet
    <3>4. WaitedFor'
      BY <1>0, <3>1, ProcsAssumption DEF SInv, TypeOK, WaitedFor
    <3> QED
      BY <1>0, <2>0, <3>1, <3>2, <3>3, <3>4 DEF SInv, Accompanied, HasByte
  <2>6. ASSUME NEW p \in Procs, Exit(p) PROVE SInv'
    BY <1>0, <2>0, <2>6, ExitSInv
  <2>7. CASE Over
    BY <1>0, <2>7, StutterSInv DEF Over
  <2> QED
    BY <1>2, <2>1, <2>2, <2>3, <2>4, <2>5, <2>6, <2>7 DEF SerialNext, Next
<1> QED
  BY <1>1, <1>2

(* What every reachable state satisfies.                                   *)
LEMMA SerialInvariant == SerialSpec => []SInv
BY InitSInv, NextSInv, PTL DEF SerialSpec

-----------------------------------------------------------------------------
(* popped_char_stack has one byte for each job of a make but the first,    *)
(* and one for each take that has pushed and not yet counted.              *)
THEOREM Stacks == SerialSpec => []StackMatchesJobs
<1>1. SInv => StackMatchesJobs
  BY DEF SInv
<1> QED
  BY <1>1, SerialInvariant, PTL

(* No byte that populate_pipe wrote is lost and none is made.              *)
THEOREM Conservation == SerialSpec => []BytesConserved
<1>1. SInv => BytesConserved
  BY DEF SInv
<1> QED
  BY <1>1, SerialInvariant, PTL

(* ReleaseJob never throws and never pops an empty stack: a make that is   *)
(* up ends only by exiting.                                                *)
THEOREM OnlyExits == SerialSpec => NeverAborts
<1>1. ASSUME SInv, [SerialNext]_vars
      PROVE  [\A p \in Procs : status[p] = "up" /\ status'[p] = "off" => Exit(p)]_vars
  <2> SUFFICES ASSUME NEW p \in Procs, status[p] = "up", status'[p] = "off" PROVE Exit(p)
    OBVIOUS
  <2>0. TypeOK /\ status' # status
    BY <1>1 DEF SInv, IInv
  <2>1. ~UNCHANGED vars /\ ~Populate /\ ~Over
    BY <2>0 DEF vars, Populate, Over
  <2>2. ~Constructed /\ \A t \in Threads, q \in Procs : ~StartMake(t, q)
    BY <2>0 DEF Constructed, StartMake, TypeOK
  <2>3. \A t \in Threads : ~BeginTake(t) /\ ~Step(t)
    BY <1>1, <2>0, <2>1, NoAborts DEF BeginTake
  <2>4. PICK q \in Procs : Exit(q)
    BY <1>1, <2>1, <2>2, <2>3 DEF SerialNext, Next
  <2>5. q = p
    BY <2>0, <2>4 DEF Exit, Gone, TypeOK
  <2> QED
    BY <2>4, <2>5
<1> QED
  BY <1>1, SerialInvariant, PTL DEF SerialSpec, NeverAborts

(* No more of the FIFO's bytes are out than populate_pipe wrote, so what   *)
(* the jobs of all makes have taken of them is at most MaxJobs.            *)
SlotsShared == Cardinality(Running) - Cardinality(Makes) <= MaxJobs

LEMMA SharedSlots == SInv => SlotsShared
<1> SUFFICES ASSUME SInv PROVE SlotsShared
  OBVIOUS
<1>1. pipe \in Nat /\ filled \in Int /\ filled <= MaxJobs /\ MaxJobs \in Nat
  BY JobsAssumption DEF SInv, IInv, TypeOK
<1> QED
  BY <1>1, Finite, BytesDefinition DEF SInv, SlotsShared

LEMMA SharedSlotsNext == SInv' => SlotsShared'
BY SharedSlots, PTL

(* A tree of makes runs at most one command more than -j allows: the free  *)
(* slot of each sub-make is the job of the worker that waits for it.       *)
THEOREM OneExtra == SerialSpec => []AtMostOneExtra
<1>1. ASSUME SInv PROVE AtMostOneExtra
  <2> DEFINE Waiting == Running \ LeafJobs
             Subs == ImageOf(sub, Waiting)
  <2>1. LeafJobs \subseteq Running
    BY DEF LeafJobs, Running, Paid
  <2>2. /\ IsFiniteSet(LeafJobs) /\ IsFiniteSet(Waiting)
        /\ Cardinality(Running) = Cardinality(LeafJobs) + Cardinality(Waiting)
    <3>1. IsFiniteSet(LeafJobs) /\ IsFiniteSet(Waiting)
      BY <2>1, Finite, FS_Subset
    <3>2. LeafJobs \cup Waiting = Running /\ LeafJobs \cap Waiting = {}
      BY <2>1
    <3> HIDE DEF Waiting
    <3>3. Cardinality(LeafJobs) \in Nat /\ Cardinality(Waiting) \in Nat
      BY <3>1, FS_CardinalityType
    <3>4. Cardinality(Running) = Cardinality(LeafJobs) + Cardinality(Waiting) - Cardinality({})
      BY <3>1, <3>2, FS_Union
    <3> QED
      BY <3>1, <3>3, <3>4, FS_EmptySet
  <2>3. Makes \subseteq Subs \cup {Root}
    <3> SUFFICES ASSUME NEW t \in Running, ProcOf[t] # Root
                 PROVE  ProcOf[t] \in Subs
      BY DEF Makes, ImageOf
    <3>1. t \in Threads /\ ProcOf[t] \in Procs /\ pc[t] # "idle"
      BY ThreadsAssumption DEF Running, Paid
    <3>2. status[ProcOf[t]] = "up"
      BY <1>1, <3>1 DEF SInv, Quiet, ThreadsOf
    <3>3. PICK u \in Threads : sub[u] = ProcOf[t]
      BY <1>1, <3>1, <3>2 DEF SInv, WaitedFor
    <3>4. sub[u] # NoProc /\ pc[u] = "job"
      BY <1>1, <3>1, <3>3, ProcsAssumption DEF SInv, Waits
    <3>5. u \in Waiting
      BY <3>4 DEF Running, Paid, LeafJobs
    <3> QED
      BY <3>3, <3>5 DEF ImageOf
  <2>4. /\ IsFiniteSet(Subs) /\ Cardinality(Subs) \in Nat
        /\ Cardinality(Subs) <= Cardinality(Waiting) /\ Cardinality(Waiting) \in Nat
    BY <2>2, ImageFinite
  <2>5. Cardinality(Makes) <= Cardinality(Subs) + 1
    <3> HIDE DEF Subs
    <3>1. /\ IsFiniteSet(Subs \cup {Root})
          /\ Cardinality(Subs \cup {Root}) <= Cardinality(Subs) + 1
          /\ Cardinality(Subs \cup {Root}) \in Nat
      BY <2>4, FS_AddElement, FS_CardinalityType
    <3>2. Cardinality(Makes) <= Cardinality(Subs \cup {Root})
      BY <2>3, <3>1, FS_Subset
    <3> QED
      BY <2>4, <3>1, <3>2, Finite
  <2>6. MaxJobs \in Nat /\ Cardinality(LeafJobs) \in Nat
    BY <2>2, JobsAssumption, FS_CardinalityType
  <2> HIDE DEF Waiting, Subs
  <2> QED
    BY <1>1, <2>2, <2>4, <2>5, <2>6, SharedSlots, Finite DEF AtMostOneExtra, SlotsShared
<1> QED
  BY <1>1, SerialInvariant, PTL

-----------------------------------------------------------------------------
(* Slots that JobSlots counts as committed.                                *)
LEMMA CommittedDefinition ==
  ASSUME NEW S
  PROVE  Slots!Committed(S) = Cardinality(S) - Cardinality(ImageOf(ProcOf, S))
<1>1. \A T : Slots!Cardinality(T) = Cardinality(T)
  BY DEF Slots!Cardinality, Cardinality
<1> QED
  BY <1>1 DEF Slots!Committed, ImageOf

(* The refinement.  A step of a worker leaves Running as it is, adds the   *)
(* worker to it or removes it; the other steps do not touch it.            *)
LEMMA SlotsStep ==
  ASSUME SInv, SInv', [SerialNext]_vars
  PROVE  [Slots!Next]_Running
<1>0. TypeOK
  BY DEF SInv, IInv
<1>1. CASE UNCHANGED pc
  BY <1>1, SetsUnchanged
<1>2. CASE \E t \in Threads : BeginTake(t) \/ Step(t)
  <2>1. PICK t \in Threads : BeginTake(t) \/ Step(t)
    BY <1>2
  <2>2. CASE UNCHANGED vars
    BY <2>2, SetsUnchanged DEF vars
  <2>3. CASE \E to : Moves(t, to)
    <3>1. PICK to : Moves(t, to)
      BY <2>3
    <3>2. CASE to \in Paid /\ t \notin Running
      <4>1. Running' = Running \cup {t}
        BY <1>0, <3>1, <3>2, MoveSets
      <4>2. Cardinality(Running') - Cardinality(ImageOf(ProcOf, Running')) <= MaxJobs
        BY SharedSlotsNext DEF SlotsShared, Makes
      <4>3. Slots!Committed(Running \cup {t}) <= MaxJobs
        BY <4>1, <4>2, CommittedDefinition
      <4>4. Slots!Start(t)
        BY <3>2, <4>1, <4>3 DEF Slots!Start
      <4> QED
        BY <4>4 DEF Slots!Next
    <3>3. CASE to \notin Paid /\ t \in Running
      <4>1. Running' = Running \ {t}
        BY <1>0, <3>1, <3>3, MoveSets
      <4>2. Slots!Finish(t)
        BY <3>3, <4>1 DEF Slots!Finish
      <4> QED
        BY <4>2 DEF Slots!Next
    <3>4. CASE to \in Paid <=> t \in Running
      <4>1. Running' = Running
        BY <1>0, <3>1, <3>4, MoveSets
      <4> QED
        BY <4>1
    <3> QED
      BY <3>2, <3>3, <3>4
  <2> QED
    BY <2>1, <2>2, <2>3, NoAborts DEF BeginTake, Transition, Moves
<1>3. CASE \E p \in Procs : Exit(p)
  <2>1. PICK p \in Procs : Exit(p)
    BY <1>3
  <2>2. Running' = Running
    BY <2>1 DEF Exit, Gone, Running, ThreadsOf, Paid
  <2> QED
    BY <2>2
<1> QED
  BY <1>1, <1>2, <1>3 DEF SerialNext, Next, Populate, Constructed, StartMake, Over, vars

(* The POSIX job server implements JobSlots, however many makes there are. *)
THEOREM Implements == SerialSpec => ImplementsJobSlots
<1>1. Init => Slots!Init
  BY DEF Init, Slots!Init, Running, Paid
<1>2. SInv /\ SInv' /\ [SerialNext]_vars => [Slots!Next]_Running
  BY SlotsStep
<1> QED
  BY <1>1, <1>2, SerialInvariant, PTL DEF SerialSpec, ImplementsJobSlots, Slots!Spec

-----------------------------------------------------------------------------
(* When a worker is about to look for the byte it gives back there is one: *)
(* what the second exception of ReleaseJob says cannot be needs an overlap *)
(* of operations of one make.                                              *)
THEOREM NoMissingByte == SerialSpec => []StackHasByte
<1>1. SInv => StackHasByte
  BY StackHolds DEF StackHasByte, GivingBack
<1> QED
  BY <1>1, SerialInvariant, PTL

(* SerialSpec restricts nothing but the overlaps: a behaviour of the code  *)
(* in which none happens is one of SerialSpec.                             *)
LEMMA Apart == Spec /\ []NoOverlap => SerialSpec
<1>1. [Next]_vars /\ NoOverlap' => [SerialNext]_vars
  BY DEF SerialNext
<1> QED
  BY <1>1, PTL DEF Spec, SerialSpec

(* Makes with one worker each are not restricted by SerialSpec.  That is   *)
(* -j 1, where the threads of a make take turns (CommandByCommand in       *)
(* RunnerProgress_proofs) and one worker stands for them.  So everything   *)
(* above holds of the code as it is with -j 1, whatever the other makes of *)
(* the tree do with the FIFO at the same time.                             *)
OneWorkerEach == \A t, u \in Threads : ProcOf[t] = ProcOf[u] => t = u

THEOREM OneWorker ==
  ASSUME OneWorkerEach
  PROVE  Spec => [](BytesConserved /\ StackHasByte) /\ NeverAborts /\ ImplementsJobSlots
<1>1. NoOverlap
  BY DEF OneWorkerEach, NoOverlap
<1>2. Spec => SerialSpec
  BY <1>1, Apart, PTL
<1> QED
  BY <1>2, Conservation, NoMissingByte, OnlyExits, Implements, PTL
=============================================================================
