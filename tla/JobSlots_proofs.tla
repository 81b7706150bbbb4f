--------------------------- MODULE JobSlots_proofs ---------------------------
(***************************************************************************)
(* Proof about JobSlots, for every tree of makes and every -j: the limit   *)
(* that Start tests holds at all times, also after a job has ended.  So it *)
(* holds of everything that implements JobSlots.                           *)
(***************************************************************************)
EXTENDS JobSlots, CountingLemmas

(* The end of a job gives a slot back, or the free slot of its make.       *)
LEMMA FinishFrees ==
  ASSUME NEW t, IsFiniteSet(running), Finish(t)
  PROVE  Committed(running') <= Committed(running)
<1>1. t \in running /\ running' = running \ {t}
  BY DEF Finish
<1>2. Cardinality(running \ {t}) = Cardinality(running) - 1
  BY <1>1, FS_RemoveElement
<1>3. IsFiniteSet(running \ {t})
  BY <1>1, FS_RemoveElement
<1>4. /\ Cardinality(running) \in Nat
      /\ Cardinality(ImageOf(ProcOf, running)) \in Nat
      /\ Cardinality(ImageOf(ProcOf, running \ {t})) \in Nat
  BY <1>3, ImageFinite
<1>5. Cardinality(ImageOf(ProcOf, running \ {t})) =
        IF \E u \in running : u # t /\ ProcOf[u] = ProcOf[t]
        THEN Cardinality(ImageOf(ProcOf, running))
        ELSE Cardinality(ImageOf(ProcOf, running)) - 1
  BY <1>1, ImageRemove
<1>6. Committed(running \ {t})
        = Cardinality(running \ {t}) - Cardinality(ImageOf(ProcOf, running \ {t}))
  BY DEF Committed, ImageOf
<1>7. Committed(running) = Cardinality(running) - Cardinality(ImageOf(ProcOf, running))
  BY DEF Committed, ImageOf
<1> QED
  BY <1>1, <1>2, <1>4, <1>5, <1>6, <1>7

(* The jobs of all makes never use more than MaxJobs slots besides the     *)
(* free one of each make.                                                  *)
THEOREM Respected ==
  ASSUME IsFiniteSet(Threads), MaxJobs \in Nat
  PROVE  Spec => []SlotsRespected
<1> DEFINE Inv == running \subseteq Threads /\ Committed(running) \in Int /\ SlotsRespected
<1>1. Init => Inv
  <2> SUFFICES ASSUME Init PROVE Inv
    OBVIOUS
  <2>1. running = {} /\ {ProcOf[t] : t \in running} = {}
    BY DEF Init
  <2>2. Committed(running) = 0
    BY <2>1, FS_EmptySet DEF Committed
  <2> QED
    BY <2>1, <2>2 DEF SlotsRespected
<1>2. Inv /\ [Next]_running => Inv'
  <2> SUFFICES ASSUME Inv, [Next]_running PROVE Inv'
    OBVIOUS
  <2>1. CASE UNCHANGED running
    BY <2>1 DEF SlotsRespected, Committed
  <2>2. CASE Next
    <3>1. PICK t \in Threads : Start(t) \/ Finish(t)
      BY <2>2 DEF Next
    <3>2. running' \subseteq Threads
      BY <3>1 DEF Start, Finish
    <3>3. IsFiniteSet(running) /\ IsFiniteSet(running')
      BY <3>2, FS_Subset
    <3>4. Committed(running') \in Int
      <4>1. Committed(running')
              = Cardinality(running') - Cardinality(ImageOf(ProcOf, running'))
        BY DEF Committed, ImageOf
      <4> QED
        BY <3>3, <4>1, ImageFinite
    <3>5. Committed(running') <= MaxJobs
      BY <3>1, <3>3, <3>4, FinishFrees DEF Start, SlotsRespected
    <3>6. SlotsRespected'
      BY <3>5 DEF SlotsRespected, Committed
    <3>7. Committed(running)' \in Int
      BY <3>4 DEF Committed
    <3> QED
      BY <3>2, <3>6, <3>7
  <2> QED
    BY <2>1, <2>2
<1>3. Inv => SlotsRespected
  OBVIOUS
<1> QED
  BY <1>1, <1>2, <1>3, PTL DEF Spec
=============================================================================
