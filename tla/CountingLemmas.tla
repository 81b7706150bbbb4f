--------------------------- MODULE CountingLemmas ---------------------------
(***************************************************************************)
(* Facts about the cardinality of a finite set S and of its image under a  *)
(* function f: what the proofs about the job servers count are workers and *)
(* the makes these workers belong to.                                      *)
(***************************************************************************)
EXTENDS FiniteSetTheorems, TLAPS

ImageOf(f, S) == {f[x] : x \in S}

(* An image is finite and has no more members than the set.                *)
LEMMA ImageFinite ==
  ASSUME NEW S, IsFiniteSet(S), NEW f
  PROVE  /\ IsFiniteSet(ImageOf(f, S))
         /\ Cardinality(ImageOf(f, S)) \in Nat
         /\ Cardinality(S) \in Nat
         /\ Cardinality(ImageOf(f, S)) <= Cardinality(S)
<1> DEFINE g == [x \in S |-> f[x]]
<1>1. g \in Surjection(S, ImageOf(f, S))
  BY DEF Surjection, ImageOf
<1>2. IsFiniteSet(ImageOf(f, S)) /\ Cardinality(ImageOf(f, S)) <= Cardinality(S)
  BY <1>1, FS_Surjection
<1> QED
  BY <1>2, FS_CardinalityType

(* One more member: the image grows if no other member has its value.      *)
LEMMA ImageAdd ==
  ASSUME NEW S, IsFiniteSet(S), NEW f, NEW t
  PROVE  Cardinality(ImageOf(f, S \cup {t})) =
           IF \E u \in S : f[u] = f[t] THEN Cardinality(ImageOf(f, S))
           ELSE Cardinality(ImageOf(f, S)) + 1
<1>1. ImageOf(f, S \cup {t}) = ImageOf(f, S) \cup {f[t]}
  BY DEF ImageOf
<1>2. (\E u \in S : f[u] = f[t]) <=> f[t] \in ImageOf(f, S)
  BY DEF ImageOf
<1> QED
  BY <1>1, <1>2, ImageFinite, FS_AddElement

(* One member less: the image shrinks if no other member has its value.    *)
LEMMA ImageRemove ==
  ASSUME NEW S, IsFiniteSet(S), NEW f, NEW t \in S
  PROVE  Cardinality(ImageOf(f, S \ {t})) =
           IF \E u \in S : u # t /\ f[u] = f[t] THEN Cardinality(ImageOf(f, S))
           ELSE Cardinality(ImageOf(f, S)) - 1
<1>1. IsFiniteSet(S \ {t}) /\ (S \ {t}) \cup {t} = S
  BY FS_RemoveElement
<1>2. (\E u \in S : u # t /\ f[u] = f[t]) <=> \E u \in S \ {t} : f[u] = f[t]
  OBVIOUS
<1>3. Cardinality(ImageOf(f, S)) =
        IF \E u \in S \ {t} : f[u] = f[t] THEN Cardinality(ImageOf(f, S \ {t}))
        ELSE Cardinality(ImageOf(f, S \ {t})) + 1
  BY <1>1, ImageAdd
<1> QED
  BY <1>1, <1>2, <1>3, ImageFinite

(* A set with a member has that member only, or another one.               *)
LEMMA AloneOrNot ==
  ASSUME NEW S, IsFiniteSet(S), NEW t \in S
  PROVE  /\ Cardinality(S) <= 1 => S = {t}
         /\ Cardinality(S) > 1 => \E u \in S : u # t
         /\ Cardinality(S) \in Nat \ {0}
<1>1. Cardinality(S) \in Nat /\ Cardinality(S) # 0
  BY FS_CardinalityType, FS_EmptySet
<1>2. Cardinality(S) = 1 => S = {t}
  BY FS_Singleton
<1>3. Cardinality({t}) = 1
  BY FS_Singleton
<1> QED
  BY <1>1, <1>2, <1>3
=============================================================================
