--------------------------- MODULE DagGraphProofs ---------------------------
(***************************************************************************)
(* Lemmas about the finite directed graphs of DagGraph.                    *)
(***************************************************************************)
EXTENDS DagGraph, Integers, FiniteSets, FiniteSetTheorems, WellFoundedInduction, TLAPS

\* A nonempty set of numbers has a least member.
LEMMA LeastNumber ==
    ASSUME NEW T \in SUBSET Nat, T # {}
    PROVE  \E x \in T : \A y \in T : x <= y
<1> DEFINE R == OpToRel(<, Nat)
<1>1. IsWellFoundedOn(R, Nat)
  BY NatLessThanWellFounded
<1>2. \A x, y \in Nat : y < x => <<y, x>> \in R
  BY DEF OpToRel
<1> HIDE DEF R
<1>3. \E x \in T : \A y \in T : <<y, x>> \notin R
  BY <1>1, WFMin
<1>4. PICK x \in T : \A y \in T : <<y, x>> \notin R
  BY <1>3
<1>5. ASSUME NEW y \in T PROVE x <= y
  <2>1. ~(y < x)
    BY <1>2, <1>4
  <2> QED
    BY <2>1
<1> QED
  BY <1>5

\* A nonempty family of finite sets has a smallest member.
LEMMA SmallestSet ==
    ASSUME NEW F, F # {}, \A X \in F : IsFiniteSet(X)
    PROVE  \E X \in F : \A Y \in F : Cardinality(X) <= Cardinality(Y)
<1> DEFINE Sizes == {Cardinality(X) : X \in F}
<1>1. Sizes \in SUBSET Nat /\ Sizes # {}
  BY FS_CardinalityType
<1>2. PICK x \in Sizes : \A y \in Sizes : x <= y
  BY <1>1, LeastNumber
<1> QED
  BY <1>2

\* If nobody in a nonempty finite set is without a parent in it, there is a
\* cycle: take a smallest such set; a member without a child in it could be
\* left out.
LEMMA NoFirstMeansCycle ==
    ASSUME NEW N, IsFiniteSet(N), NEW E,
           NEW T \in SUBSET N, T # {}, \A n \in T : \E p \in T : <<p, n>> \in E
    PROVE  HasCycle(N, E)
<1> DEFINE F == {X \in SUBSET N : X # {} /\ \A n \in X : \E p \in X : <<p, n>> \in E}
<1>1. T \in F /\ \A X \in F : IsFiniteSet(X)
  BY FS_Subset
<1>2. PICK X \in F : \A Y \in F : Cardinality(X) <= Cardinality(Y)
  <2> HIDE DEF F
  <2> QED
    BY <1>1, SmallestSet
<1>3. ASSUME NEW m \in X, \A c \in X : <<m, c>> \notin E
      PROVE  FALSE
  <2> DEFINE Y == X \ {m}
  <2>1. \A n \in X : \E p \in X \ {m} : <<p, n>> \in E
    BY <1>3
  <2>2. Y # {}
    BY <1>3, <2>1
  <2>3. Y \in F
    BY <2>1, <2>2
  <2> HIDE DEF F
  <2>4. Cardinality(Y) = Cardinality(X) - 1 /\ Cardinality(X) \in Nat
    BY <1>1, FS_RemoveElement, FS_CardinalityType
  <2> QED
    <3>1. Cardinality(X) <= Cardinality(Y)
      BY <1>2, <2>3
    <3> HIDE DEF Y
    <3> QED
      BY <2>4, <3>1
<1>4. Looping(X, E)
  BY <1>3 DEF Looping
<1> QED
  BY <1>4 DEF HasCycle

=============================================================================
