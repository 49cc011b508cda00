----------------------------- MODULE ChoiceLemmas -----------------------------
(***************************************************************************)
(* What the first, the last, the longest or the oldest of several is taken *)
(* from: the code sorts a list, or scans it for the best so far, and the   *)
(* models choose.  There is such an element.                               *)
(***************************************************************************)
EXTENDS Naturals, FiniteSetTheorems, WellFoundedInduction, TLAPS

(* A nonempty set of numbers has a smallest one.                           *)
LEMMA SmallestExists ==
  ASSUME NEW S \in SUBSET Nat, S # {}
  PROVE  \E x \in S : \A y \in S : x <= y
<1>1. PICK x \in S : \A y \in S : <<y, x>> \notin OpToRel(<, Nat)
  BY NatLessThanWellFounded, WFMin
<1>2. \A y \in S : ~(y < x)
  BY <1>1 DEF OpToRel
<1> QED BY <1>2

(* A finite set of numbers has an n-th one, counted from 0: a smallest n    *)
(* without one would follow on one that has.                               *)
LEMMA NthExists ==
  ASSUME NEW S \in SUBSET Nat, IsFiniteSet(S), NEW n \in Nat, n < Cardinality(S)
  PROVE  \E i \in S : Cardinality({j \in S : j < i}) = n
<1> DEFINE Below(i) == {j \in S : j < i}
           Bad == {k \in Nat : k < Cardinality(S) /\ ~\E i \in S : Cardinality(Below(i)) = k}
<1> SUFFICES Bad = {}
  OBVIOUS
<1> SUFFICES ASSUME Bad # {} PROVE FALSE
  OBVIOUS
<1>1. PICK b \in Bad : \A k \in Bad : b <= k
  BY SmallestExists, Bad \subseteq Nat
<1>2. Cardinality(S) \in Nat
  BY FS_CardinalityType
<1>0. \A j \in S : j \in Nat
  OBVIOUS
<1>3. CASE b = 0
  <2>1. S # {}
    BY <1>1, <1>2, <1>3, FS_EmptySet
  <2>2. PICK x \in S : \A y \in S : x <= y
    BY <2>1, SmallestExists
  <2>3. \A y \in S : ~(y < x)
    BY <1>0, <2>2
  <2>4. Below(x) = {}
    BY <2>3
  <2> QED BY <1>1, <1>3, <2>4, FS_EmptySet
<1>4. CASE b # 0
  <2>1. b \in Nat /\ b - 1 \in Nat /\ b - 1 < Cardinality(S) /\ b < Cardinality(S)
    BY <1>1, <1>2, <1>4
  <2>2. b - 1 \notin Bad
    BY <1>1, <2>1
  <2>3. PICK i \in S : Cardinality(Below(i)) = b - 1
    BY <2>1, <2>2
  <2> DEFINE V == Below(i) \cup {i}
  <2>4. Cardinality(V) = b /\ V \subseteq S
    <3>1. IsFiniteSet(Below(i)) /\ i \notin Below(i)
      BY FS_Subset, Below(i) \subseteq S, i \in Nat
    <3>2. Cardinality(V) = Cardinality(Below(i)) + 1
      BY <3>1, FS_AddElement
    <3> QED BY <2>1, <2>3, <3>2
  <2>5. S \ V # {}
    <3>1. ASSUME V = S PROVE FALSE
      <4>1. Cardinality(V) = Cardinality(S)
        BY <3>1, Zenon
      <4> HIDE DEF V
      <4> QED BY <2>1, <2>4, <4>1
    <3> QED BY <2>4, <3>1, Zenon
  <2>6. PICK t \in S \ V : \A y \in S \ V : t <= y
    BY <2>5, SmallestExists
  <2>7. t \in Nat /\ i \in Nat /\ t > i
    BY <2>6
  <2>8. \A j \in S : j < t <=> j \in V
    <3>1. ASSUME NEW j \in S, j < t PROVE j \in V
      BY <1>0, <2>6, <2>7, <3>1
    <3>2. ASSUME NEW j \in S, j \in V PROVE j < t
      <4>1. j < i \/ j = i
        BY <3>2
      <4> QED BY <1>0, <2>7, <4>1
    <3> QED BY <3>1, <3>2
  <2>9. Below(t) = V
    <3>1. \A j : j \in Below(t) <=> j \in V
      BY <2>4, <2>8
    <3> QED BY <3>1, Zenon
  <2> QED BY <1>1, <2>4, <2>6, <2>9
<1> QED BY <1>3, <1>4

(* A finite nonempty set has an element that measures the most: a smallest *)
(* subset without one would be larger than a subset that has one.          *)
LEMMA LargestExists ==
  ASSUME NEW S, IsFiniteSet(S), S # {}, NEW f \in [S -> Nat]
  PROVE  \E x \in S : \A y \in S : f[y] <= f[x]
<1> DEFINE HasLargest(T) == \E x \in T : \A y \in T : f[y] <= f[x]
           Bad == {T \in SUBSET S : T # {} /\ ~HasLargest(T)}
<1> SUFFICES Bad = {}
  OBVIOUS
<1> SUFFICES ASSUME Bad # {} PROVE FALSE
  OBVIOUS
<1>1. PICK T \in Bad : \A U \in Bad : ~(U \subseteq T /\ U # T)
  <2>1. IsWellFoundedOn(StrictSubsetOrdering(S), FiniteSubsetsOf(S))
    BY FS_StrictSubsetOrderingWellFounded
  <2>2. Bad \subseteq FiniteSubsetsOf(S)
    BY FS_Subset DEF FiniteSubsetsOf
  <2> HIDE DEF Bad
  <2>3. PICK T \in Bad : \A U \in Bad : <<U, T>> \notin StrictSubsetOrdering(S)
    BY <2>1, <2>2, WFMin
  <2>4. \A U \in Bad : U \in SUBSET S
    BY DEF Bad
  <2> QED BY <2>3, <2>4 DEF StrictSubsetOrdering
<1>2. PICK x : x \in T
  OBVIOUS
<1>3. T \ {x} \notin Bad
  BY <1>1, <1>2
<1>4. CASE T \ {x} = {}
  <2>1. T = {x} /\ f[x] \in Nat
    BY <1>2, <1>4
  <2> QED BY <2>1
<1>5. CASE T \ {x} # {}
  <2>1. PICK y \in T \ {x} : \A z \in T \ {x} : f[z] <= f[y]
    BY <1>3, <1>5
  <2>2. f[x] \in Nat /\ f[y] \in Nat /\ \A z \in T : f[z] \in Nat
    BY <1>2
  <2>3. CASE f[x] <= f[y]
    <3>1. \A z \in T : f[z] <= f[y]
      BY <2>1, <2>3
    <3> QED BY <3>1
  <2>4. CASE f[y] <= f[x]
    <3>1. \A z \in T : f[z] <= f[x]
      BY <2>1, <2>2, <2>4
    <3> QED BY <1>2, <3>1
  <2> QED BY <2>2, <2>3, <2>4
<1> QED BY <1>4, <1>5
=============================================================================
