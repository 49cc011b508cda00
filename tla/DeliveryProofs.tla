---------------------------- MODULE DeliveryProofs ----------------------------
(***************************************************************************)
(* Proofs that nothing on its way is lost: the events of the bus           *)
(* (ModuleRuntime with EventBus, an implementation of EventDelivery) and   *)
(* the alerts whose insert failed (AlertQueue).                            *)
(***************************************************************************)
EXTENDS ModuleRuntime, AlertQueue, ChoiceLemmas, TLAPS

-----------------------------------------------------------------------------
(***************************************************************************)
(* The event bus and the life of the modules, for every set of modules and *)
(* handlers: each invocation keeps its place among those of its handler    *)
(* through the queue, its turn and the limiter of its module.              *)
(***************************************************************************)

(* Of the events of one handler, the earlier are in front.                 *)
InOrder(s) ==
  \A i, j \in DOMAIN s : i < j /\ s[i][1] = s[j][1] => s[i][2] < s[j][2]

(* What A has of a handler is earlier than what B has of it.               *)
Earlier(A, B) == \A x \in A, y \in B : x[1] = y[1] => x[2] < y[2]

(* Without repetition.                                                     *)
Once(s) == \A i, j \in DOMAIN s : s[i] = s[j] => i = j

(***************************************************************************)
(* Lists of invocations.                                                   *)
(***************************************************************************)

(* One more at the end, which may not be earlier than what is there.       *)
LEMMA AppendOrder ==
  ASSUME NEW S, NEW s \in Seq(S), NEW x \in S
  PROVE  /\ Append(s, x) \in Seq(S) /\ Append(s, x) # <<>>
         /\ Items(Append(s, x)) = Items(s) \cup {x}
         /\ InOrder(s) /\ Earlier(Items(s), {x}) => InOrder(Append(s, x))
<1> DEFINE a == Append(s, x)
<1>1. /\ DOMAIN s = 1..Len(s) /\ Len(s) \in Nat
      /\ DOMAIN a = 1..(Len(s) + 1) /\ a \in Seq(S) /\ a # <<>>
      /\ a[Len(s) + 1] = x /\ \A i \in 1..Len(s) : a[i] = s[i]
  OBVIOUS
<1>2. Items(a) = Items(s) \cup {x}
  BY <1>1 DEF Items
<1>3. ASSUME InOrder(s), Earlier(Items(s), {x}) PROVE InOrder(a)
  <2>1. \A i \in DOMAIN s : s[i][1] = x[1] => s[i][2] < x[2]
    BY <1>3 DEF Earlier, Items
  <2> HIDE DEF a
  <2> QED BY <1>1, <1>3, <2>1 DEF InOrder
<1> QED BY <1>1, <1>2, <1>3

(* A new element makes no repetition.                                      *)
LEMMA AppendOnce ==
  ASSUME NEW S, NEW s \in Seq(S), NEW x \in S, Once(s), x \notin Items(s)
  PROVE  Once(Append(s, x))
<1> DEFINE a == Append(s, x)
<1>1. /\ DOMAIN s = 1..Len(s) /\ Len(s) \in Nat /\ DOMAIN a = 1..(Len(s) + 1)
      /\ a[Len(s) + 1] = x /\ \A i \in 1..Len(s) : a[i] = s[i]
  OBVIOUS
<1>2. \A i \in DOMAIN s : s[i] # x
  BY DEF Items
<1> HIDE DEF a
<1>3. Once(a)
  BY <1>1, <1>2 DEF Once
<1> QED BY <1>3 DEF a

(* The first leaves.                                                       *)
LEMMA TailOrder ==
  ASSUME NEW S, NEW s \in Seq(S), s # <<>>
  PROVE  /\ Tail(s) \in Seq(S) /\ Head(s) \in S
         /\ Items(s) = {Head(s)} \cup Items(Tail(s))
         /\ InOrder(s) => InOrder(Tail(s)) /\ Earlier({Head(s)}, Items(Tail(s)))
<1> DEFINE t == Tail(s)
<1>1. /\ Len(s) \in Nat /\ Len(s) >= 1 /\ DOMAIN s = 1..Len(s)
      /\ DOMAIN t = 1..(Len(s) - 1) /\ t \in Seq(S)
      /\ Head(s) = s[1] /\ s[1] \in S /\ \A i \in 1..(Len(s) - 1) : t[i] = s[i + 1]
  OBVIOUS
<1> HIDE DEF t
<1>2. Items(s) = {Head(s)} \cup Items(t)
  <2>1. ASSUME NEW i \in DOMAIN s PROVE s[i] \in {Head(s)} \cup Items(t)
    <3>1. CASE i = 1
      BY <1>1, <3>1
    <3>2. CASE i # 1
      <4>1. i - 1 \in DOMAIN t /\ t[i - 1] = s[i]
        BY <1>1, <3>2
      <4> QED BY <4>1 DEF Items
    <3> QED BY <3>1, <3>2
  <2>2. \A i \in DOMAIN t : i + 1 \in DOMAIN s /\ t[i] = s[i + 1]
    BY <1>1
  <2> QED BY <1>1, <2>1, <2>2 DEF Items
<1>3. ASSUME InOrder(s) PROVE InOrder(t) /\ Earlier({Head(s)}, Items(t))
  <2>1. \A i \in DOMAIN t : i \in Nat /\ i + 1 \in DOMAIN s /\ 1 \in DOMAIN s /\ 1 < i + 1 /\ t[i] = s[i + 1]
    BY <1>1
  <2>2. InOrder(t)
    <3>1. ASSUME NEW i \in DOMAIN t, NEW j \in DOMAIN t, i < j, t[i][1] = t[j][1]
          PROVE  t[i][2] < t[j][2]
      <4>1. /\ i + 1 \in DOMAIN s /\ j + 1 \in DOMAIN s /\ i + 1 < j + 1
            /\ t[i] = s[i + 1] /\ t[j] = s[j + 1]
        BY <2>1, <3>1
      <4> QED BY <1>3, <3>1, <4>1 DEF InOrder
    <3> QED BY <3>1 DEF InOrder
  <2>3. \A i \in DOMAIN t : s[1][1] = t[i][1] => s[1][2] < t[i][2]
    BY <1>3, <2>1 DEF InOrder
  <2> QED BY <1>1, <2>2, <2>3 DEF Earlier, Items
<1> QED BY <1>1, <1>2, <1>3 DEF t

(* Two lists in a row.                                                     *)
LEMMA ConcatOrder ==
  ASSUME NEW S, NEW s \in Seq(S), NEW t \in Seq(S)
  PROVE  /\ s \o t \in Seq(S)
         /\ Items(s \o t) = Items(s) \cup Items(t)
         /\ InOrder(s) /\ InOrder(t) /\ Earlier(Items(s), Items(t)) => InOrder(s \o t)
<1> DEFINE c == s \o t
<1>1. /\ Len(s) \in Nat /\ Len(t) \in Nat /\ DOMAIN s = 1..Len(s) /\ DOMAIN t = 1..Len(t)
      /\ c \in Seq(S) /\ DOMAIN c = 1..(Len(s) + Len(t))
      /\ \A i \in 1..(Len(s) + Len(t)) : c[i] = IF i <= Len(s) THEN s[i] ELSE t[i - Len(s)]
  OBVIOUS
<1> HIDE DEF c
<1>2. \A i \in DOMAIN c : \/ i \in DOMAIN s /\ c[i] = s[i] /\ i <= Len(s)
                          \/ i > Len(s) /\ i - Len(s) \in DOMAIN t /\ c[i] = t[i - Len(s)]
  BY <1>1
<1>3. \A i \in DOMAIN s : i \in DOMAIN c /\ c[i] = s[i]
  BY <1>1
<1>4. \A i \in DOMAIN t : Len(s) + i \in DOMAIN c /\ c[Len(s) + i] = t[i]
  BY <1>1
<1>5. Items(c) = Items(s) \cup Items(t)
  BY <1>2, <1>3, <1>4 DEF Items
<1>6. ASSUME InOrder(s), InOrder(t), Earlier(Items(s), Items(t)),
             NEW i \in DOMAIN c, NEW j \in DOMAIN c, i < j, c[i][1] = c[j][1]
      PROVE  c[i][2] < c[j][2]
  <2>1. CASE j <= Len(s)
    <3>1. i \in DOMAIN s /\ j \in DOMAIN s /\ c[i] = s[i] /\ c[j] = s[j]
      BY <1>1, <1>6, <2>1
    <3> QED BY <1>6, <3>1 DEF InOrder
  <2>2. CASE i > Len(s)
    <3>1. /\ i - Len(s) \in DOMAIN t /\ c[i] = t[i - Len(s)] /\ i - Len(s) < j - Len(s)
          /\ j - Len(s) \in DOMAIN t /\ c[j] = t[j - Len(s)]
      BY <1>1, <1>6, <2>2
    <3> QED BY <1>6, <3>1 DEF InOrder
  <2>3. CASE i <= Len(s) /\ j > Len(s)
    <3>1. c[i] \in Items(s) /\ c[j] \in Items(t)
      BY <1>1, <1>2, <2>3 DEF Items
    <3> QED BY <1>6, <3>1 DEF Earlier
  <2> QED BY <1>1, <2>1, <2>2, <2>3
<1>7. InOrder(s) /\ InOrder(t) /\ Earlier(Items(s), Items(t)) => InOrder(c)
  BY <1>6 DEF InOrder
<1> QED BY <1>1, <1>5, <1>7 DEF c

(* A list is cut in two, as drainHandlers does.                            *)
LEMMA SplitOrder ==
  ASSUME NEW S, NEW q \in Seq(S), NEW k \in 0..Len(q)
  PROVE  /\ SubSeq(q, 1, k) \in Seq(S) /\ SubSeq(q, k + 1, Len(q)) \in Seq(S)
         /\ Items(q) = Items(SubSeq(q, 1, k)) \cup Items(SubSeq(q, k + 1, Len(q)))
         /\ InOrder(q) => /\ InOrder(SubSeq(q, 1, k)) /\ InOrder(SubSeq(q, k + 1, Len(q)))
                          /\ Earlier(Items(SubSeq(q, 1, k)), Items(SubSeq(q, k + 1, Len(q))))
<1> DEFINE s == SubSeq(q, 1, k)
           t == SubSeq(q, k + 1, Len(q))
<1>1. /\ Len(q) \in Nat /\ k \in Nat /\ k <= Len(q) /\ DOMAIN q = 1..Len(q)
      /\ s \in Seq(S) /\ DOMAIN s = 1..k /\ \A i \in 1..k : s[i] = q[i]
  OBVIOUS
<1>2. /\ t \in Seq(S) /\ DOMAIN t = 1..(Len(q) - k)
      /\ \A i \in 1..(Len(q) - k) : t[i] = q[k + i]
  OBVIOUS
<1> HIDE DEF s, t
<1>3. \A i \in DOMAIN q : \/ i \in DOMAIN s /\ s[i] = q[i]
                          \/ i - k \in DOMAIN t /\ t[i - k] = q[i]
  BY <1>1, <1>2
<1>4. \A i \in DOMAIN s : i \in DOMAIN q /\ s[i] = q[i] /\ i <= k
  BY <1>1
<1>5. \A i \in DOMAIN t : i \in Nat /\ k + i \in DOMAIN q /\ t[i] = q[k + i] /\ k < k + i
  BY <1>1, <1>2
<1>6. Items(q) = Items(s) \cup Items(t)
  BY <1>3, <1>4, <1>5 DEF Items
<1>7. ASSUME InOrder(q) PROVE InOrder(s) /\ InOrder(t) /\ Earlier(Items(s), Items(t))
  <2>1. InOrder(s)
    BY <1>4, <1>7 DEF InOrder
  <2>2. InOrder(t)
    BY <1>1, <1>5, <1>7 DEF InOrder
  <2>3. ASSUME NEW i \in DOMAIN s, NEW j \in DOMAIN t, s[i][1] = t[j][1] PROVE s[i][2] < t[j][2]
    <3>1. i \in DOMAIN q /\ k + j \in DOMAIN q /\ i < k + j /\ s[i] = q[i] /\ t[j] = q[k + j]
      BY <1>1, <1>4, <1>5
    <3> QED BY <1>7, <2>3, <3>1 DEF InOrder
  <2> QED BY <2>1, <2>2, <2>3 DEF Earlier, Items
<1> QED BY <1>1, <1>2, <1>6, <1>7 DEF s, t
-----------------------------------------------------------------------------
(* The variables of the bus; no handler is in the Set twice.               *)
BusTypes ==
  /\ listeners \in Seq(Handlers) /\ Once(listeners)
  /\ emitted \in 0..MaxEmits
  /\ queue \in Seq(Invocations) /\ turns \in Seq(Invocations)
  /\ active \in Int /\ active <= MaxConcurrency
  /\ limited \in [Modules -> Seq(Invocations)]
  /\ running \subseteq Invocations /\ IsFiniteSet(running)
  /\ given \in [Handlers -> Seq(Events)]

(* A limiter holds invocations of its own module, and only while the       *)
(* module's handlers take all its places.                                  *)
LimitersSound ==
  \A m \in Modules :
    /\ \A i \in Items(limited[m]) : Owner[i[1]] = m
    /\ limited[m] # <<>> => Cardinality(RunningOf(m)) >= Limit

(* Along its way - queue, turn, limiter, call - no invocation overtakes an *)
(* earlier one of its handler.                                             *)
NoOvertaking ==
  /\ InOrder(queue) /\ InOrder(turns) /\ \A m \in Modules : InOrder(limited[m])
  /\ Earlier(Items(turns), Items(queue))
  /\ \A m \in Modules : Earlier(Items(limited[m]), Items(turns) \cup Items(queue))
  /\ Earlier(running, Waiting)
  /\ \A i \in Waiting \cup running : i[2] <= emitted

BusInv == BusTypes /\ LimitersSound /\ NoOvertaking

LEMMA WaitingIs ==
  ASSUME NEW x
  PROVE  x \in Waiting <=> \/ x \in Items(queue) \/ x \in Items(turns)
                         \/ \E m \in Modules : x \in Items(limited[m])
BY DEF Waiting

(* The empty list, and what a list contains.                               *)
LEMMA EmptyIs ==
  /\ Items(<<>>) = {} /\ InOrder(<<>>) /\ Once(<<>>)
  /\ \A S : <<>> \in Seq(S)
  /\ \A S, s : s \in Seq(S) => (Items(s) \subseteq S /\ (Items(s) = {} <=> s = <<>>))
<1>1. \A S : <<>> \in Seq(S)
  OBVIOUS
<1>2. DOMAIN <<>> = {}
  OBVIOUS
<1>3. ASSUME NEW S, NEW s \in Seq(S)
      PROVE  Items(s) \subseteq S /\ (Items(s) = {} <=> s = <<>>)
  <2>1. DOMAIN s = 1..Len(s) /\ Len(s) \in Nat /\ \A i \in 1..Len(s) : s[i] \in S
    OBVIOUS
  <2>2. s = <<>> <=> Len(s) = 0
    OBVIOUS
  <2>3. Len(s) # 0 => s[1] \in Items(s)
    BY <2>1 DEF Items
  <2>4. Len(s) = 0 => Items(s) = {}
    BY <2>1 DEF Items
  <2> QED BY <2>1, <2>2, <2>3, <2>4 DEF Items
<1> QED BY <1>1, <1>2, <1>3 DEF Items, InOrder, Once

LEMMA InitBus == BusInit => BusInv
<1> SUFFICES ASSUME BusInit PROVE BusInv
  OBVIOUS
<1>1. BusTypes
  BY EmptyIs, FS_EmptySet, BusAssumption DEF BusInit, BusTypes
<1>2. Items(queue) = {} /\ Items(turns) = {} /\ running = {} /\ \A m \in Modules : Items(limited[m]) = {}
  BY EmptyIs DEF BusInit
<1>3. Waiting = {}
  BY <1>2, WaitingIs
<1> QED BY <1>1, <1>2, <1>3, EmptyIs DEF BusInit, BusInv, LimitersSound, NoOvertaking, Earlier

(* What drainHandlers does: nothing is lost or overtaken between the queue *)
(* and the turns.                                                          *)
LEMMA DrainKeeps ==
  ASSUME NEW q \in Seq(Invocations), NEW n \in Int, n <= MaxConcurrency,
         turns \in Seq(Invocations), DrainHandlers(q, n)
  PROVE  /\ queue' \in Seq(Invocations) /\ turns' \in Seq(Invocations)
         /\ active' \in Int /\ active' <= MaxConcurrency
         /\ Items(turns') \cup Items(queue') = Items(turns) \cup Items(q)
         /\ InOrder(q) /\ InOrder(turns) /\ Earlier(Items(turns), Items(q))
              => InOrder(queue') /\ InOrder(turns') /\ Earlier(Items(turns'), Items(queue'))
<1> DEFINE k == IF Len(q) <= Room(n) THEN Len(q) ELSE Room(n)
           s == SubSeq(q, 1, k)
           t == SubSeq(q, k + 1, Len(q))
<1>1. /\ Len(q) \in Nat /\ MaxConcurrency \in Nat
      /\ Room(n) \in Nat /\ Room(n) = MaxConcurrency - n
  BY BusAssumption DEF Room
<1>2. k \in 0..Len(q) /\ n + k \in Int /\ n + k <= MaxConcurrency
  BY <1>1
<1>3. queue' = t /\ turns' = turns \o s /\ active' = n + k
  BY DEF DrainHandlers
<1> HIDE DEF k
<1>4. /\ s \in Seq(Invocations) /\ t \in Seq(Invocations)
      /\ Items(q) = Items(s) \cup Items(t)
      /\ InOrder(q) => InOrder(s) /\ InOrder(t) /\ Earlier(Items(s), Items(t))
  BY <1>2, SplitOrder
<1> HIDE DEF s, t
<1>5. /\ turns \o s \in Seq(Invocations)
      /\ Items(turns \o s) = Items(turns) \cup Items(s)
      /\ InOrder(turns) /\ InOrder(s) /\ Earlier(Items(turns), Items(s)) => InOrder(turns \o s)
  BY <1>4, ConcatOrder
<1>6. ASSUME InOrder(q), InOrder(turns), Earlier(Items(turns), Items(q))
      PROVE  InOrder(queue') /\ InOrder(turns') /\ Earlier(Items(turns'), Items(queue'))
  <2>1. Earlier(Items(turns), Items(s)) /\ Earlier(Items(turns), Items(t))
    BY <1>4, <1>6 DEF Earlier
  <2>2. Earlier(Items(turns) \cup Items(s), Items(t))
    BY <1>4, <1>6, <2>1 DEF Earlier
  <2> QED BY <1>3, <1>4, <1>5, <1>6, <2>1, <2>2
<1>7. Items(turns') \cup Items(queue') = Items(turns) \cup Items(q)
  BY <1>3, <1>4, <1>5
<1> QED BY <1>2, <1>3, <1>4, <1>5, <1>6, <1>7

(* The listeners that stay when others go.                                 *)
LEMMA WithoutKeeps ==
  ASSUME BusTypes, NEW hs
  PROVE  /\ Without(hs) \in Seq(Handlers) /\ Once(Without(hs))
         /\ Items(Without(hs)) \subseteq Items(listeners) \ hs
<1> DEFINE kept == {i \in DOMAIN listeners : listeners[i] \notin hs}
           Nth(k) == CHOOSE i \in kept : Cardinality({j \in kept : j < i}) = k - 1
           w == Without(hs)
<1>1. DOMAIN listeners = 1..Len(listeners) /\ Len(listeners) \in Nat
  BY DEF BusTypes
<1>2. IsFiniteSet(kept) /\ kept \subseteq Nat /\ Cardinality(kept) \in Nat
  <2>1. kept \subseteq 1..Len(listeners) /\ IsFiniteSet(1..Len(listeners))
    BY <1>1, FS_Interval
  <2> QED BY <2>1, FS_Subset, FS_CardinalityType
<1>3. ASSUME NEW k \in 1..Cardinality(kept)
      PROVE  Nth(k) \in kept /\ Cardinality({j \in kept : j < Nth(k)}) = k - 1
  <2>1. k - 1 \in Nat /\ k - 1 < Cardinality(kept)
    BY <1>2
  <2> HIDE DEF kept
  <2>2. \E i \in kept : Cardinality({j \in kept : j < i}) = k - 1
    BY <1>2, <2>1, NthExists
  <2> QED BY <2>2
<1>4. w = [k \in 1..Cardinality(kept) |-> listeners[Nth(k)]]
  BY DEF Without
<1> HIDE DEF Nth, w
<1>5. \A k \in 1..Cardinality(kept) : w[k] = listeners[Nth(k)] /\ w[k] \in Items(listeners) \ hs
  BY <1>3, <1>4 DEF Items
<1>6. DOMAIN w = 1..Cardinality(kept)
  BY <1>4
<1>7. Items(w) \subseteq Items(listeners) \ hs
  BY <1>5, <1>6 DEF Items
<1>8. Items(listeners) \subseteq Handlers
  BY EmptyIs DEF BusTypes
<1>9. w \in Seq(Handlers)
  <2>1. w \in [1..Cardinality(kept) -> Handlers]
    BY <1>4, <1>5, <1>8
  <2>2. ASSUME NEW n \in Nat, w \in [1..n -> Handlers] PROVE w \in Seq(Handlers)
    BY <2>2
  <2> QED BY <1>2, <2>1, <2>2
<1>10. ASSUME NEW k \in 1..Cardinality(kept), NEW l \in 1..Cardinality(kept), w[k] = w[l]
       PROVE  k = l
  <2>1. listeners[Nth(k)] = listeners[Nth(l)] /\ Nth(k) \in DOMAIN listeners /\ Nth(l) \in DOMAIN listeners
    BY <1>3, <1>5, <1>10
  <2>2. Nth(k) = Nth(l)
    BY <2>1 DEF BusTypes, Once
  <2> DEFINE c(i) == Cardinality({j \in kept : j < i})
  <2>3. c(Nth(k)) = k - 1 /\ c(Nth(l)) = l - 1
    BY <1>3
  <2>4. c(Nth(k)) = c(Nth(l))
    BY <2>2
  <2> HIDE DEF c
  <2> QED BY <2>3, <2>4
<1>11. Once(w)
  BY <1>6, <1>10 DEF Once
<1> QED BY <1>7, <1>9, <1>11 DEF w

(* The handlers a constructor subscribes are new ones.                     *)
LEMMA FreshListeners ==
  ASSUME BusTypes, NEW hs \in SUBSET Handlers, hs \cap Items(listeners) = {}
  PROVE  /\ listeners \o SetToSeq(hs) \in Seq(Handlers)
         /\ Once(listeners \o SetToSeq(hs))
         /\ Items(listeners \o SetToSeq(hs)) \subseteq Items(listeners) \cup hs
<1> DEFINE n == Cardinality(hs)
           f == SetToSeq(hs)
           c == listeners \o f
<1>1. IsFiniteSet(hs) /\ n \in Nat
  BY FS_Subset, FS_CardinalityType, RuntimeAssumption
<1>2. \E g \in [1..n -> hs] : IsInjective(g)
  <2>1. ExistsBijection(1..n, hs)
    BY <1>1, FS_NatBijection, FS_CountingElements
  <2>2. PICK g \in Bijection(1..n, hs) : TRUE
    BY <2>1 DEF ExistsBijection
  <2>3. g \in [1..n -> hs] /\ IsInjective(g)
    BY <2>2 DEF Bijection, Injection, IsInjective
  <2> QED BY <2>3
<1>3. f \in [1..n -> hs] /\ IsInjective(f)
  BY <1>2 DEF SetToSeq
<1> HIDE DEF f
<1>4. /\ f \in Seq(Handlers) /\ Once(f) /\ Items(f) \subseteq hs
  <2>1. f \in [1..n -> Handlers]
    BY <1>3
  <2>2. f \in Seq(Handlers)
    BY <1>1, <2>1
  <2>3. Once(f) /\ Items(f) \subseteq hs
    BY <1>3 DEF Once, Items, IsInjective
  <2> QED BY <2>2, <2>3
<1>5. c \in Seq(Handlers) /\ Items(c) = Items(listeners) \cup Items(f)
  BY <1>4, ConcatOrder DEF BusTypes
<1>6. Once(c)
  <2>1. /\ Len(listeners) \in Nat /\ Len(f) \in Nat /\ DOMAIN c = 1..(Len(listeners) + Len(f))
        /\ DOMAIN listeners = 1..Len(listeners) /\ DOMAIN f = 1..Len(f)
        /\ \A i \in 1..(Len(listeners) + Len(f)) :
             c[i] = IF i <= Len(listeners) THEN listeners[i] ELSE f[i - Len(listeners)]
    BY <1>4 DEF BusTypes
  <2> HIDE DEF c
  <2>2. \A i \in DOMAIN c : \/ i \in DOMAIN listeners /\ c[i] = listeners[i] /\ c[i] \in Items(listeners)
                            \/ /\ i \in Int /\ i - Len(listeners) \in DOMAIN f
                               /\ c[i] = f[i - Len(listeners)] /\ c[i] \in hs
    BY <1>4, <2>1 DEF Items
  <2>3. ASSUME NEW i \in DOMAIN c, NEW j \in DOMAIN c, c[i] = c[j] PROVE i = j
    <3>1. CASE c[i] \in hs
      <4>1. /\ i \in Int /\ i - Len(listeners) \in DOMAIN f /\ c[i] = f[i - Len(listeners)]
            /\ j \in Int /\ j - Len(listeners) \in DOMAIN f /\ c[j] = f[j - Len(listeners)]
        BY <2>2, <2>3, <3>1
      <4>2. i - Len(listeners) = j - Len(listeners)
        BY <1>4, <2>3, <4>1 DEF Once
      <4> QED BY <2>1, <4>1, <4>2
    <3>2. CASE c[i] \notin hs
      <4>1. i \in DOMAIN listeners /\ c[i] = listeners[i] /\ j \in DOMAIN listeners /\ c[j] = listeners[j]
        BY <2>2, <2>3, <3>2
      <4> QED BY <2>3, <4>1 DEF BusTypes, Once
    <3> QED BY <3>1, <3>2
  <2> QED BY <2>3 DEF Once
<1> QED BY <1>4, <1>5, <1>6 DEF f

-----------------------------------------------------------------------------
LEMMA InvocationIs ==
  ASSUME NEW i \in Invocations
  PROVE  /\ i = <<i[1], i[2]>> /\ i[1] \in Handlers /\ i[2] \in Events
         /\ i[2] \in Nat /\ i[2] >= 1 /\ Owner[i[1]] \in Modules
BY BusAssumption DEF Invocations, Events

LEMMA WaitingType ==
  ASSUME BusTypes
  PROVE  /\ Waiting \subseteq Invocations
         /\ Items(queue) \subseteq Waiting /\ Items(turns) \subseteq Waiting
         /\ \A m \in Modules : Items(limited[m]) \subseteq Waiting
<1>1. /\ Items(queue) \subseteq Invocations /\ Items(turns) \subseteq Invocations
      /\ \A m \in Modules : Items(limited[m]) \subseteq Invocations
  BY EmptyIs DEF BusTypes
<1> QED BY <1>1, WaitingIs

(* Handlers that come and go leave the invocations alone.                  *)
LEMMA ListenersStep ==
  ASSUME BusInv, listeners' \in Seq(Handlers), Once(listeners'),
         UNCHANGED <<emitted, queue, turns, active, limited, running, given>>
  PROVE  BusInv' /\ Delivery!Resubscribe
<1>1. Waiting' = Waiting
  BY DEF Waiting
<1>2. \A m \in Modules : RunningOf(m)' = RunningOf(m)
  BY DEF RunningOf
<1>3. BusTypes'
  BY DEF BusInv, BusTypes, Once
<1>4. LimitersSound'
  BY <1>2 DEF BusInv, LimitersSound, Items
<1>5. NoOvertaking'
  BY <1>1 DEF BusInv, NoOvertaking, InOrder, Earlier, Items
<1>6. Items(listeners') \subseteq Handlers
  BY EmptyIs
<1> QED BY <1>1, <1>3, <1>4, <1>5, <1>6 DEF BusInv, Delivery!Resubscribe, Items

(* An event is new for every handler, and later than all it still waits    *)
(* for.                                                                    *)
LEMMA EmitStep ==
  ASSUME BusInv, Emit
  PROVE  BusInv' /\ Delivery!Publish
<1> DEFINE e == emitted + 1
           is == [i \in DOMAIN listeners |-> <<listeners[i], e>>]
           q == queue \o is
<1>0. /\ BusTypes /\ LimitersSound /\ NoOvertaking /\ emitted \in Nat /\ e \in Events
      /\ UNCHANGED <<listeners, limited, running, given>> /\ emitted' = e
      /\ DrainHandlers(q, active)
  BY BusAssumption DEF BusInv, BusTypes, Emit, Enqueued, Events
<1>1. /\ is \in Seq(Invocations) /\ InOrder(is)
      /\ Items(is) = {<<h, e>> : h \in Items(listeners)}
  <2>1. /\ DOMAIN listeners = 1..Len(listeners) /\ Len(listeners) \in Nat
        /\ \A i \in DOMAIN listeners : listeners[i] \in Handlers
    BY <1>0 DEF BusTypes
  <2>2. is \in [1..Len(listeners) -> Invocations]
    BY <1>0, <2>1 DEF Invocations
  <2>3. is \in Seq(Invocations)
    BY <2>1, <2>2
  <2>4. InOrder(is)
    <3>1. ASSUME NEW i \in DOMAIN listeners, NEW j \in DOMAIN listeners, i < j,
                 listeners[i] = listeners[j] PROVE FALSE
      BY <1>0, <2>1, <3>1 DEF BusTypes, Once
    <3>2. DOMAIN is = DOMAIN listeners /\ \A i \in DOMAIN listeners : is[i][1] = listeners[i]
      OBVIOUS
    <3> HIDE DEF is
    <3> QED BY <3>1, <3>2 DEF InOrder
  <2> QED BY <2>3, <2>4 DEF Items
<1>2. \A x \in Items(is) : x[2] = e
  BY <1>1
<1>3. \A x \in Waiting \cup running : x[2] \in Nat /\ x[2] <= emitted
  BY <1>0, WaitingType, InvocationIs DEF NoOvertaking, BusTypes
<1> HIDE DEF is
<1>4. /\ q \in Seq(Invocations) /\ Items(q) = Items(queue) \cup Items(is)
      /\ InOrder(q)
  <2>1. Earlier(Items(queue), Items(is))
    BY <1>0, <1>2, <1>3, WaitingType DEF Earlier
  <2> QED BY <1>0, <1>1, <2>1, ConcatOrder DEF BusTypes, NoOvertaking
<1> HIDE DEF q
<1>5. Earlier(Items(turns), Items(q)) /\ Earlier(running, Waiting \cup Items(is))
  <2>1. Earlier(Items(turns), Items(is)) /\ Earlier(running, Items(is))
    BY <1>0, <1>2, <1>3, WaitingType DEF Earlier
  <2> QED BY <1>0, <1>4, <2>1 DEF Earlier, NoOvertaking
<1>6. \A m \in Modules : Earlier(Items(limited[m]), Items(turns) \cup Items(q))
  <2>1. \A m \in Modules : Earlier(Items(limited[m]), Items(is))
    BY <1>0, <1>2, <1>3, WaitingType DEF Earlier
  <2> QED BY <1>0, <1>4, <2>1 DEF Earlier, NoOvertaking
<1>7. /\ queue' \in Seq(Invocations) /\ turns' \in Seq(Invocations)
      /\ active' \in Int /\ active' <= MaxConcurrency
      /\ Items(turns') \cup Items(queue') = Items(turns) \cup Items(q)
      /\ InOrder(queue') /\ InOrder(turns') /\ Earlier(Items(turns'), Items(queue'))
  BY <1>0, <1>4, <1>5, DrainKeeps DEF BusTypes, NoOvertaking
<1>8. Waiting' = Waiting \cup Items(is)
  <2>1. \A m \in Modules : limited'[m] = limited[m]
    BY <1>0
  <2> QED BY <1>0, <1>4, <1>7, <2>1 DEF Waiting
<1>9. BusTypes'
  BY <1>0, <1>7 DEF BusTypes, Events
<1>10. LimitersSound'
  BY <1>0 DEF LimitersSound, RunningOf, Items
<1>11. NoOvertaking'
  <2>1. \A x \in Waiting' \cup running' : x[2] <= emitted'
    BY <1>0, <1>2, <1>3, <1>8
  <2>2. Earlier(running', Waiting')
    BY <1>0, <1>5, <1>8
  <2>3. \A m \in Modules : Earlier(Items(limited'[m]), Items(turns') \cup Items(queue'))
    BY <1>0, <1>6, <1>7
  <2>4. \A m \in Modules : InOrder(limited'[m])
    BY <1>0 DEF NoOvertaking
  <2> QED BY <1>7, <2>1, <2>2, <2>3, <2>4 DEF NoOvertaking
<1> QED BY <1>0, <1>1, <1>8, <1>9, <1>10, <1>11 DEF BusInv, Delivery!Publish

(* An invocation is called: what waits of its handler is later.            *)
LEMMA GiveStep ==
  ASSUME BusInv, NEW i \in Waiting, Waiting' = Waiting \ {i},
         \A x \in Waiting \ {i} : x[1] = i[1] => i[2] < x[2],
         Called(i), UNCHANGED <<listeners, emitted>>
  PROVE  /\ \E h \in Handlers, e \in 1..emitted : Delivery!Give(h, e)
         /\ given' \in [Handlers -> Seq(Events)]
<1>1. /\ i \in Invocations /\ i = <<i[1], i[2]>> /\ i[1] \in Handlers /\ i[2] \in Events
      /\ i[2] \in Nat /\ i[2] >= 1
  BY WaitingType, InvocationIs DEF BusInv
<1>2. i[2] \in 1..emitted
  BY <1>1 DEF BusInv, BusTypes, NoOvertaking
<1>3. ASSUME NEW f \in 1..(i[2] - 1) PROVE <<i[1], f>> \notin Waiting
  <2>1. <<i[1], f>> # i /\ ~(i[2] < f)
    BY <1>1
  <2> QED BY <2>1
<1>4. given' = [given EXCEPT ![i[1]] = Append(@, i[2])]
  BY DEF Called
<1>5. Delivery!Give(i[1], i[2])
  BY <1>1, <1>3, <1>4 DEF Delivery!Give, Items
<1>6. given' \in [Handlers -> Seq(Events)]
  <2>1. given \in [Handlers -> Seq(Events)]
    BY DEF BusInv, BusTypes
  <2>2. Append(given[i[1]], i[2]) \in Seq(Events)
    BY <1>1, <2>1
  <2> QED BY <1>1, <1>4, <2>1, <2>2
<1> QED BY <1>1, <1>2, <1>5, <1>6

LEMMA RunningFinite ==
  ASSUME BusTypes, NEW m
  PROVE  IsFiniteSet(RunningOf(m)) /\ Cardinality(RunningOf(m)) \in Nat
BY FS_Subset, FS_CardinalityType, RunningOf(m) \subseteq running DEF BusTypes, RunningOf

(* At its turn an invocation is called, if nothing of its module waits in  *)
(* the limiter, or joins those that wait there.                            *)
LEMMA TurnStep ==
  ASSUME BusInv, Turn
  PROVE  BusInv' /\ [Delivery!DeliveryNext]_(Delivery!deliveryVars)
<1> DEFINE i == Head(turns)
           m == Owner[i[1]]
           rest == Tail(turns)
<1>0. /\ BusTypes /\ LimitersSound /\ NoOvertaking /\ turns # <<>> /\ turns' = rest
      /\ UNCHANGED <<listeners, emitted, queue, active>>
  BY DEF BusInv, Turn
<1>1. /\ i \in Invocations /\ rest \in Seq(Invocations) /\ Items(turns) = {i} \cup Items(rest)
      /\ InOrder(rest) /\ Earlier({i}, Items(rest))
  BY <1>0, TailOrder DEF BusTypes, NoOvertaking
<1>2. /\ i[1] \in Handlers /\ i[2] \in Nat /\ m \in Modules
  BY <1>1, InvocationIs
<1>3. CASE Cardinality(RunningOf(m)) < Limit
  <2>0. running' = running \cup {i} /\ Called(i) /\ UNCHANGED limited
    BY <1>0, <1>3 DEF Turn
  <2>1. Items(limited[m]) = {}
    <3>1. limited[m] = <<>>
      BY <1>0, <1>2, <1>3, RunningFinite, BusAssumption DEF LimitersSound
    <3> QED BY <3>1, EmptyIs
  <2> HIDE DEF i, rest
  <2>2. \A x \in Items(queue) \cup Items(rest) : x[1] = i[1] => i[2] < x[2]
    BY <1>0, <1>1 DEF NoOvertaking, Earlier
  <2>3. \A k \in Modules : \A x \in Items(limited[k]) : x[1] # i[1]
    BY <1>0, <1>2, <2>1 DEF LimitersSound
  <2>4. i \notin Items(queue) /\ i \notin Items(rest)
    BY <1>2, <2>2
  <2>5. \A k \in Modules : i \notin Items(limited[k])
    BY <2>3
  <2>6. i \in Waiting /\ Waiting' = Waiting \ {i}
    BY <1>0, <1>1, <2>0, <2>4, <2>5 DEF Waiting
  <2>7. \A x \in Waiting \ {i} : x[1] = i[1] => i[2] < x[2]
    BY <1>1, <2>2, <2>3 DEF Waiting
  <2>8. /\ \E h \in Handlers, e \in 1..emitted : Delivery!Give(h, e)
        /\ given' \in [Handlers -> Seq(Events)]
    BY <1>0, <2>0, <2>6, <2>7, GiveStep
  <2>9. BusTypes'
    BY <1>0, <1>1, <2>0, <2>8, FS_AddElement DEF BusTypes
  <2>10. LimitersSound'
    <3>1. ASSUME NEW k \in Modules, limited[k] # <<>> PROVE RunningOf(k)' = RunningOf(k)
      <4>1. Items(limited[k]) # {}
        BY <1>0, <3>1, EmptyIs DEF BusTypes
      <4>2. k # m
        BY <2>1, <4>1
      <4> QED BY <2>0, <4>2 DEF RunningOf
    <3> QED BY <1>0, <2>0, <3>1 DEF LimitersSound
  <2>11. NoOvertaking'
    <3>1. Earlier(running', Waiting')
      BY <1>0, <2>0, <2>6, <2>7 DEF NoOvertaking, Earlier
    <3>2. \A x \in Waiting' \cup running' : x[2] <= emitted'
      BY <1>0, <2>0, <2>6 DEF NoOvertaking
    <3>3. Earlier(Items(rest), Items(queue))
      BY <1>0, <1>1 DEF NoOvertaking, Earlier
    <3>4. \A k \in Modules : Earlier(Items(limited[k]), Items(rest) \cup Items(queue))
      BY <1>0, <1>1 DEF NoOvertaking, Earlier
    <3> QED BY <1>0, <1>1, <2>0, <3>1, <3>2, <3>3, <3>4 DEF NoOvertaking
  <2> QED BY <2>8, <2>9, <2>10, <2>11 DEF BusInv, Delivery!DeliveryNext
<1>4. CASE ~(Cardinality(RunningOf(m)) < Limit)
  <2>0. limited' = [limited EXCEPT ![m] = Append(limited[m], i)] /\ UNCHANGED <<running, given>>
    BY <1>0, <1>4 DEF Turn, Held
  <2> HIDE DEF i, rest
  <2>1. /\ limited[m] \in Seq(Invocations) /\ limited'[m] = Append(limited[m], i)
        /\ \A k \in Modules \ {m} : limited'[k] = limited[k]
    BY <1>0, <1>2, <2>0 DEF BusTypes
  <2>2. Earlier(Items(limited[m]), {i})
    BY <1>0, <1>1, <1>2 DEF NoOvertaking, Earlier
  <2>3. /\ limited'[m] \in Seq(Invocations) /\ InOrder(limited'[m])
        /\ Items(limited'[m]) = Items(limited[m]) \cup {i}
    BY <1>0, <1>1, <1>2, <2>1, <2>2, AppendOrder DEF NoOvertaking
  <2>4. Waiting' = Waiting
    <3>1. ASSUME NEW x PROVE (\E k \in Modules : x \in Items(limited'[k]))
                             <=> x = i \/ \E k \in Modules : x \in Items(limited[k])
      BY <1>2, <2>1, <2>3
    <3>2. \A x : x \in Waiting' <=> x \in Waiting
      BY <1>0, <1>1, <3>1 DEF Waiting
    <3> QED BY <3>2
  <2>5. BusTypes'
    <3>1. limited' \in [Modules -> Seq(Invocations)]
      BY <1>0, <1>2, <2>0, <2>1, <2>3 DEF BusTypes
    <3> QED BY <1>0, <1>1, <2>0, <3>1 DEF BusTypes
  <2>6. LimitersSound'
    <3>1. \A k : RunningOf(k)' = RunningOf(k)
      BY <2>0 DEF RunningOf
    <3>2. Cardinality(RunningOf(m)) >= Limit
      BY <1>0, <1>4, RunningFinite, BusAssumption
    <3>3. \A k \in Modules : \A x \in Items(limited'[k]) : Owner[x[1]] = k
      BY <1>0, <2>1, <2>3 DEF LimitersSound
    <3> QED BY <1>0, <2>1, <3>1, <3>2, <3>3 DEF LimitersSound
  <2>7. NoOvertaking'
    <3>1. Earlier(Items(rest), Items(queue)) /\ Earlier({i}, Items(rest) \cup Items(queue))
      BY <1>0, <1>1 DEF NoOvertaking, Earlier
    <3>2. \A k \in Modules : Earlier(Items(limited'[k]), Items(rest) \cup Items(queue))
      BY <1>0, <1>1, <2>1, <2>3, <3>1 DEF NoOvertaking, Earlier
    <3>3. \A k \in Modules : InOrder(limited'[k])
      BY <1>0, <2>1, <2>3 DEF NoOvertaking
    <3> QED BY <1>0, <1>1, <2>0, <2>4, <3>1, <3>2, <3>3 DEF NoOvertaking
  <2>8. UNCHANGED Delivery!deliveryVars
    BY <1>0, <2>0, <2>4 DEF Delivery!deliveryVars, Items
  <2> QED BY <2>5, <2>6, <2>7, <2>8 DEF BusInv
<1> QED BY <1>3, <1>4

(* The limiter puts its first in the place that got free.                  *)
LEMMA EndStep ==
  ASSUME BusInv, NEW i \in running, HandlerEnds(i)
  PROVE  BusInv' /\ [Delivery!DeliveryNext]_(Delivery!deliveryVars)
<1> DEFINE m == Owner[i[1]]
           h == Head(limited[m])
           rest == Tail(limited[m])
<1>0. /\ BusTypes /\ LimitersSound /\ NoOvertaking
      /\ DrainHandlers(queue, active - 1) /\ UNCHANGED <<listeners, emitted>>
  BY DEF BusInv, HandlerEnds, DrainAfter
<1>1. i \in Invocations /\ i[1] \in Handlers /\ m \in Modules
  BY <1>0, InvocationIs DEF BusTypes
<1>2. /\ queue' \in Seq(Invocations) /\ turns' \in Seq(Invocations)
      /\ active' \in Int /\ active' <= MaxConcurrency
      /\ Items(turns') \cup Items(queue') = Items(turns) \cup Items(queue)
      /\ InOrder(queue') /\ InOrder(turns') /\ Earlier(Items(turns'), Items(queue'))
  <2>1. active - 1 \in Int /\ active - 1 <= MaxConcurrency
    BY <1>0, BusAssumption DEF BusTypes
  <2> QED BY <1>0, <2>1, DrainKeeps DEF BusTypes, NoOvertaking
<1>3. CASE limited[m] = <<>>
  <2>0. running' = running \ {i} /\ UNCHANGED <<limited, given>>
    BY <1>3 DEF HandlerEnds
  <2>1. Waiting' = Waiting
    BY <1>2, <2>0 DEF Waiting
  <2>2. BusTypes'
    <3>1. IsFiniteSet(running \ {i})
      BY <1>0, FS_Subset DEF BusTypes
    <3> QED BY <1>0, <1>2, <2>0, <3>1 DEF BusTypes
  <2>3. LimitersSound'
    <3>1. \A k \in Modules : k # m => RunningOf(k)' = RunningOf(k)
      BY <2>0 DEF RunningOf
    <3> QED BY <1>0, <1>3, <2>0, <3>1 DEF LimitersSound
  <2>4. NoOvertaking'
    <3>1. Earlier(running', Waiting') /\ \A x \in Waiting' \cup running' : x[2] <= emitted'
      BY <1>0, <2>0, <2>1 DEF NoOvertaking, Earlier
    <3> QED BY <1>0, <1>2, <2>0, <3>1 DEF NoOvertaking
  <2>5. UNCHANGED Delivery!deliveryVars
    BY <1>0, <2>0, <2>1 DEF Delivery!deliveryVars, Items
  <2> QED BY <2>2, <2>3, <2>4, <2>5 DEF BusInv
<1>4. CASE limited[m] # <<>>
  <2>0. /\ running' = (running \ {i}) \cup {h} /\ limited' = [limited EXCEPT ![m] = rest]
        /\ Called(h)
    BY <1>4 DEF HandlerEnds
  <2>1. /\ h \in Invocations /\ rest \in Seq(Invocations)
        /\ Items(limited[m]) = {h} \cup Items(rest)
        /\ InOrder(rest) /\ Earlier({h}, Items(rest))
    BY <1>0, <1>1, <1>4, TailOrder DEF BusTypes, NoOvertaking
  <2>2. h[1] \in Handlers /\ h[2] \in Nat /\ Owner[h[1]] = m
    BY <1>0, <1>1, <2>1, InvocationIs DEF LimitersSound
  <2> HIDE DEF h, rest
  <2>3. limited'[m] = rest /\ \A k \in Modules \ {m} : limited'[k] = limited[k]
    BY <1>0, <1>1, <2>0 DEF BusTypes
  <2>4. \A x \in Items(turns) \cup Items(queue) \cup Items(rest) : x[1] = h[1] => h[2] < x[2]
    BY <1>0, <1>1, <2>1 DEF NoOvertaking, Earlier
  <2>5. \A k \in Modules \ {m} : \A x \in Items(limited[k]) : x[1] # h[1]
    BY <1>0, <2>2 DEF LimitersSound
  <2>6. h \in Waiting /\ Waiting' = Waiting \ {h}
    <3>1. h \in Waiting
      BY <1>1, <2>1, WaitingIs
    <3>2. ASSUME NEW x
          PROVE  x \in Waiting <=> \/ x = h \/ x \in Items(turns) \cup Items(queue) \cup Items(rest)
                                 \/ \E k \in Modules \ {m} : x \in Items(limited[k])
      BY <1>1, <2>1, WaitingIs
    <3>3. ASSUME NEW x
          PROVE  x \in Waiting' <=> \/ x \in Items(turns) \cup Items(queue) \cup Items(rest)
                                  \/ \E k \in Modules \ {m} : x \in Items(limited[k])
      BY <1>1, <1>2, <2>3 DEF Waiting
    <3>4. h \notin Items(turns) \cup Items(queue) \cup Items(rest)
      BY <2>2, <2>4
    <3>5. \A k \in Modules \ {m} : h \notin Items(limited[k])
      BY <2>5
    <3>6. \A x : x \in Waiting' <=> x \in Waiting \ {h}
      BY <3>2, <3>3, <3>4, <3>5
    <3> QED BY <3>1, <3>6
  <2>7. \A x \in Waiting \ {h} : x[1] = h[1] => h[2] < x[2]
    BY <2>1, <2>4, <2>5 DEF Waiting
  <2>8. /\ \E g \in Handlers, e \in 1..emitted : Delivery!Give(g, e)
        /\ given' \in [Handlers -> Seq(Events)]
    BY <1>0, <2>0, <2>6, <2>7, GiveStep
  <2>9. BusTypes'
    <3>1. IsFiniteSet(running')
      BY <1>0, <2>0, FS_Subset, FS_AddElement DEF BusTypes
    <3>2. limited' \in [Modules -> Seq(Invocations)]
      BY <1>0, <2>0, <2>1 DEF BusTypes
    <3> QED BY <1>0, <1>2, <2>0, <2>1, <2>8, <3>1, <3>2 DEF BusTypes
  <2>10. LimitersSound'
    <3>1. \A k \in Modules : k # m => RunningOf(k)' = RunningOf(k)
      BY <2>0, <2>2 DEF RunningOf
    <3>2. Cardinality(RunningOf(m)') = Cardinality(RunningOf(m))
      <4>1. h \notin running
        BY <1>0, <2>2, <2>6 DEF NoOvertaking, Earlier
      <4>2. RunningOf(m)' = (RunningOf(m) \ {i}) \cup {h} /\ i \in RunningOf(m) /\ h \notin RunningOf(m) \ {i}
        BY <2>0, <2>2, <4>1 DEF RunningOf
      <4>3. IsFiniteSet(RunningOf(m)) /\ Cardinality(RunningOf(m)) \in Nat
        BY <1>0, RunningFinite
      <4>4. /\ IsFiniteSet(RunningOf(m) \ {i})
            /\ Cardinality(RunningOf(m) \ {i}) = Cardinality(RunningOf(m)) - 1
        BY <4>2, <4>3, FS_RemoveElement
      <4>5. Cardinality((RunningOf(m) \ {i}) \cup {h}) = Cardinality(RunningOf(m) \ {i}) + 1
        BY <4>2, <4>4, FS_AddElement
      <4> QED BY <4>2, <4>3, <4>4, <4>5
    <3>3. Cardinality(RunningOf(m)) >= Limit
      BY <1>0, <1>1, <1>4 DEF LimitersSound
    <3>4. \A k \in Modules : \A x \in Items(limited'[k]) : Owner[x[1]] = k
      BY <1>0, <1>1, <2>1, <2>3 DEF LimitersSound
    <3>5. \A k \in Modules : limited'[k] # <<>> => Cardinality(RunningOf(k)') >= Limit
      BY <1>0, <2>3, <3>1, <3>2, <3>3 DEF LimitersSound
    <3> QED BY <3>4, <3>5 DEF LimitersSound
  <2>11. NoOvertaking'
    <3>1. Earlier(running', Waiting')
      BY <1>0, <2>0, <2>6, <2>7 DEF NoOvertaking, Earlier
    <3>2. \A x \in Waiting' \cup running' : x[2] <= emitted'
      BY <1>0, <2>0, <2>6 DEF NoOvertaking
    <3>3. \A k \in Modules : Items(limited'[k]) \subseteq Items(limited[k]) /\ InOrder(limited'[k])
      BY <1>0, <2>1, <2>3 DEF NoOvertaking
    <3>4. \A k \in Modules : Earlier(Items(limited'[k]), Items(turns') \cup Items(queue'))
      BY <1>0, <1>2, <3>3 DEF NoOvertaking, Earlier
    <3> QED BY <1>2, <3>1, <3>2, <3>3, <3>4 DEF NoOvertaking
  <2> QED BY <2>8, <2>9, <2>10, <2>11 DEF BusInv, Delivery!DeliveryNext
<1> QED BY <1>3, <1>4

-----------------------------------------------------------------------------
(* A module that is still to be loaded has no code that runs, no bus and   *)
(* no listeners; it is constructed once.                                   *)
LoaderInv ==
  /\ toLoad \in Seq(Modules) /\ Once(toLoad)
  /\ phase \in [Modules -> {"unloaded", "skipped", "failed", "loaded", "running"}]
  /\ loader = "settings" => toLoad # <<>>
  /\ loader = "started" => toLoad = <<>>
  /\ \A m \in Items(toLoad) : phase[m] = "unloaded" /\ m \notin buses
  /\ \A h \in Items(listeners) : Owner[h] \notin Items(toLoad)

(* What was cleaned up has a listener only if it subscribed again, and     *)
(* what waits for it was emitted before the one or after the other.        *)
CleanedUp(h) ==
  /\ h \in Items(listeners) => backAt[h] # Never
  /\ \A i \in Waiting : i[1] = h => i[2] <= cleanedAt[Owner[h]] \/ i[2] > backAt[h]

QuietInv ==
  /\ cleanedAt \in [Modules -> Nat] /\ backAt \in [Handlers -> Nat]
  /\ \A h \in Handlers : backAt[h] # Never => backAt[h] <= emitted
  /\ \A h \in Handlers : \A i \in DOMAIN given[h] : given[h][i] <= emitted
  /\ \A m \in Items(toLoad) : cleanedAt[m] = Never
  /\ \A h \in Handlers : cleanedAt[Owner[h]] # Never => CleanedUp(h)
  /\ QuietAfterStop

RuntimeInv == BusInv /\ LoaderInv /\ QuietInv

LEMMA InitRuntime == RuntimeInit => RuntimeInv /\ Delivery!DeliveryInit
<1> SUFFICES ASSUME RuntimeInit PROVE RuntimeInv /\ Delivery!DeliveryInit
  OBVIOUS
<1>1. BusInv /\ Items(listeners) = {} /\ Waiting = {}
  <2>1. Items(queue) = {} /\ Items(turns) = {} /\ \A m \in Modules : Items(limited[m]) = {}
    BY EmptyIs DEF RuntimeInit, BusInit
  <2>2. Items(listeners) = {}
    BY EmptyIs DEF RuntimeInit, BusInit
  <2> QED BY <2>1, <2>2, WaitingIs, InitBus DEF RuntimeInit
<1>2. LoaderInv
  BY <1>1, RuntimeAssumption DEF RuntimeInit, LoaderInv, Once, Items
<1>3. QuietInv
  <2>1. \A h \in Handlers : DOMAIN given[h] = {}
    BY DEF RuntimeInit, BusInit
  <2>2. /\ cleanedAt \in [Modules -> Nat] /\ backAt \in [Handlers -> Nat]
        /\ \A m \in Modules : cleanedAt[m] = Never
        /\ \A h \in Handlers : backAt[h] = Never
    BY BusAssumption DEF RuntimeInit, Never
  <2>3. \A h \in Handlers : cleanedAt[Owner[h]] = Never
    BY <2>2, BusAssumption
  <2>4. Items(toLoad) \subseteq Modules
    BY <1>2, EmptyIs DEF LoaderInv, Items
  <2> QED BY <2>1, <2>2, <2>3, <2>4 DEF QuietInv, QuietAfterStop
<1> QED BY <1>1, <1>2, <1>3 DEF RuntimeInv, RuntimeInit, BusInit, Delivery!DeliveryInit

(* The steps of the bus, as far as the shutdown is concerned.              *)
LEMMA DeliveryKeepsQuiet ==
  ASSUME RuntimeInv, BusInv', UNCHANGED <<toLoad, cleanedAt>>,
         backAt' \in [Handlers -> Nat],
         \A h \in Handlers : \/ backAt'[h] = backAt[h]
                             \/ backAt[h] = Never /\ backAt'[h] = emitted /\ emitted' = emitted,
         \/ /\ Delivery!Resubscribe
            /\ \A h \in Items(listeners') \ Items(listeners) :
                 cleanedAt[Owner[h]] # Never => backAt'[h] # Never
         \/ Delivery!Publish /\ backAt' = backAt
         \/ (\E h \in Handlers, e \in 1..emitted : Delivery!Give(h, e)) /\ backAt' = backAt
         \/ UNCHANGED Delivery!deliveryVars
  PROVE  QuietInv'
<1>0. /\ BusTypes /\ QuietInv /\ emitted \in Nat /\ emitted <= MaxEmits /\ MaxEmits \in Nat
      /\ \A h \in Handlers : Owner[h] \in Modules /\ given[h] \in Seq(Events)
      /\ given' \in [Handlers -> Seq(Events)] /\ emitted' \in Nat
      /\ cleanedAt \in [Modules -> Nat] /\ backAt \in [Handlers -> Nat]
      /\ Never = MaxEmits + 1 /\ Items(toLoad') = Items(toLoad)
      /\ \A i \in Waiting : i[2] <= emitted
  <2>1. BusTypes /\ QuietInv /\ BusTypes' /\ NoOvertaking
    BY DEF RuntimeInv, BusInv
  <2>2. emitted \in Nat /\ emitted <= MaxEmits /\ MaxEmits \in Nat /\ emitted' \in Nat
    BY <2>1, BusAssumption DEF BusTypes
  <2>3. given \in [Handlers -> Seq(Events)] /\ given' \in [Handlers -> Seq(Events)]
    BY <2>1 DEF BusTypes
  <2>4. \A i \in Waiting : i[2] <= emitted
    BY <2>1 DEF NoOvertaking
  <2> QED BY <2>1, <2>2, <2>3, <2>4, BusAssumption DEF QuietInv, Items, Never
<1>1. \A h \in Handlers : \A i \in DOMAIN given[h] : given[h][i] \in Nat
  BY <1>0 DEF Events
<1>2. ASSUME \A h \in Handlers : given'[h] = given[h], emitted <= emitted',
             \A h \in Handlers : backAt'[h] # Never => backAt'[h] <= emitted',
             \A h \in Handlers : cleanedAt[Owner[h]] # Never /\ CleanedUp(h) => CleanedUp(h)',
             \A h \in Handlers : \A i \in DOMAIN given[h] :
               \/ given[h][i] <= cleanedAt[Owner[h]]
               \/ given[h][i] > backAt'[h]
      PROVE  QuietInv'
  <2>1. \A h \in Handlers : \A i \in DOMAIN given'[h] : given'[h][i] <= emitted'
    BY <1>0, <1>1, <1>2 DEF QuietInv
  <2>2. QuietAfterStop'
    BY <1>0, <1>2 DEF QuietAfterStop
  <2>3. \A h \in Handlers : cleanedAt'[Owner[h]] # Never => CleanedUp(h)'
    BY <1>0, <1>2 DEF QuietInv
  <2> QED BY <1>0, <1>2, <2>1, <2>2, <2>3 DEF QuietInv, Never
<1>3. CASE /\ Delivery!Resubscribe
           /\ \A h \in Items(listeners') \ Items(listeners) :
                cleanedAt[Owner[h]] # Never => backAt'[h] # Never
  <2>1. Waiting' = Waiting /\ given' = given /\ emitted' = emitted
    BY <1>3 DEF Delivery!Resubscribe
  <2>2. \A h \in Handlers : backAt'[h] # Never => backAt'[h] <= emitted
    BY <1>0 DEF QuietInv
  <2>3. ASSUME NEW h \in Handlers, cleanedAt[Owner[h]] # Never, CleanedUp(h) PROVE CleanedUp(h)'
    <3>1. h \in Items(listeners') => backAt'[h] # Never
      BY <1>0, <1>3, <2>3 DEF CleanedUp
    <3>2. ASSUME NEW i \in Waiting, i[1] = h, ~(i[2] <= cleanedAt[Owner[h]])
          PROVE  i[2] > backAt'[h]
      <4>1. i[2] > backAt[h] /\ i[2] <= emitted
        BY <1>0, <2>3, <3>2 DEF CleanedUp
      <4>2. i[2] \in Nat
        BY <1>0, <3>2, WaitingType DEF Invocations, Events
      <4>3. backAt[h] # Never
        BY <1>0, <4>1, <4>2
      <4> QED BY <4>1, <4>3
    <3> QED BY <2>1, <3>1, <3>2 DEF CleanedUp
  <2>4. ASSUME NEW h \in Handlers, NEW i \in DOMAIN given[h], ~(given[h][i] <= cleanedAt[Owner[h]])
        PROVE  given[h][i] > backAt'[h]
    <3>1. given[h][i] > backAt[h] /\ given[h][i] <= emitted /\ given[h][i] \in Nat
      BY <1>0, <1>1, <2>4 DEF QuietInv, QuietAfterStop
    <3>2. backAt[h] # Never
      BY <1>0, <3>1
    <3> QED BY <3>1, <3>2
  <2> QED BY <1>0, <1>2, <2>1, <2>2, <2>3, <2>4
<1>4. CASE Delivery!Publish /\ backAt' = backAt
  <2>1. /\ given' = given /\ emitted' = emitted + 1 /\ Items(listeners') = Items(listeners)
        /\ Waiting' = Waiting \cup {<<h, emitted + 1>> : h \in Items(listeners)}
    BY <1>4 DEF Delivery!Publish
  <2>2. \A h \in Handlers : backAt[h] # Never => backAt[h] <= emitted + 1
    BY <1>0 DEF QuietInv
  <2>3. \A h \in Handlers : cleanedAt[Owner[h]] # Never /\ CleanedUp(h) => CleanedUp(h)'
    <3> SUFFICES ASSUME NEW h \in Handlers, CleanedUp(h) PROVE CleanedUp(h)'
      OBVIOUS
    <3>1. h \in Items(listeners) => emitted + 1 > backAt[h]
      BY <1>0 DEF QuietInv, CleanedUp
    <3> QED BY <1>0, <1>4, <2>1, <3>1 DEF CleanedUp
  <2> QED BY <1>0, <1>2, <1>4, <2>1, <2>2, <2>3 DEF QuietInv, QuietAfterStop
<1>5. ASSUME NEW h \in Handlers, NEW e \in 1..emitted, Delivery!Give(h, e), backAt' = backAt
      PROVE  QuietInv'
  <2>1. /\ <<h, e>> \in Waiting /\ Waiting' = Waiting \ {<<h, e>>} /\ emitted' = emitted
        /\ given' = [given EXCEPT ![h] = Append(@, e)] /\ Items(listeners') = Items(listeners)
    BY <1>5 DEF Delivery!Give
  <2>2. \A g \in Handlers : CleanedUp(g) => CleanedUp(g)'
    BY <1>0, <1>5, <2>1 DEF CleanedUp
  <2>3. /\ \A g \in Handlers \ {h} : given'[g] = given[g]
        /\ \A i \in DOMAIN given'[h] :
             \/ given'[h][i] = e
             \/ i \in DOMAIN given[h] /\ given'[h][i] = given[h][i]
    <3>1. given \in [Handlers -> Seq(Events)] /\ given[h] \in Seq(Events) /\ e \in Events
      BY <1>0 DEF BusTypes, Events
    <3>2. given'[h] = Append(given[h], e) /\ \A g \in Handlers \ {h} : given'[g] = given[g]
      BY <2>1, <3>1
    <3>3. \A i \in DOMAIN Append(given[h], e) :
            \/ Append(given[h], e)[i] = e
            \/ i \in DOMAIN given[h] /\ Append(given[h], e)[i] = given[h][i]
      BY <3>1
    <3> QED BY <3>2, <3>3
  <2>4. \A g \in Handlers : \A i \in DOMAIN given'[g] : given'[g][i] <= emitted'
    BY <1>0, <2>1, <2>3 DEF QuietInv
  <2>5. e <= cleanedAt[Owner[h]] \/ e > backAt[h]
    <3>1. CASE cleanedAt[Owner[h]] = Never
      BY <1>0, <3>1
    <3>2. CASE cleanedAt[Owner[h]] # Never
      BY <1>0, <2>1, <3>2 DEF QuietInv, CleanedUp
    <3> QED BY <3>1, <3>2
  <2>6. QuietAfterStop'
    <3>1. ASSUME NEW g \in Handlers, NEW i \in DOMAIN given'[g]
          PROVE  given'[g][i] <= cleanedAt[Owner[g]] \/ given'[g][i] > backAt[g]
      <4>1. \/ given'[g][i] = e /\ g = h
            \/ i \in DOMAIN given[g] /\ given'[g][i] = given[g][i]
        BY <2>3
      <4>2. CASE i \in DOMAIN given[g] /\ given'[g][i] = given[g][i]
        BY <1>0, <3>1, <4>2 DEF QuietInv, QuietAfterStop
      <4> QED BY <2>5, <3>1, <4>1, <4>2
    <3> QED BY <1>5, <3>1 DEF QuietAfterStop
  <2> QED BY <1>0, <1>5, <2>1, <2>2, <2>4, <2>6 DEF QuietInv, Never
<1>6. CASE UNCHANGED Delivery!deliveryVars
  <2>1. Delivery!Resubscribe \/ Items(listeners') = Items(listeners)
    BY <1>6 DEF Delivery!deliveryVars
  <2>2. Delivery!Resubscribe /\ Items(listeners') \ Items(listeners) = {}
    <3>1. Items(listeners) \subseteq Handlers
      BY <1>0, EmptyIs DEF BusTypes
    <3> QED BY <1>6, <3>1 DEF Delivery!deliveryVars, Delivery!Resubscribe
  <2> QED BY <1>3, <2>2
<1> QED BY <1>3, <1>4, <1>5, <1>6

(* A module subscribes or unsubscribes.                                    *)
LEMMA SubscriptionSteps ==
  ASSUME RuntimeInv, NEW h \in Handlers, Awake(h),
         \/ ModuleSubscribes(h)
         \/ Unsubscribe(h) /\ UNCHANGED lifeVars
  PROVE  RuntimeInv' /\ Delivery!Resubscribe
<1>0. BusInv /\ BusTypes /\ LoaderInv /\ QuietInv /\ Items(listeners) \subseteq Handlers
  BY EmptyIs DEF RuntimeInv, BusInv, BusTypes
<1>1. /\ listeners \in Seq(Handlers) /\ Once(listeners)
      /\ UNCHANGED <<emitted, queue, turns, active, limited, running, given>>
      /\ UNCHANGED <<toLoad, loader, phase, buses, cleanedAt>>
      /\ Owner[h] \in Modules /\ Owner[h] \notin Items(toLoad)
  BY <1>0, BusAssumption DEF BusTypes, ModuleSubscribes, Subscribe, Unsubscribe, lifeVars, Awake,
                             LoaderInv
<1>2. ASSUME listeners' \in Seq(Handlers), Once(listeners'),
             Items(listeners') \subseteq Items(listeners) \cup {h}
      PROVE  BusInv' /\ Delivery!Resubscribe /\ LoaderInv'
  <2>1. BusInv' /\ Delivery!Resubscribe
    BY <1>0, <1>1, <1>2, ListenersStep
  <2>2. Items(toLoad') = Items(toLoad)
    BY <1>1 DEF Items
  <2>3. LoaderInv'
    BY <1>0, <1>1, <1>2, <2>2 DEF LoaderInv, Once
  <2> QED BY <2>1, <2>3
<1>3. CASE ModuleSubscribes(h)
  <2>1. /\ listeners' = Append(listeners, h) /\ h \notin Items(listeners)
        /\ backAt' = [backAt EXCEPT ![h] =
                        IF cleanedAt[Owner[h]] # Never /\ @ = Never THEN emitted ELSE @]
    BY <1>3 DEF ModuleSubscribes, Subscribe
  <2>2. /\ listeners' \in Seq(Handlers) /\ Once(listeners')
        /\ Items(listeners') = Items(listeners) \cup {h}
    BY <1>1, <2>1, AppendOnce, AppendOrder
  <2>3. BusInv' /\ Delivery!Resubscribe /\ LoaderInv'
    BY <1>2, <2>2
  <2>4. emitted \in Nat /\ emitted # Never /\ backAt \in [Handlers -> Nat]
    BY <1>0, BusAssumption DEF BusTypes, QuietInv, Never
  <2>5. /\ backAt' \in [Handlers -> Nat]
        /\ \A g \in Handlers : \/ backAt'[g] = backAt[g]
                               \/ backAt[g] = Never /\ backAt'[g] = emitted
        /\ cleanedAt[Owner[h]] # Never => backAt'[h] # Never
    BY <2>1, <2>4
  <2>6. \A g \in Items(listeners') \ Items(listeners) :
          cleanedAt[Owner[g]] # Never => backAt'[g] # Never
    BY <2>2, <2>5
  <2>7. QuietInv'
    BY <1>1, <2>3, <2>5, <2>6, DeliveryKeepsQuiet
  <2> QED BY <2>3, <2>7 DEF RuntimeInv
<1>4. CASE Unsubscribe(h) /\ UNCHANGED lifeVars
  <2>1. listeners' = Without({h}) /\ backAt' = backAt
    BY <1>4 DEF Unsubscribe, lifeVars
  <2>2. /\ listeners' \in Seq(Handlers) /\ Once(listeners')
        /\ Items(listeners') \subseteq Items(listeners)
    BY <1>0, <2>1, WithoutKeeps
  <2>3. BusInv' /\ Delivery!Resubscribe /\ LoaderInv'
    BY <1>2, <2>2
  <2>4. QuietInv'
    BY <1>0, <1>1, <2>1, <2>2, <2>3, DeliveryKeepsQuiet DEF QuietInv
  <2> QED BY <2>3, <2>4 DEF RuntimeInv
<1> QED BY <1>3, <1>4

(* Every step of the bus, whatever the modules do.                         *)
LEMMA BusSteps ==
  ASSUME RuntimeInv, BusStep, UNCHANGED lifeVars
  PROVE  RuntimeInv' /\ [Delivery!DeliveryNext]_(Delivery!deliveryVars)
<1>0. /\ BusInv /\ BusTypes /\ Items(listeners) \subseteq Handlers
      /\ UNCHANGED <<toLoad, cleanedAt, backAt>> /\ backAt \in [Handlers -> Nat]
  BY EmptyIs DEF RuntimeInv, BusInv, BusTypes, QuietInv, lifeVars
<1>1. ASSUME Items(listeners') = Items(listeners) PROVE LoaderInv'
  BY <1>1 DEF RuntimeInv, LoaderInv, lifeVars, Once, Items
<1>3. CASE \E h \in Handlers : Awake(h) /\ Unsubscribe(h)
  BY <1>3, SubscriptionSteps DEF Delivery!DeliveryNext
<1>4. CASE Emit
  <2>1. BusInv' /\ Delivery!Publish
    BY <1>0, <1>4, EmitStep
  <2>2. Items(listeners') = Items(listeners)
    BY <1>4 DEF Emit, Items
  <2> QED BY <1>0, <1>1, <2>1, <2>2, DeliveryKeepsQuiet DEF RuntimeInv, Delivery!DeliveryNext
<1>5. ASSUME BusInv', [Delivery!DeliveryNext]_(Delivery!deliveryVars),
             UNCHANGED <<listeners, emitted>>
      PROVE  RuntimeInv'
  <2>1. Items(listeners') = Items(listeners)
    BY <1>5 DEF Items
  <2>2. emitted \in Nat
    BY <1>0 DEF BusTypes
  <2>3. \/ \E h \in Handlers, e \in 1..emitted : Delivery!Give(h, e)
        \/ UNCHANGED Delivery!deliveryVars
    BY <1>5, <2>1, <2>2 DEF Delivery!DeliveryNext, Delivery!Publish, Delivery!Resubscribe,
                            Delivery!deliveryVars
  <2> QED BY <1>0, <1>1, <1>5, <2>1, <2>3, DeliveryKeepsQuiet DEF RuntimeInv
<1>6. CASE Turn
  <2>1. BusInv' /\ [Delivery!DeliveryNext]_(Delivery!deliveryVars)
    BY <1>0, <1>6, TurnStep
  <2> QED BY <1>5, <1>6, <2>1 DEF Turn
<1>7. CASE \E i \in running : HandlerEnds(i)
  <2>1. PICK i \in running : HandlerEnds(i)
    BY <1>7
  <2>2. BusInv' /\ [Delivery!DeliveryNext]_(Delivery!deliveryVars)
    BY <1>0, <2>1, EndStep
  <2> QED BY <1>5, <2>1, <2>2 DEF HandlerEnds
<1> QED BY <1>3, <1>4, <1>6, <1>7 DEF BusStep

(* Steps of the loader and the shutdown that do not touch the bus.         *)
LEMMA BusUntouched ==
  ASSUME BusInv, UNCHANGED busVars
  PROVE  BusInv' /\ UNCHANGED Delivery!deliveryVars /\ Waiting' = Waiting
<1>1. Waiting' = Waiting /\ Items(listeners') = Items(listeners)
  BY DEF busVars, Waiting, Items
<1>2. \A m : RunningOf(m)' = RunningOf(m)
  BY DEF busVars, RunningOf
<1> QED BY <1>1, <1>2 DEF busVars, BusInv, BusTypes, LimitersSound, NoOvertaking, Once, InOrder,
                          Earlier, Items, Delivery!deliveryVars

(* A cleaned-up module has no listeners left; whatever waits was emitted   *)
(* before.                                                                 *)
LEMMA CleanUpKeeps ==
  ASSUME RuntimeInv, NEW ms, CleanUp(ms), UNCHANGED <<toLoad, loader, phase, backAt>>
  PROVE  RuntimeInv' /\ Delivery!Resubscribe
<1>0. /\ BusInv /\ BusTypes /\ LoaderInv /\ QuietInv
      /\ UNCHANGED <<emitted, queue, turns, active, limited, running, given>>
      /\ emitted \in Nat
  BY DEF RuntimeInv, BusInv, BusTypes, CleanUp
<1> DEFINE leaving == {h \in Handlers : Owner[h] \in ms \cap buses}
<1>1. /\ listeners' \in Seq(Handlers) /\ Once(listeners')
      /\ Items(listeners') \subseteq Items(listeners) \ leaving
  BY <1>0, WithoutKeeps DEF CleanUp, LeftByCleanup
<1>2. BusInv' /\ Delivery!Resubscribe
  BY <1>0, <1>1, ListenersStep
<1>3. LoaderInv'
  <2>1. Items(toLoad') = Items(toLoad) /\ buses' \subseteq buses
    BY DEF Items, CleanUp
  <2>2. Items(listeners') \subseteq Items(listeners)
    BY <1>1
  <2> QED BY <1>0, <2>1, <2>2 DEF LoaderInv, Once
<1>4. /\ Waiting' = Waiting
      /\ \A m \in Modules : cleanedAt'[m] = IF m \in ms \cap buses THEN emitted ELSE cleanedAt[m]
      /\ cleanedAt' \in [Modules -> Nat]
  BY <1>0 DEF Waiting, CleanUp, QuietInv
<1>5. \A h \in Handlers : Owner[h] \in Modules
  BY BusAssumption
<1>6. ASSUME NEW h \in Handlers, cleanedAt'[Owner[h]] # Never PROVE CleanedUp(h)'
  <2>1. CASE Owner[h] \in ms \cap buses
    <3>1. h \notin Items(listeners')
      BY <1>1, <2>1
    <3>2. \A i \in Waiting : i[2] <= emitted
      BY <1>0 DEF BusInv, NoOvertaking
    <3> QED BY <1>4, <1>5, <2>1, <3>1, <3>2 DEF CleanedUp
  <2>2. CASE Owner[h] \notin ms \cap buses
    <3>1. cleanedAt'[Owner[h]] = cleanedAt[Owner[h]]
      BY <1>4, <1>5, <2>2
    <3>2. CleanedUp(h)
      BY <1>0, <1>6, <3>1 DEF QuietInv
    <3> QED BY <1>1, <1>4, <3>1, <3>2 DEF CleanedUp
  <2> QED BY <2>1, <2>2
<1>7. QuietAfterStop'
  BY <1>0, <1>4, <1>5 DEF QuietInv, QuietAfterStop
<1>8. \A m \in Items(toLoad') : cleanedAt'[m] = Never
  <2>1. Items(toLoad') = Items(toLoad) /\ Items(toLoad) \subseteq Modules
    BY <1>0, EmptyIs DEF LoaderInv, Items
  <2> QED BY <1>0, <1>4, <2>1 DEF LoaderInv, QuietInv
<1>9. QuietInv'
  BY <1>0, <1>4, <1>6, <1>7, <1>8 DEF QuietInv
<1> QED BY <1>2, <1>3, <1>9 DEF RuntimeInv

(* Every step of the server: one step of EventDelivery or none.            *)
LEMMA RuntimeStep ==
  ASSUME RuntimeInv, [RuntimeNext]_runtimeVars
  PROVE  RuntimeInv' /\ [Delivery!DeliveryNext]_(Delivery!deliveryVars)
<1>0. /\ BusInv /\ BusTypes /\ LoaderInv /\ QuietInv /\ Items(listeners) \subseteq Handlers
      /\ toLoad \in Seq(Modules) /\ Once(toLoad)
  BY EmptyIs DEF RuntimeInv, BusInv, BusTypes, LoaderInv
<1>1. CASE UNCHANGED runtimeVars
  <2>1. UNCHANGED busVars /\ UNCHANGED lifeVars
    BY <1>1 DEF runtimeVars
  <2>2. BusInv' /\ UNCHANGED Delivery!deliveryVars
    BY <1>0, <2>1, BusUntouched
  <2>3. LoaderInv'
    BY <1>0, <2>1 DEF LoaderInv, lifeVars, busVars, Once, Items
  <2>4. QuietInv'
    BY <1>0, <2>1, <2>2, DeliveryKeepsQuiet DEF lifeVars, QuietInv
  <2> QED BY <2>2, <2>3, <2>4 DEF RuntimeInv
<1>2. CASE BusStep /\ UNCHANGED lifeVars
  BY <1>2, BusSteps
<1>3. ASSUME UNCHANGED <<busVars, cleanedAt, backAt>>, LoaderInv',
             Items(toLoad') \subseteq Items(toLoad)
      PROVE  RuntimeInv' /\ [Delivery!DeliveryNext]_(Delivery!deliveryVars)
  <2>1. /\ BusInv' /\ UNCHANGED Delivery!deliveryVars /\ Waiting' = Waiting
        /\ UNCHANGED <<listeners, emitted, given>>
    BY <1>0, <1>3, BusUntouched DEF busVars
  <2>2. \A h \in Handlers : CleanedUp(h) => CleanedUp(h)'
    BY <1>3, <2>1 DEF CleanedUp, Items
  <2>3. QuietInv'
    BY <1>0, <1>3, <2>1, <2>2 DEF QuietInv, QuietAfterStop
  <2> QED BY <1>3, <2>1, <2>3 DEF RuntimeInv
<1>4. ASSUME toLoad # <<>>
      PROVE  /\ Tail(toLoad) \in Seq(Modules) /\ Once(Tail(toLoad)) /\ Head(toLoad) \in Modules
             /\ Items(toLoad) = {Head(toLoad)} \cup Items(Tail(toLoad))
             /\ Head(toLoad) \notin Items(Tail(toLoad))
  <2> DEFINE t == Tail(toLoad)
  <2>1. /\ Len(toLoad) \in Nat /\ Len(toLoad) >= 1 /\ DOMAIN toLoad = 1..Len(toLoad)
        /\ DOMAIN t = 1..(Len(toLoad) - 1) /\ Head(toLoad) = toLoad[1]
        /\ \A i \in 1..(Len(toLoad) - 1) : t[i] = toLoad[i + 1]
    BY <1>0, <1>4
  <2> HIDE DEF t
  <2>2. \A i \in DOMAIN t : /\ i + 1 \in DOMAIN toLoad /\ 1 \in DOMAIN toLoad
                            /\ t[i] = toLoad[i + 1] /\ i \in Nat /\ i + 1 # 1
    BY <2>1
  <2>3. Head(toLoad) \notin Items(t)
    BY <1>0, <2>1, <2>2 DEF Items, Once
  <2>4. Once(t)
    <3>1. ASSUME NEW i \in DOMAIN t, NEW j \in DOMAIN t, t[i] = t[j] PROVE i = j
      <4>1. i + 1 = j + 1
        BY <1>0, <2>2, <3>1 DEF Once
      <4> QED BY <2>2, <4>1
    <3> QED BY <3>1 DEF Once
  <2> QED BY <1>0, <1>4, <2>3, <2>4, TailOrder DEF t
<1>5. CASE ReadDirectory \/ NotBuilt
  <2>1. /\ UNCHANGED <<busVars, buses, cleanedAt, backAt>> /\ toLoad # <<>>
        /\ loader' # "started"
        /\ \/ /\ phase' = [phase EXCEPT ![Head(toLoad)] = "skipped"] /\ toLoad' = Tail(toLoad)
              /\ loader' = "reading"
           \/ UNCHANGED <<phase, toLoad>>
    BY <1>0, <1>5 DEF ReadDirectory, NotBuilt, LoaderInv
  <2>2. listeners' = listeners /\ Items(listeners') = Items(listeners)
    BY <2>1 DEF busVars, Items
  <2>3. CASE toLoad' = Tail(toLoad) /\ phase' = [phase EXCEPT ![Head(toLoad)] = "skipped"]
             /\ loader' = "reading"
    <3>1. /\ toLoad' \in Seq(Modules) /\ Once(toLoad') /\ Items(toLoad') \subseteq Items(toLoad)
          /\ Head(toLoad) \notin Items(toLoad')
      BY <1>4, <2>1, <2>3 DEF Once, Items
    <3>2. /\ phase' \in [Modules -> {"unloaded", "skipped", "failed", "loaded", "running"}]
          /\ \A m \in Items(toLoad') : phase'[m] = "unloaded"
      <4>1. phase \in [Modules -> {"unloaded", "skipped", "failed", "loaded", "running"}]
            /\ \A m \in Items(toLoad') : m \in Modules /\ m # Head(toLoad) /\ phase[m] = "unloaded"
        BY <1>0, <3>1, EmptyIs DEF LoaderInv
      <4> QED BY <2>3, <4>1
    <3>3. LoaderInv'
      BY <1>0, <2>1, <2>2, <2>3, <3>1, <3>2 DEF LoaderInv
    <3> QED BY <1>3, <2>1, <3>1, <3>3
  <2>4. CASE UNCHANGED <<phase, toLoad>>
    <3>1. LoaderInv' /\ Items(toLoad') = Items(toLoad)
      BY <1>0, <2>1, <2>2, <2>4 DEF LoaderInv, Once, Items
    <3> QED BY <1>3, <2>1, <3>1
  <2> QED BY <2>1, <2>3, <2>4
<1>6. CASE Construct
  <2> DEFINE m == Head(toLoad)
  <2>1. /\ loader = "settings" /\ toLoad # <<>> /\ toLoad' = Tail(toLoad) /\ loader' = "reading"
        /\ \E p \in {"failed", "loaded"} : phase' = [phase EXCEPT ![m] = p]
        /\ buses' = buses \cup {m}
        /\ UNCHANGED <<emitted, queue, turns, active, limited, running, given, cleanedAt, backAt>>
    BY <1>0, <1>6 DEF Construct, LoaderInv
  <2>2. PICK hs \in SUBSET HandlersOf(m) : listeners' = listeners \o SetToSeq(hs)
    BY <1>6 DEF Construct
  <2>3. hs \subseteq Handlers /\ \A h \in hs : Owner[h] = m
    BY <2>2 DEF HandlersOf
  <2>4. hs \cap Items(listeners) = {} /\ m \in Items(toLoad)
    BY <1>0, <1>4, <2>1, <2>3 DEF LoaderInv
  <2>5. /\ listeners' \in Seq(Handlers) /\ Once(listeners')
        /\ Items(listeners') \subseteq Items(listeners) \cup hs
    BY <1>0, <2>2, <2>3, <2>4, FreshListeners
  <2>6. BusInv' /\ Delivery!Resubscribe
    BY <1>0, <2>1, <2>5, ListenersStep
  <2>7. Items(toLoad') \subseteq Items(toLoad) \ {m} /\ Items(toLoad) \subseteq Modules
    BY <1>0, <1>4, <2>1, EmptyIs DEF Items
  <2>8. LoaderInv'
    <3>1. phase \in [Modules -> {"unloaded", "skipped", "failed", "loaded", "running"}]
      BY <1>0 DEF LoaderInv
    <3>2. /\ phase' \in [Modules -> {"unloaded", "skipped", "failed", "loaded", "running"}]
          /\ \A k \in Modules \ {m} : phase'[k] = phase[k]
      BY <2>1, <3>1
    <3>3. \A k \in Items(toLoad') : phase'[k] = "unloaded" /\ k \notin buses'
      BY <1>0, <2>1, <2>7, <3>2 DEF LoaderInv
    <3>4. \A h \in Items(listeners') : Owner[h] \notin Items(toLoad')
      BY <1>0, <2>3, <2>5, <2>7 DEF LoaderInv
    <3> QED BY <1>0, <1>4, <2>1, <3>2, <3>3, <3>4 DEF LoaderInv
  <2>9. QuietInv'
    <3>1. Waiting' = Waiting
      BY <2>1 DEF Waiting
    <3>2. ASSUME NEW h \in Handlers, cleanedAt[Owner[h]] # Never PROVE CleanedUp(h)'
      <4>1. h \notin hs
        BY <1>0, <2>3, <2>4, <3>2 DEF QuietInv
      <4> QED BY <1>0, <2>1, <2>5, <3>1, <3>2, <4>1 DEF QuietInv, CleanedUp
    <3> QED BY <1>0, <2>1, <2>7, <3>2 DEF QuietInv, QuietAfterStop
  <2> QED BY <2>6, <2>8, <2>9 DEF RuntimeInv, Delivery!DeliveryNext
<1>7. CASE RunModules
  <2>1. /\ toLoad = <<>> /\ loader' = "started"
        /\ phase' = [m \in Modules |-> IF m \in Registered THEN "running" ELSE phase[m]]
        /\ UNCHANGED <<busVars, toLoad, buses, cleanedAt, backAt>>
    BY <1>7 DEF RunModules
  <2>2. listeners' = listeners /\ Items(toLoad) = {} /\ Items(toLoad') = {}
    BY <2>1, EmptyIs DEF busVars
  <2>3. LoaderInv'
    BY <1>0, <2>1, <2>2 DEF LoaderInv, Once
  <2> QED BY <1>3, <2>1, <2>2, <2>3
<1>8. ASSUME NEW ms, CleanUp(ms), UNCHANGED <<toLoad, loader, phase, backAt>>
      PROVE  RuntimeInv' /\ [Delivery!DeliveryNext]_(Delivery!deliveryVars)
  BY <1>8, CleanUpKeeps DEF Delivery!DeliveryNext
<1>9. ASSUME NEW k \in 1..Signals, CloseAllDatabases(k) \/ Exit(k)
      PROVE  RuntimeInv' /\ [Delivery!DeliveryNext]_(Delivery!deliveryVars)
  <2>1. UNCHANGED <<busVars, toLoad, loader, phase, buses, cleanedAt, backAt>>
    BY <1>9 DEF CloseAllDatabases, Exit
  <2>2. LoaderInv' /\ Items(toLoad') = Items(toLoad)
    BY <1>0, <2>1 DEF LoaderInv, busVars, Items, Once
  <2> QED BY <1>3, <2>1, <2>2
<1>10. ASSUME NEW k \in 1..Signals, Signal(k)
       PROVE  RuntimeInv' /\ [Delivery!DeliveryNext]_(Delivery!deliveryVars)
  BY <1>8, <1>10 DEF Signal
<1>11. ASSUME NEW k \in 1..Signals, NEW m \in Modules, StopEnds(k, m)
       PROVE  RuntimeInv' /\ [Delivery!DeliveryNext]_(Delivery!deliveryVars)
  BY <1>8, <1>11 DEF StopEnds, CleanUpAfter
<1>12. CASE LifeStep
  BY <1>5, <1>6, <1>7, <1>9, <1>10, <1>11, <1>12 DEF LifeStep, ShutdownStep
<1>13. ASSUME NEW h \in Handlers, ModuleSubscribes(h)
       PROVE  RuntimeInv' /\ [Delivery!DeliveryNext]_(Delivery!deliveryVars)
  BY <1>13, SubscriptionSteps DEF ModuleSubscribes, Delivery!DeliveryNext
<1> QED BY <1>1, <1>2, <1>12, <1>13 DEF RuntimeNext

(* "We never drop events" (eventBus.ts:27), for any number of modules,     *)
(* handlers, events, places and limits: the bus with its queue, turns and  *)
(* limiters gives each handler the events emitted while it was subscribed, *)
(* each once and in their order, while modules load, run and stop.         *)
THEOREM BusImplementsDelivery == RuntimeSpec => ImplementsDelivery
<1>1. RuntimeInit => RuntimeInv /\ Delivery!DeliveryInit
  BY InitRuntime
<1>2. RuntimeInv /\ [RuntimeNext]_runtimeVars
        => RuntimeInv' /\ [Delivery!DeliveryNext]_(Delivery!deliveryVars)
  BY RuntimeStep
<1> QED BY <1>1, <1>2, PTL DEF RuntimeSpec, ImplementsDelivery, Delivery!DeliverySpec

(* After the cleanup of its bus a module is given nothing emitted later,   *)
(* unless its own code subscribes again, and then nothing that was emitted *)
(* before it did (moduleEventBus.ts cleanup).                              *)
THEOREM QuietAfterItsStop == RuntimeSpec => []QuietAfterStop
<1>1. RuntimeInit => RuntimeInv
  BY InitRuntime
<1>2. RuntimeInv /\ [RuntimeNext]_runtimeVars => RuntimeInv'
  BY RuntimeStep
<1>3. RuntimeInv => QuietAfterStop
  BY DEF RuntimeInv, QuietInv
<1> QED BY <1>1, <1>2, <1>3, PTL DEF RuntimeSpec

-----------------------------------------------------------------------------
(***************************************************************************)
(* The durable queue of alerts, proved for every set of alerts and every   *)
(* number of attempts: as long as the file can be read and written, an     *)
(* alert whose insert failed is never lost, whatever is enqueued while     *)
(* flush() runs and whenever the process dies.                             *)
(***************************************************************************)
(***************************************************************************)
(* Rows of sequences.                                                      *)
(***************************************************************************)
LEMMA AppendRows ==
  ASSUME NEW S, NEW q \in Seq(S), NEW x \in S
  PROVE  /\ Append(q, x) \in Seq(S) /\ Append(q, x) # <<>>
         /\ Rows(Append(q, x)) = Rows(q) \cup {x}
         /\ Len(Append(q, x)) = Len(q) + 1
         /\ \A i \in 1..Len(q) : Append(q, x)[i] = q[i]
<1> DEFINE a == Append(q, x)
<1>1. /\ DOMAIN q = 1..Len(q) /\ Len(q) \in Nat
      /\ DOMAIN a = 1..(Len(q) + 1)
      /\ a[Len(q) + 1] = x
      /\ \A i \in 1..Len(q) : a[i] = q[i]
  OBVIOUS
<1>2. Rows(a) = Rows(q) \cup {x}
  BY <1>1 DEF Rows
<1>3. QED
  BY <1>1, <1>2

LEMMA SeqRows ==
  ASSUME NEW S, NEW q \in Seq(S)
  PROVE  /\ DOMAIN q = 1..Len(q) /\ Len(q) \in Nat
         /\ \A i \in 1..Len(q) : q[i] \in S
         /\ (q = <<>> <=> Len(q) = 0)
OBVIOUS

(***************************************************************************)
(* Type correctness.                                                       *)
(***************************************************************************)
Calls == {"idle", "lookup", "insert", "stored", "queued", "skipped", "error", "crashed"}

LEMMA StatementType ==
  ASSUME TypeOK, NEW a \in Alerts, NEW result, Statement(a, result)
  PROVE  /\ table' \in [Alerts -> 0..2]
         /\ \A b \in Alerts : table[b] > 0 => table'[b] > 0
         /\ result = "ok" => table'[a] > 0
<1>1. table \in [Alerts -> 0..2]
  BY DEF TypeOK
<1>2. CASE Commits(a)
  <2>1. \A b \in Alerts : table'[b] = IF b = a THEN (IF table[a] = 0 THEN 1 ELSE 2) ELSE table[b]
    BY <1>1, <1>2 DEF Commits
  <2>2. table' \in [Alerts -> 0..2]
    BY <1>1, <1>2 DEF Commits
  <2>3. QED
    BY <1>1, <2>1, <2>2
<1>3. CASE UNCHANGED table /\ result # "ok"
  BY <1>1, <1>3
<1>4. QED
  BY <1>2, <1>3 DEF Statement

LEMMA LoadedRowsType ==
  ASSUME TypeOK, NEW rows \in LoadedRows
  PROVE  /\ rows \in Seq(Alerts)
         /\ loaded => rows = pending
         /\ ~loaded => rows = disk \/ "load" \in Faults
<1>1. CASE loaded
  BY <1>1 DEF LoadedRows, TypeOK
<1>2. CASE ~loaded
  <2>1. rows = disk \/ (rows = <<>> /\ "load" \in Faults)
    BY <1>2 DEF LoadedRows
  <2>2. disk \in Seq(Alerts) /\ <<>> \in Seq(Alerts)
    BY DEF TypeOK
  <2>3. QED
    BY <1>2, <2>1, <2>2
<1>3. QED
  BY <1>1, <1>2

LEMMA EnqueueType ==
  ASSUME TypeOK, NEW a \in Alerts, Enqueue(a)
  PROVE  /\ pending' \in Seq(Alerts) /\ disk' \in Seq(Alerts)
         /\ loaded' = TRUE
         /\ pos \in 0..Len(pending) /\ (pos > 0 => loaded) => pos \in 0..Len(pending')
<1>1. PICK rows \in LoadedRows :
        /\ pending' = Append(rows, a) /\ loaded' = TRUE /\ Persist(pending')
  BY DEF Enqueue
<1>2. rows \in Seq(Alerts)
  BY LoadedRowsType
<1>3. pending' \in Seq(Alerts) /\ Len(pending') = Len(rows) + 1
  BY <1>1, <1>2, AppendRows
<1>4. disk' \in Seq(Alerts)
  BY <1>1, <1>3 DEF Persist, TypeOK
<1>5. loaded => rows = pending
  BY LoadedRowsType
<1>6. Len(rows) \in Nat
  BY <1>2
<1>7. QED
  BY <1>1, <1>3, <1>4, <1>5, <1>6

(* flush() and the start run on what memory holds.                         *)
Shape ==
  /\ pos > 0 => loaded
  /\ started => loaded
  /\ pos > 0 => tries > 0

TypeInv == TypeOK /\ Shape

LEMMA KeepType ==
  ASSUME TypeInv, pos > 0, NEW result
  PROVE  /\ Keep(result) \in Seq(Alerts)
         /\ pending[pos] \in Alerts
         /\ Rows(Keep(result)) = Rows(survivors) \cup (IF result = "ok" THEN {} ELSE {pending[pos]})
<1>1. pending[pos] \in Alerts
  BY SeqRows DEF TypeInv, TypeOK
<1>2. survivors \in Seq(Alerts)
  BY DEF TypeInv, TypeOK
<1>3. QED
  BY <1>1, <1>2, AppendRows DEF Keep

LEMMA InitType == Init => TypeInv
<1> SUFFICES ASSUME Init PROVE TypeInv
  OBVIOUS
<1>1. 0 \in 0..MaxAttempts /\ 0 \in 0..2
  BY AlertAssumption
<1>2. <<>> \in Seq(Alerts) /\ Len(<<>>) = 0
  OBVIOUS
<1>3. pos \in 0..Len(pending) /\ tries \in 0..MaxAttempts
  BY <1>1, <1>2 DEF Init
<1>4. /\ table \in [Alerts -> 0..2] /\ attempt \in [Alerts -> 0..MaxAttempts]
      /\ call \in [Alerts -> Calls]
  BY <1>1 DEF Init, Calls
<1>5. pending \in Seq(Alerts) /\ disk \in Seq(Alerts) /\ survivors \in Seq(Alerts)
  BY <1>2 DEF Init
<1>6. TypeOK
  BY <1>3, <1>4, <1>5 DEF Init, TypeOK, Calls
<1>7. QED
  BY <1>6 DEF Init, TypeInv, Shape

LEMMA NextType ==
  ASSUME TypeInv, [Next]_vars
  PROVE  TypeInv'
<1> USE AlertAssumption DEF TypeInv, Shape
<1>1. CASE UNCHANGED vars
  BY <1>1 DEF TypeOK, vars, callVars, queueVars, flushVars
<1>2. ASSUME NEW a \in Alerts, CreateAlert(a) \/ LookupReturns(a) \/ LookupFindsNothing(a) \/ LookupFails(a)
      PROVE  TypeInv'
  <2>1. call' \in [Alerts -> Calls]
    BY <1>2 DEF CreateAlert, LookupReturns, LookupFindsNothing, LookupFails, TypeOK, Calls
  <2>2. attempt' \in [Alerts -> 0..MaxAttempts]
    <3>1. 1 \in 0..MaxAttempts
      OBVIOUS
    <3>2. attempt' = attempt \/ attempt' = [attempt EXCEPT ![a] = 1]
      BY <1>2 DEF CreateAlert, LookupReturns, LookupFindsNothing, LookupFails
    <3>3. QED
      BY <3>1, <3>2 DEF TypeOK
  <2>3. UNCHANGED <<table, gone, up, queueVars, flushVars>>
    BY <1>2 DEF CreateAlert, LookupReturns, LookupFindsNothing, LookupFails
  <2>4. QED
    BY <2>1, <2>2, <2>3 DEF TypeOK, Calls, queueVars, flushVars
<1>3. ASSUME NEW a \in Alerts, Insert(a) PROVE TypeInv'
  <2>1. PICK result \in {"ok", "retryable", "fatal"} :
          /\ Statement(a, result)
          /\ \/ /\ Again(result, attempt[a])
                /\ attempt' = [attempt EXCEPT ![a] = @ + 1]
                /\ UNCHANGED <<call, queueVars>>
             \/ /\ result = "ok"
                /\ call' = [call EXCEPT ![a] = "stored"]
                /\ UNCHANGED <<attempt, queueVars>>
             \/ /\ result # "ok" /\ ~Again(result, attempt[a])
                /\ call' = [call EXCEPT ![a] = "queued"]
                /\ Enqueue(a)
                /\ UNCHANGED <<attempt, started>>
    BY <1>3 DEF Insert
  <2>2. table' \in [Alerts -> 0..2]
    BY <2>1, StatementType
  <2>3. call' \in [Alerts -> Calls]
    BY <2>1 DEF TypeOK, Calls
  <2>8. attempt' \in [Alerts -> 0..MaxAttempts]
    <3>1. CASE UNCHANGED attempt
      BY <3>1 DEF TypeOK
    <3>2. CASE Again(result, attempt[a]) /\ attempt' = [attempt EXCEPT ![a] = @ + 1]
      <4>1. attempt[a] + 1 \in 0..MaxAttempts
        BY <3>2 DEF Again, TypeOK
      <4>2. QED
        BY <3>2, <4>1 DEF TypeOK
    <3>3. QED
      BY <2>1, <3>1, <3>2
  <2>4. UNCHANGED <<gone, up, flushVars>>
    BY <1>3 DEF Insert
  <2>5. CASE UNCHANGED queueVars
    BY <2>2, <2>3, <2>4, <2>5, <2>8 DEF TypeOK, Calls, queueVars, flushVars
  <2>6. CASE Enqueue(a) /\ started' = started
    BY <2>2, <2>3, <2>4, <2>6, <2>8, EnqueueType DEF TypeOK, Calls, flushVars
  <2>7. QED
    BY <2>1, <2>5, <2>6
<1>4. ASSUME NEW a \in Alerts, DeleteTarget(a) PROVE TypeInv'
  BY <1>4 DEF DeleteTarget, TypeOK, callVars, queueVars, flushVars
<1>5. CASE StartAlertQueue
  <2>1. pending' \in Seq(Alerts)
    BY <1>5, LoadedRowsType DEF StartAlertQueue
  <2>2. Len(pending') \in Nat /\ (pending' # <<>> => Len(pending') > 0)
    BY <2>1
  <2>3. /\ pos' \in 0..Len(pending') /\ tries' \in 0..MaxAttempts
        /\ survivors' \in Seq(Alerts) /\ (pos' > 0 => tries' > 0)
    BY <1>5, <2>2 DEF StartAlertQueue, FlushBegins
  <2>4. QED
    BY <1>5, <2>1, <2>3 DEF StartAlertQueue, TypeOK, callVars
<1>6. CASE FlushTimer
  <2>1. Len(pending) \in Nat /\ Len(pending) > 0
    BY <1>6, SeqRows DEF FlushTimer, TypeOK
  <2>2. pos' = 1 /\ tries' = 1 /\ survivors' = <<>>
    BY <1>6 DEF FlushTimer, FlushBegins
  <2>3. loaded /\ UNCHANGED <<table, gone, callVars, up, queueVars>>
    BY <1>6 DEF FlushTimer, MayFlush
  <2>4. QED
    BY <2>1, <2>2, <2>3 DEF TypeOK, callVars, queueVars
<1>7. CASE FlushRow
  <2>1. pos > 0 /\ pos \in 1..Len(pending) /\ loaded
    BY <1>7 DEF FlushRow, TypeOK
  <2>2. PICK result \in {"ok", "retryable", "fatal"} :
          /\ Statement(pending[pos], result)
          /\ IF Again(result, tries)
             THEN /\ tries' = tries + 1
                  /\ UNCHANGED <<pending, disk, pos, survivors>>
             ELSE IF pos < Len(pending)
             THEN /\ pos' = pos + 1
                  /\ tries' = 1
                  /\ survivors' = Keep(result)
                  /\ UNCHANGED <<pending, disk>>
             ELSE /\ pending' = Keep(result)
                  /\ Persist(Keep(result))
                  /\ pos' = 0 /\ tries' = 0 /\ survivors' = <<>>
    BY <1>7 DEF FlushRow
  <2>3. /\ Keep(result) \in Seq(Alerts) /\ pending[pos] \in Alerts
    BY <2>1, KeepType
  <2>4. table' \in [Alerts -> 0..2]
    BY <2>2, <2>3, StatementType
  <2>5. UNCHANGED <<gone, callVars, up, started, loaded>>
    BY <1>7 DEF FlushRow
  <2>6. CASE Again(result, tries)
    BY <2>1, <2>2, <2>4, <2>5, <2>6 DEF TypeOK, Again, callVars
  <2>7. CASE ~Again(result, tries) /\ pos < Len(pending)
    BY <2>1, <2>2, <2>3, <2>4, <2>5, <2>7 DEF TypeOK, callVars
  <2>8. CASE ~Again(result, tries) /\ ~(pos < Len(pending))
    <3>1. disk' \in Seq(Alerts)
      BY <2>2, <2>3, <2>8 DEF Persist, TypeOK
    <3>2. /\ pending' \in Seq(Alerts) /\ Len(pending') \in Nat
          /\ pos' = 0 /\ tries' = 0 /\ survivors' = <<>>
      BY <2>2, <2>3, <2>8
    <3>3. QED
      BY <2>4, <2>5, <3>1, <3>2 DEF TypeOK, callVars
  <2>9. QED
    BY <2>6, <2>7, <2>8
<1>8. CASE Crash
  <2>1. call' \in [Alerts -> Calls]
    BY <1>8 DEF Crash, TypeOK, Calls
  <2>2. /\ pending' \in Seq(Alerts) /\ survivors' \in Seq(Alerts)
        /\ pos' \in 0..Len(pending') /\ tries' \in 0..MaxAttempts
    <3>1. pending' = <<>> /\ survivors' = <<>> /\ pos' = 0 /\ tries' = 0
      BY <1>8 DEF Crash
    <3>2. <<>> \in Seq(Alerts) /\ Len(<<>>) = 0 /\ 0 \in 0..MaxAttempts
      OBVIOUS
    <3>3. QED
      BY <3>1, <3>2
  <2>3. /\ UNCHANGED <<table, gone, attempt, disk>>
        /\ up' = FALSE /\ started' = FALSE /\ loaded' = FALSE /\ pos' = 0
    BY <1>8 DEF Crash
  <2>4. TypeOK'
    BY <2>1, <2>2, <2>3 DEF TypeOK, Calls
  <2>5. QED
    BY <2>3, <2>4
<1>9. CASE Restart
  BY <1>9 DEF Restart, TypeOK, callVars, queueVars, flushVars
<1>10. QED
  BY <1>1, <1>2, <1>3, <1>4, <1>5, <1>6, <1>7, <1>8, <1>9 DEF Next

(* Whatever fails, every variable keeps its type: in particular flush() is *)
(* never past the end of the array it walks, which grows under it, and no  *)
(* statement is attempted more often than withRetry allows.                *)
THEOREM AlertTypeCorrect == Spec => []TypeOK
<1>1. Init => TypeInv
  BY InitType
<1>2. TypeInv /\ [Next]_vars => TypeInv'
  BY NextType
<1>3. TypeInv => TypeOK
  BY DEF TypeInv
<1>4. QED
  BY <1>1, <1>2, <1>3, PTL DEF Spec

(***************************************************************************)
(* Durability.  What is owed -- queued and not committed -- must be in the *)
(* file, and, once the file was read, in memory; while flush() runs, among *)
(* the survivors or at or behind the row it is at, because the survivors   *)
(* replace everything in the end.                                          *)
(***************************************************************************)
Owed(a) == call[a] = "queued" /\ table[a] = 0

Ahead == {pending[i] : i \in pos..Len(pending)}

Durable ==
  \A a \in Alerts : Owed(a) =>
    /\ a \in Rows(disk)
    /\ loaded => a \in Rows(pending)
    /\ pos > 0 => a \in Rows(survivors) \cup Ahead

DurableInv == TypeInv /\ Durable

(* Steps that owe nothing new and leave the queue alone.                   *)
LEMMA DurableUntouched ==
  ASSUME DurableInv, TypeInv', UNCHANGED <<pending, disk, loaded, pos, survivors>>,
         \A a \in Alerts : Owed(a)' => Owed(a)
  PROVE  DurableInv'
BY DEF DurableInv, Durable, Rows, Ahead

LEMMA EnqueueDurable ==
  ASSUME DurableInv, TypeInv', NEW a \in Alerts, Enqueue(a), UNCHANGED <<pos, survivors>>,
         \A b \in Alerts : Owed(b)' => Owed(b) \/ b = a,
         Faults \cap {"disk", "load"} = {}
  PROVE  DurableInv'
<1> USE DEF DurableInv, TypeInv
<1>1. PICK rows \in LoadedRows :
        /\ pending' = Append(rows, a) /\ loaded' = TRUE /\ Persist(pending')
  BY DEF Enqueue
<1>2. rows \in Seq(Alerts) /\ rows = (IF loaded THEN pending ELSE disk)
  BY LoadedRowsType
<1>3. Rows(pending') = Rows(rows) \cup {a} /\ disk' = pending'
  BY <1>1, <1>2, AppendRows DEF Persist
<1>4. ASSUME NEW b \in Alerts, Owed(b)' PROVE b \in Rows(pending')
  BY <1>2, <1>3, <1>4 DEF Durable
<1>5. ASSUME NEW b \in Alerts, Owed(b)', pos > 0
      PROVE  b \in Rows(survivors) \cup {pending'[i] : i \in pos..Len(pending')}
  <2>1. rows = pending /\ pos \in 1..Len(pending) /\ Len(pending) \in Nat
    BY <1>2, <1>5 DEF Shape, TypeOK
  <2>2. /\ Len(pending') = Len(pending) + 1
        /\ \A i \in 1..Len(pending) : pending'[i] = pending[i]
        /\ pending'[Len(pending) + 1] = a
    BY <1>1, <2>1
  <2>3. \A i \in pos..Len(pending) : i \in pos..Len(pending') /\ pending'[i] = pending[i]
    BY <2>1, <2>2
  <2>4. Ahead \subseteq {pending'[i] : i \in pos..Len(pending')}
    BY <2>3 DEF Ahead
  <2>5. a \in {pending'[i] : i \in pos..Len(pending')}
    <3>1. Len(pending) + 1 \in pos..Len(pending')
      BY <2>1, <2>2
    <3>2. QED
      BY <2>2, <3>1
  <2>6. QED
    BY <1>5, <2>4, <2>5 DEF Durable
<1>6. QED
  BY <1>3, <1>4, <1>5 DEF Durable, Ahead

LEMMA FlushDurable ==
  ASSUME DurableInv, TypeInv', FlushRow, "disk" \notin Faults
  PROVE  DurableInv'
<1> USE DEF DurableInv
<1>1. pos \in 1..Len(pending) /\ Len(pending) \in Nat /\ loaded
  BY DEF FlushRow, TypeInv, TypeOK, Shape
<1>2. PICK result \in {"ok", "retryable", "fatal"} :
        /\ Statement(pending[pos], result)
        /\ IF Again(result, tries)
           THEN /\ tries' = tries + 1
                /\ UNCHANGED <<pending, disk, pos, survivors>>
           ELSE IF pos < Len(pending)
           THEN /\ pos' = pos + 1
                /\ tries' = 1
                /\ survivors' = Keep(result)
                /\ UNCHANGED <<pending, disk>>
           ELSE /\ pending' = Keep(result)
                /\ Persist(Keep(result))
                /\ pos' = 0 /\ tries' = 0 /\ survivors' = <<>>
  BY DEF FlushRow
<1>3. /\ pending[pos] \in Alerts
      /\ Rows(Keep(result)) = Rows(survivors) \cup (IF result = "ok" THEN {} ELSE {pending[pos]})
  BY <1>1, KeepType
<1>4. /\ \A a \in Alerts : table[a] > 0 => table'[a] > 0
      /\ result = "ok" => table'[pending[pos]] > 0
  BY <1>2, <1>3, StatementType DEF TypeInv
<1>5. UNCHANGED <<call, loaded>>
  BY DEF FlushRow, callVars
<1>6. table \in [Alerts -> 0..2] /\ table' \in [Alerts -> 0..2]
  BY DEF TypeInv, TypeOK
<1>7. \A a \in Alerts : Owed(a)' => Owed(a) /\ (result = "ok" => a # pending[pos])
  BY <1>4, <1>5, <1>6 DEF Owed
<1>8. CASE Again(result, tries)
  BY <1>2, <1>5, <1>7, <1>8, DurableUntouched
<1>9. CASE ~Again(result, tries) /\ pos < Len(pending)
  <2>1. pos' = pos + 1 /\ survivors' = Keep(result) /\ UNCHANGED <<pending, disk, loaded>>
    BY <1>2, <1>5, <1>9
  <2>2. Ahead \subseteq {pending[pos]} \cup {pending[i] : i \in (pos + 1)..Len(pending)}
    <3>1. \A i \in pos..Len(pending) : i = pos \/ i \in (pos + 1)..Len(pending)
      BY <1>1
    <3>2. QED
      BY <3>1 DEF Ahead
  <2>3. ASSUME NEW a \in Alerts, Owed(a)'
        PROVE  a \in Rows(survivors') \cup Ahead'
    <3>1. Owed(a) /\ (result = "ok" => a # pending[pos])
      BY <1>7, <2>3
    <3>2. a \in Rows(survivors) \cup Ahead
      BY <1>1, <3>1 DEF Durable
    <3>3. Ahead' = {pending[i] : i \in (pos + 1)..Len(pending)}
      BY <2>1 DEF Ahead
    <3>4. QED
      BY <1>3, <2>1, <2>2, <3>1, <3>2, <3>3
  <2>4. QED
    BY <1>7, <2>1, <2>3 DEF Durable, Rows
<1>10. CASE ~Again(result, tries) /\ ~(pos < Len(pending))
  <2>1. pending' = Keep(result) /\ disk' = Keep(result) /\ pos' = 0
    BY <1>2, <1>10 DEF Persist
  <2>2. Ahead = {pending[pos]}
    <3>1. pos..Len(pending) = {pos}
      BY <1>1, <1>10
    <3>2. QED
      BY <3>1 DEF Ahead
  <2>3. ASSUME NEW a \in Alerts, Owed(a)' PROVE a \in Rows(Keep(result))
    <3>1. Owed(a) /\ (result = "ok" => a # pending[pos])
      BY <1>7, <2>3
    <3>2. a \in Rows(survivors) \cup Ahead
      BY <1>1, <3>1 DEF Durable
    <3>3. QED
      BY <1>3, <2>2, <3>1, <3>2
  <2>4. QED
    BY <2>1, <2>3 DEF Durable, Rows
<1>11. QED
  BY <1>8, <1>9, <1>10

LEMMA NextDurable ==
  ASSUME DurableInv, [Next]_vars, Faults \cap {"disk", "load"} = {}
  PROVE  DurableInv'
<1>0. TypeInv' /\ TypeInv /\ Durable
  BY NextType DEF DurableInv
<1>1. CASE UNCHANGED vars
  BY <1>0, <1>1, DurableUntouched DEF vars, callVars, queueVars, flushVars, Owed
<1>2. ASSUME NEW a \in Alerts, CreateAlert(a) \/ LookupReturns(a) \/ LookupFindsNothing(a) \/ LookupFails(a)
      PROVE  DurableInv'
  <2>1. call' \in {[call EXCEPT ![a] = c] : c \in {"lookup", "insert", "skipped", "error"}}
    BY <1>2 DEF CreateAlert, LookupReturns, LookupFindsNothing, LookupFails
  <2>2. table' = table
    BY <1>2 DEF CreateAlert, LookupReturns, LookupFindsNothing, LookupFails
  <2>3. \A b \in Alerts : Owed(b)' => Owed(b)
    BY <1>0, <2>1, <2>2 DEF Owed, TypeInv, TypeOK
  <2>4. QED
    BY <1>0, <1>2, <2>3, DurableUntouched DEF CreateAlert, LookupReturns,
         LookupFindsNothing, LookupFails, queueVars, flushVars
<1>3. ASSUME NEW a \in Alerts, Insert(a) PROVE DurableInv'
  <2>1. PICK result \in {"ok", "retryable", "fatal"} :
          /\ Statement(a, result)
          /\ \/ /\ Again(result, attempt[a])
                /\ attempt' = [attempt EXCEPT ![a] = @ + 1]
                /\ UNCHANGED <<call, queueVars>>
             \/ /\ result = "ok"
                /\ call' = [call EXCEPT ![a] = "stored"]
                /\ UNCHANGED <<attempt, queueVars>>
             \/ /\ result # "ok" /\ ~Again(result, attempt[a])
                /\ call' = [call EXCEPT ![a] = "queued"]
                /\ Enqueue(a)
                /\ UNCHANGED <<attempt, started>>
    BY <1>3 DEF Insert
  <2>2. /\ table \in [Alerts -> 0..2] /\ table' \in [Alerts -> 0..2]
        /\ \A b \in Alerts : table[b] > 0 => table'[b] > 0
    BY <1>0, <2>1, StatementType DEF TypeInv, TypeOK
  <2>3. \A b \in Alerts : b # a => call'[b] = call[b]
    BY <1>0, <2>1 DEF TypeInv, TypeOK
  <2>4. \A b \in Alerts : Owed(b)' => Owed(b) \/ b = a
    BY <2>2, <2>3 DEF Owed
  <2>5. UNCHANGED <<pos, survivors>>
    BY <1>3 DEF Insert, flushVars
  <2>6. CASE Enqueue(a)
    BY <1>0, <2>4, <2>5, <2>6, EnqueueDurable DEF DurableInv
  <2>7. CASE UNCHANGED queueVars /\ (call' = call \/ call' = [call EXCEPT ![a] = "stored"])
    <3>0. \A b \in Alerts : call'[b] = "queued" => call[b] = "queued"
      BY <1>0, <2>7 DEF TypeInv, TypeOK
    <3>1. \A b \in Alerts : Owed(b)' => Owed(b)
      BY <2>2, <3>0 DEF Owed
    <3>2. QED
      BY <1>0, <2>5, <2>7, <3>1, DurableUntouched DEF queueVars
  <2>8. QED
    BY <2>1, <2>6, <2>7
<1>4. ASSUME NEW a \in Alerts, DeleteTarget(a) PROVE DurableInv'
  BY <1>0, <1>4, DurableUntouched DEF DeleteTarget, callVars, queueVars, flushVars, Owed
<1>5. CASE StartAlertQueue
  <2>1. pending' = (IF loaded THEN pending ELSE disk) /\ loaded' = TRUE
    BY <1>0, <1>5, LoadedRowsType DEF StartAlertQueue, TypeInv
  <2>2. \A a \in Alerts : Owed(a)' => a \in Rows(pending')
    BY <1>0, <1>5, <2>1 DEF StartAlertQueue, callVars, Owed, Durable, Rows
  <2>3. pos' > 0 => Ahead' = Rows(pending')
    <3>1. pos' \in {0, 1} /\ pending' \in Seq(Alerts)
      BY <1>0, <1>5 DEF StartAlertQueue, FlushBegins, TypeInv, TypeOK
    <3>2. QED
      BY <3>1 DEF Ahead, Rows
  <2>4. \A a \in Alerts : Owed(a)' => a \in Rows(disk')
    BY <1>0, <1>5 DEF StartAlertQueue, callVars, Owed, Durable, Rows
  <2>5. QED
    BY <1>0, <2>2, <2>3, <2>4 DEF Durable, DurableInv
<1>6. CASE FlushTimer
  <2>1. pos' = 1 /\ UNCHANGED <<table, call, loaded, pending, disk>>
    BY <1>6 DEF FlushTimer, FlushBegins, callVars, queueVars
  <2>2. Ahead' = Rows(pending)
    <3>1. pending \in Seq(Alerts)
      BY <1>0 DEF TypeInv, TypeOK
    <3>2. QED
      BY <2>1, <3>1 DEF Ahead, Rows
  <2>3. loaded
    BY <1>0, <1>6 DEF FlushTimer, MayFlush, TypeInv, Shape
  <2>4. QED
    BY <1>0, <2>1, <2>2, <2>3 DEF Durable, DurableInv, Owed, Rows
<1>7. CASE FlushRow
  BY <1>0, <1>7, FlushDurable DEF DurableInv
<1>8. CASE Crash
  <2>1. UNCHANGED <<table, disk>> /\ loaded' = FALSE /\ pos' = 0
    BY <1>8 DEF Crash
  <2>2. \A a \in Alerts : call'[a] = "queued" => call[a] = "queued"
    BY <1>8 DEF Crash
  <2>3. QED
    BY <1>0, <2>1, <2>2 DEF Durable, DurableInv, Owed, Rows
<1>9. CASE Restart
  BY <1>0, <1>9, DurableUntouched DEF Restart, callVars, queueVars, flushVars, Owed
<1>10. QED
  BY <1>1, <1>2, <1>3, <1>4, <1>5, <1>6, <1>7, <1>8, <1>9 DEF Next

(* As long as the file can be read and written, an alert whose insert      *)
(* failed is committed or still remembered: crashes, deleted targets,      *)
(* failing or half-acknowledged statements and alerts enqueued while       *)
(* flush() runs take none away.  Without the assumption about reading, the *)
(* rows of an unreadable file are lost with the next save.                 *)
THEOREM QueuedAlertsSurvive ==
  ASSUME Faults \cap {"disk", "load"} = {}
  PROVE  Spec => []QueuedNeverLost
<1>1. Init => DurableInv
  <2> SUFFICES ASSUME Init PROVE DurableInv
    OBVIOUS
  <2>1. Durable
    BY DEF Init, Durable, Owed
  <2>2. QED
    BY <2>1, InitType DEF DurableInv
<1>2. DurableInv /\ [Next]_vars => DurableInv'
  BY NextDurable
<1>3. DurableInv => QueuedNeverLost
  <2> SUFFICES ASSUME DurableInv, NEW a \in Alerts, call[a] = "queued", ~(table[a] > 0)
               PROVE  a \in Remembered
    BY DEF QueuedNeverLost
  <2>1. table[a] = 0
    <3>1. table[a] \in 0..2
      BY DEF DurableInv, TypeInv, TypeOK
    <3>2. QED
      BY <3>1
  <2>2. QED
    BY <2>1 DEF DurableInv, Durable, Owed, Remembered
<1>4. QED
  BY <1>1, <1>2, <1>3, PTL DEF Spec
=============================================================================
