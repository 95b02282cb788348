--------------------------- MODULE RiskGateProofs ---------------------------
(***************************************************************************)
(* Lemmas about the checks of Submit, what an accepted order changes, and  *)
(* sums of notionals, for the proofs about LiveRouter, PaperRouter and     *)
(* AutoPilot.                                                              *)
(***************************************************************************)
EXTENDS RiskGate, FiniteSetTheorems, TLAPS

USE RiskGateAssumption

(* What an admitted order satisfies: the checks the safety proofs rest on. *)
LEMMA AdmitsFacts ==
  ASSUME NEW r, NEW o, NEW age, Admits(r, o, age)
  PROVE  /\ ~LossCapExceeded(r)
         /\ o.key # Empty /\ o.market # Empty
         /\ o.key \notin r.seenKeys
         /\ ~Exceeds(NextExposure(r, o), PerMarketExposureCap)
         /\ ~ClusterCapExceeded(ClusterOf(o.market), NextClusterExposure(r, o))
<1>1. \A i \in {1, 2, 7, 8, 9} : i \in DOMAIN CheckOrder
  BY DEF CheckOrder
<1>2. /\ CheckOrder[1] = "daily_loss_cap"
      /\ CheckOrder[2] = "invalid_live_order"
      /\ CheckOrder[7] = "duplicate_order_key"
      /\ CheckOrder[8] = "market_exposure_cap"
      /\ CheckOrder[9] = "cluster_exposure_cap"
  BY DEF CheckOrder
<1>3. \A i \in {1, 2, 7, 8, 9} : ~Fails(r, o, age)[CheckOrder[i]]
  BY <1>1 DEF Admits
<1>4. /\ ~Fails(r, o, age).daily_loss_cap
      /\ ~Fails(r, o, age).invalid_live_order
      /\ ~Fails(r, o, age).duplicate_order_key
      /\ ~Fails(r, o, age).market_exposure_cap
      /\ ~Fails(r, o, age).cluster_exposure_cap
  BY <1>2, <1>3
<1>5. QED
  BY <1>4 DEF Fails

(* A market's cluster is one of the clusters the exposure map is about.    *)
LEMMA ClusterOfType ==
  ASSUME NEW m \in Markets \cup {Empty}
  PROVE  ClusterOf(m) \in ClusterNames
BY DEF ClusterOf, ClusterNames

(* An accepted order leaves the router's memory well typed. *)
LEMMA CommitType ==
  ASSUME NEW r \in Router, NEW o \in LiveOrder, o.key # Empty,
         NEW e \in Int, NEW c \in Int
  PROVE  Commit(r, o, e, c) \in Router
<1>1. o.market \in Markets \cup {Empty} /\ o.key \in Keys
  BY DEF LiveOrder
<1>2. ClusterOf(o.market) \in ClusterNames
  BY <1>1, ClusterOfType
<1>3. QED
  BY <1>1, <1>2 DEF Commit, Router

(* The two sums Submit compares with the caps are integers. *)
LEMMA NextExposureType ==
  ASSUME NEW r \in Router, NEW o \in LiveOrder
  PROVE  NextExposure(r, o) \in Int /\ NextClusterExposure(r, o) \in Int
<1>1. o.market \in Markets \cup {Empty} /\ o.notional \in Int
  BY DEF LiveOrder
<1>2. ClusterOf(o.market) \in ClusterNames
  BY <1>1, ClusterOfType
<1>3. QED
  BY <1>1, <1>2 DEF NextExposure, NextClusterExposure, Router

(* An order is admitted if and only if none of the nine checks fails.      *)
LEMMA AdmitsEach ==
  ASSUME NEW r, NEW o, NEW age
  PROVE  Admits(r, o, age) <=>
           /\ ~Fails(r, o, age).daily_loss_cap
           /\ ~Fails(r, o, age).invalid_live_order
           /\ ~Fails(r, o, age).market_not_whitelisted
           /\ ~Fails(r, o, age).geoblock_compliance
           /\ ~Fails(r, o, age).compliance_failed
           /\ ~Fails(r, o, age).stale_data_cutoff
           /\ ~Fails(r, o, age).duplicate_order_key
           /\ ~Fails(r, o, age).market_exposure_cap
           /\ ~Fails(r, o, age).cluster_exposure_cap
<1>1. DOMAIN CheckOrder = 1..9
  BY DEF CheckOrder
<1>2. Admits(r, o, age) <=> \A i \in 1..9 : ~Fails(r, o, age)[CheckOrder[i]]
  BY <1>1 DEF Admits
<1>3. QED
  BY <1>2 DEF CheckOrder

-----------------------------------------------------------------------------
(***************************************************************************)
(* The total of the notionals of finitely many orders.  The library sums a *)
(* set by picking one element after the other; these lemmas say that there *)
(* is such a sum and that the order in which it picks does not matter.     *)
(* They are proved by a smallest set for which they would fail.            *)
(***************************************************************************)
Pick(s) == CHOOSE i \in s : TRUE

(* f[s] is the total of s, for every set s of indices from S. *)
IsSum(f, orders, S) ==
  f = [s \in SUBSET S |->
         IF s = {} THEN 0 ELSE orders[Pick(s)].notional + f[s \ {Pick(s)}]]

LEMMA SmallestSet ==
  ASSUME NEW S, IsFiniteSet(S), NEW C \in SUBSET SUBSET S, C # {}
  PROVE  \E s \in C : \A t \in C : t \subseteq s => t = s
<1>1. IsWellFoundedOn(StrictSubsetOrdering(S), FiniteSubsetsOf(S)) /\ C \subseteq FiniteSubsetsOf(S)
  BY FS_StrictSubsetOrderingWellFounded, FS_FiniteSubsetsOfFinite
<1>2. PICK s \in C : \A t \in C : <<t, s>> \notin StrictSubsetOrdering(S)
  BY <1>1, WFMin
<1> QED
  BY <1>2 DEF StrictSubsetOrdering

(* A nonempty set of naturals has a least element. *)
LEMMA LeastNat ==
  ASSUME NEW S \in SUBSET Nat, S # {}
  PROVE  \E i \in S : \A j \in S : i <= j
<1>1. PICK i \in S : \A j \in S : <<j, i>> \notin OpToRel(<, Nat)
  BY WFMin, NatLessThanWellFounded
<1>2. \A j \in S : ~(j < i)
  BY <1>1 DEF OpToRel
<1>3. QED
  BY <1>2

(* Two sums agree where the orders do. *)
LEMMA SumsAgree ==
  ASSUME NEW S, IsFiniteSet(S), NEW T, NEW U, S \subseteq T, S \subseteq U, NEW v, NEW w,
         \A i \in S : v[i].notional = w[i].notional,
         NEW f, IsSum(f, v, T), NEW g, IsSum(g, w, U)
  PROVE  f[S] = g[S]
<1> DEFINE C == {s \in SUBSET S : f[s] # g[s]}
<1>1. SUFFICES ASSUME C # {} PROVE FALSE
  OBVIOUS
<1>2. PICK s \in C : \A t \in C : t \subseteq s => t = s
  <2>1. C \in SUBSET SUBSET S
    OBVIOUS
  <2> HIDE DEF C
  <2> QED
    BY <1>1, <2>1, SmallestSet
<1>3. /\ f[s] = IF s = {} THEN 0 ELSE v[Pick(s)].notional + f[s \ {Pick(s)}]
      /\ g[s] = IF s = {} THEN 0 ELSE w[Pick(s)].notional + g[s \ {Pick(s)}]
  BY <1>2 DEF IsSum
<1>4. s # {}
  BY <1>2, <1>3
<1>5. Pick(s) \in s
  BY <1>4 DEF Pick
<1>6. s \ {Pick(s)} \notin C
  BY <1>2, <1>5
<1>7. f[s \ {Pick(s)}] = g[s \ {Pick(s)}]
  BY <1>2, <1>6
<1> QED
  BY <1>2, <1>3, <1>4, <1>5, <1>7

LEMMA SumExists ==
  ASSUME NEW S, IsFiniteSet(S), NEW orders
  PROVE  \E f : IsSum(f, orders, S)
<1> DEFINE C == {s \in SUBSET S : ~\E f : IsSum(f, orders, s)}
<1>1. SUFFICES ASSUME C # {} PROVE FALSE
  OBVIOUS
<1>2. PICK s \in C : \A t \in C : t \subseteq s => t = s
  <2>1. C \in SUBSET SUBSET S
    OBVIOUS
  <2> HIDE DEF C
  <2> QED
    BY <1>1, <2>1, SmallestSet
<1> DEFINE sum(t) == CHOOSE f : IsSum(f, orders, t)
           next(t) == t \ {Pick(t)}
           f == [t \in SUBSET s |-> IF t = {} THEN 0 ELSE orders[Pick(t)].notional + sum(next(t))[next(t)]]
<1>3. \A t \in SUBSET s : t # s => IsSum(sum(t), orders, t)
  BY <1>2
<1>4. \A t \in SUBSET s : t # {} => next(t) \in SUBSET s /\ next(t) # s /\ next(t) # t /\ next(t) \subseteq t
  BY DEF Pick
<1>5. ASSUME NEW t \in SUBSET s, t # s
      PROVE  sum(t)[t] = f[t]
  <2>1. IsSum(sum(t), orders, t)
    BY <1>3, <1>5
  <2>2. sum(t)[t] = IF t = {} THEN 0 ELSE orders[Pick(t)].notional + sum(t)[next(t)]
    BY <2>1 DEF IsSum
  <2>3. CASE t = {}
    BY <2>2, <2>3
  <2>4. CASE t # {}
    <3>1. IsSum(sum(next(t)), orders, next(t)) /\ next(t) \subseteq t /\ next(t) \subseteq S
      BY <1>3, <1>4, <2>4
    <3>2. IsFiniteSet(next(t))
      BY <3>1, FS_Subset
    <3> HIDE DEF sum, next
    <3>3. sum(t)[next(t)] = sum(next(t))[next(t)]
      BY <2>1, <3>1, <3>2, SumsAgree
    <3> QED
      BY <2>2, <2>4, <3>3
  <2> QED
    BY <2>3, <2>4
<1>6. f = [t \in SUBSET s |-> IF t = {} THEN 0 ELSE orders[Pick(t)].notional + f[t \ {Pick(t)}]]
  <2>1. \A t \in SUBSET s : t # {} => sum(next(t))[next(t)] = f[next(t)]
    BY <1>4, <1>5
  <2> HIDE DEF sum
  <2> QED
    BY <2>1
<1>7. IsSum(f, orders, s)
  BY ONLY <1>6 DEF IsSum
<1> HIDE DEF f
<1> QED
  BY <1>2, <1>7

(* Any element may be the one that is taken first.                         *)
LEMMA SumStep ==
  ASSUME NEW S, IsFiniteSet(S), NEW orders, \A i \in S : orders[i].notional \in Int,
         NEW f, IsSum(f, orders, S)
  PROVE  \A s \in SUBSET S : /\ f[s] \in Int
                             /\ \A i \in s : f[s] = orders[i].notional + f[s \ {i}]
<1> DEFINE n(i) == orders[i].notional
           Good(s) == f[s] \in Int /\ \A i \in s : f[s] = n(i) + f[s \ {i}]
           C == {s \in SUBSET S : ~Good(s)}
<1>1. SUFFICES ASSUME C # {} PROVE FALSE
  OBVIOUS
<1>2. PICK s \in C : \A t \in C : t \subseteq s => t = s
  <2>1. C \in SUBSET SUBSET S
    OBVIOUS
  <2> HIDE DEF C
  <2> QED
    BY <1>1, <2>1, SmallestSet
<1>3. ASSUME NEW t \in SUBSET s, t # s
      PROVE  Good(t)
  BY <1>2, <1>3
<1>4. f[s] = IF s = {} THEN 0 ELSE n(Pick(s)) + f[s \ {Pick(s)}]
  BY <1>2 DEF IsSum
<1>5. s # {}
  BY <1>2, <1>4
<1> DEFINE p == Pick(s)
<1>6. p \in s /\ n(p) \in Int
  BY <1>2, <1>5 DEF Pick
<1> HIDE DEF p
<1>7. f[s] = n(p) + f[s \ {p}] /\ f[s \ {p}] \in Int
  <2>1. Good(s \ {p})
    BY <1>3, <1>6
  <2> QED
    BY <1>4, <1>5, <2>1 DEF p
<1>8. ASSUME NEW i \in s, i # p
      PROVE  f[s] = n(i) + f[s \ {i}]
  <2>1. Good(s \ {p}) /\ Good(s \ {i}) /\ Good(s \ {p, i})
    BY <1>3, <1>6, <1>8
  <2>2. /\ f[s \ {p}] = n(i) + f[s \ {p, i}]
        /\ f[s \ {i}] = n(p) + f[s \ {p, i}]
    <3>1. (s \ {p}) \ {i} = s \ {p, i} /\ (s \ {i}) \ {p} = s \ {p, i}
      OBVIOUS
    <3>2. i \in s \ {p} /\ p \in s \ {i}
      BY <1>6, <1>8
    <3> QED
      BY <2>1, <3>1, <3>2
  <2>3. n(i) \in Int /\ n(p) \in Int /\ f[s \ {p, i}] \in Int
    BY <1>2, <1>6, <2>1
  <2> QED
    BY <1>7, <2>2, <2>3
<1>9. Good(s)
  <2>1. f[s] \in Int
    BY <1>6, <1>7
  <2>2. ASSUME NEW i \in s
        PROVE  f[s] = n(i) + f[s \ {i}]
    <3>1. CASE i = p
      BY <1>7, <3>1
    <3>2. CASE i # p
      BY <1>8, <3>2
    <3> QED
      BY <3>1, <3>2
  <2> QED
    BY <2>1, <2>2
<1> QED
  BY <1>2, <1>9

(* The total is the value of such a sum ... *)
LEMMA TotalIsSum ==
  ASSUME NEW S, IsFiniteSet(S), NEW orders
  PROVE  \E f : IsSum(f, orders, S) /\ TotalNotional(orders, S) = f[S]
<1>1. \E f : IsSum(f, orders, S)
  BY SumExists
<1> QED
  BY <1>1 DEF TotalNotional, MapThenSumSet, MapThenFoldSet, IsSum, Pick

(* ... so it is an integer, 0 of nothing, the same for orders of the same  *)
(* value, and one more order adds its notional.                            *)
LEMMA TotalOfNone ==
  ASSUME NEW orders
  PROVE  TotalNotional(orders, {}) = 0
BY FS_EmptySet, TotalIsSum DEF IsSum

LEMMA TotalType ==
  ASSUME NEW S, IsFiniteSet(S), NEW orders, \A i \in S : orders[i].notional \in Int
  PROVE  TotalNotional(orders, S) \in Int
BY TotalIsSum, SumStep

LEMMA TotalAgrees ==
  ASSUME NEW S, IsFiniteSet(S), NEW v, NEW w, \A i \in S : v[i].notional = w[i].notional
  PROVE  TotalNotional(v, S) = TotalNotional(w, S)
BY TotalIsSum, SumsAgree

LEMMA TotalWithOneMore ==
  ASSUME NEW S, IsFiniteSet(S), NEW orders, NEW i, i \notin S,
         \A j \in S \cup {i} : orders[j].notional \in Int
  PROVE  /\ TotalNotional(orders, S) \in Int
         /\ TotalNotional(orders, S \cup {i}) = TotalNotional(orders, S) + orders[i].notional
<1> DEFINE T == S \cup {i}
<1>1. IsFiniteSet(T)
  BY FS_AddElement
<1>2. PICK f : IsSum(f, orders, S) /\ TotalNotional(orders, S) = f[S]
  BY TotalIsSum
<1>3. PICK g : IsSum(g, orders, T) /\ TotalNotional(orders, T) = g[T]
  BY <1>1, TotalIsSum
<1>4. f[S] = g[S]
  BY <1>2, <1>3, SumsAgree
<1>5. T \ {i} = S /\ S \in SUBSET T /\ T \in SUBSET T /\ i \in T
  OBVIOUS
<1>6. \A j \in T : orders[j].notional \in Int
  OBVIOUS
<1> HIDE DEF T
<1>7. g[S] \in Int /\ g[T] = orders[i].notional + g[T \ {i}]
  BY <1>1, <1>3, <1>5, <1>6, SumStep
<1>8. TotalNotional(orders, T) = TotalNotional(orders, S) + orders[i].notional
  <2>1. orders[i].notional \in Int /\ g[T] = orders[i].notional + g[S]
    BY <1>5, <1>6, <1>7
  <2>2. TotalNotional(orders, T) = g[T] /\ TotalNotional(orders, S) = g[S]
    BY <1>2, <1>3, <1>4
  <2> QED
    BY <1>7, <2>1, <2>2
<1> QED
  BY <1>2, <1>4, <1>7, <1>8 DEF T

(* The total of those of a list of orders that are of a kind Q, when one   *)
(* more order comes to the list.                                           *)
Among(list, Q) == {i \in DOMAIN list : list[i] \in Q}

LEMMA TotalAppended ==
  ASSUME NEW list \in Seq(LiveOrder), NEW o \in LiveOrder, NEW Q
  PROVE  TotalNotional(Append(list, o), Among(Append(list, o), Q)) =
           TotalNotional(list, Among(list, Q)) + (IF o \in Q THEN o.notional ELSE 0)
<1> DEFINE longer == Append(list, o)
           S == Among(list, Q)
           last == Len(list) + 1
<1>1. /\ Len(list) \in Nat /\ DOMAIN list = 1 .. Len(list) /\ DOMAIN longer = 1 .. last
      /\ longer[last] = o /\ \A i \in DOMAIN list : longer[i] = list[i]
  OBVIOUS
<1>2. IsFiniteSet(S)
  <2>1. IsFiniteSet(1 .. Len(list))
    BY <1>1, FS_Interval
  <2> QED
    BY <1>1, <2>1, FS_Subset DEF Among
<1>3. /\ last \notin S
      /\ Among(longer, Q) = IF o \in Q THEN S \cup {last} ELSE S
  BY <1>1 DEF Among
<1>4. \A i \in S \cup {last} : longer[i].notional \in Int
  <2>1. \A i \in S \cup {last} : longer[i] \in LiveOrder
    BY <1>1 DEF Among
  <2> QED
    BY <2>1 DEF LiveOrder
<1>5. \A i \in S : longer[i].notional = list[i].notional
  BY <1>1 DEF Among
<1> HIDE DEF S, longer, last
<1>6. TotalNotional(longer, S) = TotalNotional(list, S)
  BY <1>2, <1>5, TotalAgrees
<1>7. /\ TotalNotional(longer, S) \in Int
      /\ TotalNotional(longer, S \cup {last}) = TotalNotional(longer, S) + longer[last].notional
  BY <1>2, <1>3, <1>4, TotalWithOneMore
<1>8. CASE o \in Q
  BY <1>1, <1>3, <1>6, <1>7, <1>8 DEF longer, S
<1>9. CASE o \notin Q
  BY <1>3, <1>6, <1>7, <1>9 DEF longer, S
<1> QED
  BY <1>8, <1>9
=============================================================================
