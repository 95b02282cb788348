-------------------------- MODULE LiveRouterProofs --------------------------
(***************************************************************************)
(* Proofs about LiveRouter for any set of threads, any orders and any      *)
(* configuration of the checks.                                            *)
(***************************************************************************)
EXTENDS LiveRouter, RiskGateProofs

USE RiskGateAssumption, LiveRouterAssumption

(* A refusal names one of the checks, the first that fails. *)
LEMMA RefusalType ==
  ASSUME NEW r, NEW o, NEW age, ~Admits(r, o, age)
  PROVE  Refusal(r, o, age) \in RefusalReasons
<1> DEFINE failing == {i \in DOMAIN CheckOrder : Fails(r, o, age)[CheckOrder[i]]}
<1>1. failing \in SUBSET Nat /\ failing # {}
  BY DEF Admits, CheckOrder
<1>2. \E i \in failing : \A j \in failing : i <= j
  BY <1>1, LeastNat
<1>3. QED
  BY <1>2 DEF Refusal, RefusalReasons

LEMMA NoCallType ==
  NoCall \in [order : LiveOrder, age : Nat, nextExposure : Int, nextClusterExposure : Int]
<1>1. NoOrder \in LiveOrder
  BY DEF NoOrder, LiveOrder
<1>2. QED
  BY <1>1 DEF NoCall
-----------------------------------------------------------------------------
(***************************************************************************)
(* The inductive invariant, in named parts.                                *)
(***************************************************************************)

(* A thread inside Submit holds mu, so no two of them are. *)
LockHeld == \A t \in Threads : pc[t] \in InSubmit => mu = t

(* What Submit has checked and computed is still true when it commits. *)
DecisionIsFresh ==
  \A t \in Threads :
    pc[t] = "commit" =>
      /\ Admits(router, call[t].order, call[t].age)
      /\ call[t].nextExposure = NextExposure(router, call[t].order)
      /\ call[t].nextClusterExposure = NextClusterExposure(router, call[t].order)

AcceptedAreSeen == \A i \in DOMAIN accepted : accepted[i].key \in router.seenKeys

(* No stored sum is over its cap.  That the stored sums are those of the   *)
(* accepted orders is ExposureAccounted.                                   *)
StoredWithinCaps ==
  /\ \A m \in Markets : ~Exceeds(router.exposure[m], PerMarketExposureCap)
  /\ \A c \in ClusterNames : ~ClusterCapExceeded(c, router.clusterExposure[c])

(* The one order a triggered switch may let through has not been counted   *)
(* while it is still under way.                                            *)
LeakBudget ==
  /\ ~kill.triggered => leaked = 0
  /\ (\E t \in Threads : pc[t] \in {"decide", "commit"}) => leaked = 0
  /\ leaked \in {0, 1}

Safety == StoredWithinCaps /\ AcceptedAreSeen /\ AcceptedOnce /\ LeakBudget /\ LossLatched

IInv == TypeOK /\ LockHeld /\ DecisionIsFresh /\ Safety

LEMMA InitIInv == Init => IInv
<1> SUFFICES ASSUME Init PROVE IInv
  OBVIOUS
<1>1. NewLiveRouter \in Router
  BY DEF NewLiveRouter, Router
<1>2. TypeOK
  <2>1. kill \in [triggered : BOOLEAN, reason : KillReasons]
    BY DEF Init, KillReasons
  <2>2. accepted \in Seq(LiveOrder)
    BY DEF Init
  <2>3. QED
    BY <1>1, <2>1, <2>2, NoCallType DEF Init, TypeOK
<1>3. StoredWithinCaps
  <2>1. \A m \in Markets : router.exposure[m] = 0
    BY DEF Init, NewLiveRouter
  <2>2. \A c \in ClusterNames : router.clusterExposure[c] = 0
    BY DEF Init, NewLiveRouter
  <2>3. QED
    BY <2>1, <2>2 DEF StoredWithinCaps, ClusterCapExceeded, Exceeds
<1>4. LockHeld /\ DecisionIsFresh /\ AcceptedAreSeen /\ AcceptedOnce
  BY DEF Init, LockHeld, DecisionIsFresh, AcceptedAreSeen, AcceptedOnce, InSubmit
<1>5. LeakBudget /\ LossLatched
  BY DEF Init, LeakBudget, LossLatched
<1>6. QED
  BY <1>2, <1>3, <1>4, <1>5 DEF IInv, Safety

(* The safety conjuncts depend on the router, the switch and the history.  *)
(* A step that only moves one thread keeps them.                           *)
LEMMA SubmitLockStep ==
  ASSUME IInv, NEW t \in Threads, NEW o \in LiveOrders, NEW age \in Ages,
         SubmitLock(t, o, age)
  PROVE  IInv'
<1> USE DEF IInv, Safety
<1>1. TypeOK'
  <2>1. [NoCall EXCEPT !.order = o, !.age = age]
          \in [order : LiveOrder, age : Nat, nextExposure : Int, nextClusterExposure : Int]
    BY NoCallType
  <2>2. reason' \in [Threads -> {NotReturned, "kill_switch"} \cup KillReasons
                                 \cup RefusalReasons]
    BY DEF SubmitLock, TypeOK
  <2>3. pc' \in [Threads -> {"idle", "trigger"} \cup InSubmit]
    BY DEF SubmitLock, TypeOK, InSubmit
  <2>4. call' \in [Threads -> [order : LiveOrder, age : Nat, nextExposure : Int,
                              nextClusterExposure : Int]]
    BY <2>1 DEF SubmitLock, TypeOK
  <2>5. QED
    BY <2>2, <2>3, <2>4 DEF SubmitLock, history, TypeOK
<1>2. LockHeld' /\ DecisionIsFresh'
  BY DEF SubmitLock, history, TypeOK, LockHeld, DecisionIsFresh, InSubmit
<1>3. StoredWithinCaps' /\ AcceptedAreSeen' /\ AcceptedOnce'
  BY DEF SubmitLock, history, StoredWithinCaps, AcceptedAreSeen, AcceptedOnce
<1>4. LeakBudget' /\ LossLatched'
  BY DEF SubmitLock, history, TypeOK, LeakBudget, LossLatched
<1>5. QED
  BY <1>1, <1>2, <1>3, <1>4

(* Submit returns without accepting: by the switch or by a check. *)
LEMMA SubmitReturnStep ==
  ASSUME IInv, NEW t \in Threads, SubmitKilled(t) \/ SubmitRefuse(t)
  PROVE  IInv'
<1> USE DEF IInv, Safety
<1>1. PICK r \in {NotReturned, "kill_switch"} \cup KillReasons \cup RefusalReasons :
        Return(t, r)
  BY RefusalType DEF SubmitKilled, SubmitRefuse, TypeOK
<1>2. UNCHANGED <<router, kill, history>> /\ pc[t] \in InSubmit
  BY DEF SubmitKilled, SubmitRefuse, InSubmit
<1>3. TypeOK'
  BY <1>1, <1>2, NoCallType DEF Return, history, TypeOK
<1>4. LockHeld' /\ DecisionIsFresh'
  BY <1>1, <1>2 DEF Return, TypeOK, LockHeld, DecisionIsFresh, InSubmit
<1>5. StoredWithinCaps' /\ AcceptedAreSeen' /\ AcceptedOnce'
  BY <1>2 DEF history, StoredWithinCaps, AcceptedAreSeen, AcceptedOnce
<1>6. LeakBudget' /\ LossLatched'
  BY <1>1, <1>2 DEF Return, history, TypeOK, LeakBudget, LossLatched, InSubmit
<1>7. QED
  BY <1>3, <1>4, <1>5, <1>6

LEMMA SubmitAliveStep ==
  ASSUME IInv, NEW t \in Threads, SubmitAlive(t)
  PROVE  IInv'
<1> USE DEF IInv, Safety
<1>1. TypeOK'
  BY DEF SubmitAlive, history, TypeOK, InSubmit
<1>2. LockHeld' /\ DecisionIsFresh'
  BY DEF SubmitAlive, TypeOK, LockHeld, DecisionIsFresh, InSubmit
<1>3. StoredWithinCaps' /\ AcceptedAreSeen' /\ AcceptedOnce'
  BY DEF SubmitAlive, history, StoredWithinCaps, AcceptedAreSeen, AcceptedOnce
<1>4. LeakBudget' /\ LossLatched'
  BY DEF SubmitAlive, history, TypeOK, LeakBudget, LossLatched
<1>5. QED
  BY <1>1, <1>2, <1>3, <1>4

LEMMA SubmitAdmitStep ==
  ASSUME IInv, NEW t \in Threads, SubmitAdmit(t)
  PROVE  IInv'
<1> USE DEF IInv, Safety
<1>1. /\ NextExposure(router, call[t].order) \in Int
      /\ NextClusterExposure(router, call[t].order) \in Int
  BY NextExposureType DEF TypeOK
<1>2. TypeOK'
  <2>1. call' \in [Threads -> [order : LiveOrder, age : Nat, nextExposure : Int,
                              nextClusterExposure : Int]]
    <3> DEFINE c == [call[t] EXCEPT
                      !.nextExposure = NextExposure(router, call[t].order),
                      !.nextClusterExposure = NextClusterExposure(router, call[t].order)]
               C == [order : LiveOrder, age : Nat, nextExposure : Int, nextClusterExposure : Int]
    <3>1. call \in [Threads -> C]
      BY DEF TypeOK
    <3> HIDE DEF IInv, Safety
    <3>2. c \in C
      BY <1>1, <3>1
    <3>3. /\ DOMAIN call' = DOMAIN call /\ call' = [u \in DOMAIN call |-> call'[u]]
          /\ call'[t] = c /\ \A u \in Threads \ {t} : call'[u] = call[u]
      BY <3>1 DEF SubmitAdmit
    <3> HIDE DEF c, C
    <3>4. call' \in [Threads -> C]
      BY <3>1, <3>2, <3>3
    <3> QED
      BY <3>4 DEF C
  <2>2. pc' \in [Threads -> {"idle", "trigger"} \cup InSubmit]
    BY DEF SubmitAdmit, TypeOK, InSubmit
  <2>3. UNCHANGED <<router, kill, mu, reason, accepted, leaked, breached>>
    BY DEF SubmitAdmit, history
  <2> QED
    BY <2>1, <2>2, <2>3 DEF TypeOK
<1>3. LockHeld' /\ DecisionIsFresh'
  BY DEF SubmitAdmit, TypeOK, LockHeld, DecisionIsFresh, InSubmit
<1>4. StoredWithinCaps' /\ AcceptedAreSeen' /\ AcceptedOnce'
  BY DEF SubmitAdmit, history, StoredWithinCaps, AcceptedAreSeen, AcceptedOnce
<1>5. LeakBudget' /\ LossLatched'
  BY DEF SubmitAdmit, history, TypeOK, LeakBudget, LossLatched
<1>6. QED
  BY <1>2, <1>3, <1>4, <1>5

(* The one step that accepts an order.  The admission of <1>1 was decided  *)
(* two steps ago; DecisionIsFresh says that it still holds.                *)
LEMMA SubmitCommitStep ==
  ASSUME IInv, NEW t \in Threads, SubmitCommit(t)
  PROVE  IInv'
<1> DEFINE o == call[t].order
<1> USE DEF IInv, Safety
<1>1. /\ Admits(router, o, call[t].age)
      /\ router' = Commit(router, o, NextExposure(router, o), NextClusterExposure(router, o))
  BY DEF SubmitCommit, DecisionIsFresh
<1>2. /\ o.key # Empty /\ o.market # Empty
      /\ o.key \notin router.seenKeys
      /\ ~Exceeds(NextExposure(router, o), PerMarketExposureCap)
      /\ ~ClusterCapExceeded(ClusterOf(o.market), NextClusterExposure(router, o))
  BY <1>1, AdmitsFacts
<1>3. /\ router \in Router /\ o \in LiveOrder
      /\ o.market \in Markets /\ ClusterOf(o.market) \in ClusterNames
  BY <1>2, ClusterOfType DEF TypeOK, LiveOrder
<1>4. router' \in Router
  BY <1>1, <1>2, <1>3, CommitType, NextExposureType
<1>5. /\ pc' = [pc EXCEPT ![t] = "idle"]
      /\ accepted' = Append(accepted, o)
      /\ pc[t] = "commit"
      /\ UNCHANGED <<kill, breached>>
  BY DEF SubmitCommit, Return
<1>6. \A u \in Threads : pc[u] \in InSubmit => u = t
  BY <1>5 DEF LockHeld, InSubmit
<1>7. TypeOK'
  <2>1. accepted' \in Seq(LiveOrder)
    BY <1>3, <1>5 DEF TypeOK
  <2>2. leaked' \in Nat
    BY DEF SubmitCommit, TypeOK
  <2>3. reason' \in [Threads -> {NotReturned, "kill_switch"} \cup KillReasons
                                 \cup RefusalReasons]
    BY DEF SubmitCommit, Return, TypeOK, KillReasons
  <2>4. mu' = Nobody /\ call' = [call EXCEPT ![t] = NoCall]
    BY DEF SubmitCommit, Return
  <2>5. QED
    BY <1>4, <1>5, <2>1, <2>2, <2>3, <2>4, NoCallType DEF TypeOK
<1>8. LockHeld' /\ DecisionIsFresh'
  BY <1>5, <1>6 DEF TypeOK, LockHeld, DecisionIsFresh, InSubmit
<1>9. StoredWithinCaps'
  <2>1. ASSUME NEW m \in Markets
        PROVE  ~Exceeds(router'.exposure[m], PerMarketExposureCap)
    <3>1. CASE m = o.market
      BY <3>1, <1>1, <1>2, <1>3 DEF Commit, Router
    <3>2. CASE m # o.market
      <4>1. router'.exposure[m] = router.exposure[m]
        BY <3>2, <1>1, <1>3 DEF Commit, Router
      <4>2. QED
        BY <4>1 DEF StoredWithinCaps
    <3>3. QED
      BY <3>1, <3>2
  <2>2. ASSUME NEW c \in ClusterNames
        PROVE  ~ClusterCapExceeded(c, router'.clusterExposure[c])
    <3>1. CASE c = ClusterOf(o.market)
      BY <3>1, <1>1, <1>2, <1>3 DEF Commit, Router
    <3>2. CASE c # ClusterOf(o.market)
      <4>1. router'.clusterExposure[c] = router.clusterExposure[c]
        BY <3>2, <1>1, <1>3 DEF Commit, Router
      <4>2. QED
        BY <4>1 DEF StoredWithinCaps
    <3>3. QED
      BY <3>1, <3>2
  <2>3. QED
    BY <2>1, <2>2 DEF StoredWithinCaps
<1>10. AcceptedAreSeen' /\ AcceptedOnce'
  <2>1. router'.seenKeys = router.seenKeys \cup {o.key}
    BY <1>1, <1>3 DEF Commit, Router
  <2>2. /\ accepted \in Seq(LiveOrder)
        /\ Len(accepted') = Len(accepted) + 1
        /\ accepted'[Len(accepted) + 1] = o
        /\ \A i \in DOMAIN accepted : accepted'[i] = accepted[i]
        /\ DOMAIN accepted' = DOMAIN accepted \cup {Len(accepted) + 1}
    BY <1>3, <1>5 DEF TypeOK
  <2>3. \A i \in DOMAIN accepted : accepted[i].key # o.key
    BY <1>2 DEF AcceptedAreSeen
  <2>4. AcceptedAreSeen'
    BY <2>1, <2>2 DEF AcceptedAreSeen
  <2>5. AcceptedOnce'
    BY <2>2, <2>3 DEF AcceptedOnce
  <2>6. QED
    BY <2>4, <2>5
<1>11. LeakBudget'
  <2>1. leaked = 0
    BY <1>5 DEF LeakBudget
  <2>2. ~\E u \in Threads : pc'[u] \in {"decide", "commit"}
    BY <1>5, <1>6 DEF TypeOK, InSubmit
  <2>3. QED
    BY <1>5, <2>1, <2>2 DEF LeakBudget, SubmitCommit
<1>12. LossLatched'
  BY <1>5 DEF LossLatched, TypeOK
<1>13. QED
  BY <1>7, <1>8, <1>9, <1>10, <1>11, <1>12

(* RecordPnL needs mu, so no Submit is between its decision and its commit. *)
LEMMA RecordPnLStep ==
  ASSUME IInv, NEW t \in Threads, NEW pnl \in PnLs, RecordPnL(t, pnl)
  PROVE  IInv'
<1> USE DEF IInv, Safety
<1>1. /\ router' = [router EXCEPT !.dayPnL = @ + pnl]
      /\ pc' = pc \/ pc' = [pc EXCEPT ![t] = "trigger"]
      /\ mu = Nobody
      /\ UNCHANGED <<kill, mu, call, reason, accepted, leaked>>
  BY DEF RecordPnL
<1>2. \A u \in Threads : pc[u] \notin InSubmit
  BY <1>1 DEF LockHeld
<1>3. TypeOK'
  <2>1. router' \in Router
    <3>1. pnl \in Int /\ router \in Router
      BY DEF TypeOK
    <3>2. router.dayPnL + pnl \in Int
      BY <3>1 DEF Router
    <3>3. QED
      BY <1>1, <3>1, <3>2 DEF Router
  <2>2. breached' \in BOOLEAN
    BY DEF RecordPnL, TypeOK
  <2>3. QED
    BY <1>1, <2>1, <2>2 DEF TypeOK
<1>4. LockHeld' /\ DecisionIsFresh'
  BY <1>1, <1>2 DEF TypeOK, LockHeld, DecisionIsFresh, InSubmit
<1>5. /\ router'.exposure = router.exposure
      /\ router'.clusterExposure = router.clusterExposure
      /\ router'.seenKeys = router.seenKeys
  BY <1>1 DEF TypeOK, Router
<1>6. StoredWithinCaps' /\ AcceptedAreSeen' /\ AcceptedOnce'
  BY <1>1, <1>5 DEF StoredWithinCaps, AcceptedAreSeen, AcceptedOnce
<1>7. LeakBudget'
  BY <1>1 DEF TypeOK, LeakBudget
<1>8. LossLatched'
  BY DEF RecordPnL, TypeOK, LossLatched
<1>9. QED
  BY <1>3, <1>4, <1>6, <1>7, <1>8

(* Triggering the switch, by RecordPnL or by an operator. *)
LEMMA TriggerStep ==
  ASSUME IInv,
         \/ \E t \in Threads : RecordPnLTrigger(t)
         \/ \E r \in Reasons : OperatorTrigger(r)
  PROVE  IInv'
<1> USE DEF IInv, Safety
<1>1. /\ kill'.triggered
      /\ kill' \in [triggered : BOOLEAN, reason : KillReasons]
      /\ UNCHANGED <<router, mu, call, reason, history>>
      /\ pc' = pc \/ \E t \in Threads : pc' = [pc EXCEPT ![t] = "idle"] /\ pc[t] = "trigger"
  <2>1. CASE \E t \in Threads : RecordPnLTrigger(t)
    <3>1. PICK t \in Threads : RecordPnLTrigger(t)
      BY <2>1
    <3>2. "daily_loss_cap" \in KillReasons
      BY DEF KillReasons
    <3>3. kill' = [triggered |-> TRUE, reason |-> "daily_loss_cap"]
      BY <3>1 DEF RecordPnLTrigger, Trigger
    <3>4. QED
      BY <3>1, <3>2, <3>3 DEF RecordPnLTrigger
  <2>2. CASE \E r \in Reasons : OperatorTrigger(r)
    BY <2>2 DEF OperatorTrigger, Trigger, KillReasons
  <2>3. QED
    BY <2>1, <2>2
<1>2. TypeOK'
  BY <1>1 DEF TypeOK, history
<1>3. LockHeld' /\ DecisionIsFresh'
  BY <1>1 DEF TypeOK, LockHeld, DecisionIsFresh, InSubmit
<1>4. StoredWithinCaps' /\ AcceptedAreSeen' /\ AcceptedOnce'
  BY <1>1 DEF history, StoredWithinCaps, AcceptedAreSeen, AcceptedOnce
<1>5. LeakBudget' /\ LossLatched'
  BY <1>1 DEF history, TypeOK, LeakBudget, LossLatched
<1>6. QED
  BY <1>2, <1>3, <1>4, <1>5

LEMMA OperatorResetStep ==
  ASSUME IInv, OperatorReset
  PROVE  IInv'
<1> USE DEF IInv, Safety
<1>1. TypeOK'
  BY DEF OperatorReset, TypeOK, KillReasons
<1>2. LockHeld' /\ DecisionIsFresh'
  BY DEF OperatorReset, LockHeld, DecisionIsFresh
<1>3. StoredWithinCaps' /\ AcceptedAreSeen' /\ AcceptedOnce'
  BY DEF OperatorReset, StoredWithinCaps, AcceptedAreSeen, AcceptedOnce
<1>4. LeakBudget' /\ LossLatched'
  BY DEF OperatorReset, LeakBudget, LossLatched
<1>5. QED
  BY <1>1, <1>2, <1>3, <1>4

LEMMA StutterStep ==
  ASSUME IInv, UNCHANGED vars
  PROVE  IInv'
BY DEF IInv, Safety, vars, TypeOK, LockHeld, DecisionIsFresh, StoredWithinCaps, AcceptedAreSeen,
       AcceptedOnce, LeakBudget, LossLatched

LEMMA NextIInv == IInv /\ [Next]_vars => IInv'
<1> SUFFICES ASSUME IInv, [Next]_vars PROVE IInv'
  OBVIOUS
<1>1. CASE UNCHANGED vars
  BY <1>1, StutterStep
<1>2. ASSUME NEW t \in Threads, NEW o \in LiveOrders, NEW age \in Ages, SubmitLock(t, o, age)
      PROVE  IInv'
  BY <1>2, SubmitLockStep
<1>3. ASSUME NEW t \in Threads, SubmitStep(t)
      PROVE  IInv'
  BY <1>3, SubmitReturnStep, SubmitAliveStep, SubmitAdmitStep, SubmitCommitStep DEF SubmitStep
<1>4. ASSUME NEW t \in Threads, NEW pnl \in PnLs, RecordPnL(t, pnl)
      PROVE  IInv'
  BY <1>4, RecordPnLStep
<1>5. CASE \/ \E t \in Threads : RecordPnLTrigger(t)
           \/ \E r \in Reasons : OperatorTrigger(r)
  BY <1>5, TriggerStep
<1>6. CASE OperatorReset
  BY <1>6, OperatorResetStep
<1>7. QED
  BY <1>1, <1>2, <1>3, <1>4, <1>5, <1>6 DEF Next

LEMMA Inductive == Spec => []IInv
BY InitIInv, NextIInv, PTL DEF Spec
-----------------------------------------------------------------------------
(* Every variable of the router keeps its type. *)
THEOREM TypeCorrect == Spec => []TypeOK
BY Inductive, PTL DEF IInv

(* An order key is accepted at most once. *)
THEOREM KeysAreIdempotent == Spec => []AcceptedOnce
BY Inductive, PTL DEF IInv, Safety

(* With any number of goroutines in the router, a triggered kill switch    *)
(* lets at most one order through before it is reset.                      *)
THEOREM OneLeakAtMost == Spec => []AtMostOneLeak
<1>1. IInv => AtMostOneLeak
  BY DEF IInv, Safety, LeakBudget, AtMostOneLeak
<1>2. QED
  BY <1>1, Inductive, PTL

(* A breach of the loss cap is never forgotten between Unlock and Trigger. *)
THEOREM BreachIsLatched == Spec => []LossLatched
BY Inductive, PTL DEF IInv, Safety

(* No order is ever accepted while the loss cap is exceeded. *)
THEOREM LossCapStopsAcceptance == Spec => NoAcceptUnderLossCap
<1>1. IInv /\ [Next]_vars => [accepted' # accepted => ~LossCapExceeded(router)]_vars
  <2> SUFFICES ASSUME IInv, Next, accepted' # accepted
               PROVE  ~LossCapExceeded(router)
    OBVIOUS
  <2>1. PICK t \in Threads : SubmitCommit(t)
    BY DEF Next, SubmitLock, SubmitStep, SubmitKilled, SubmitAlive, SubmitRefuse, SubmitAdmit,
           RecordPnL, RecordPnLTrigger, OperatorTrigger, OperatorReset, history
  <2>2. Admits(router, call[t].order, call[t].age)
    BY <2>1 DEF IInv, DecisionIsFresh, SubmitCommit
  <2>3. QED
    BY <2>2, AdmitsFacts
<1>2. QED
  BY <1>1, Inductive, PTL DEF Spec, NoAcceptUnderLossCap

-----------------------------------------------------------------------------
(* The orders of a market, or of a cluster, as kinds of orders to total.   *)
OfMarket(m) == {o \in LiveOrder : o.market = m}
OfCluster(c) == {o \in LiveOrder : ClusterOf(o.market) = c}

(* ExposureAccounted in these words. *)
LEMMA AccountedByKind ==
  ASSUME accepted \in Seq(LiveOrder)
  PROVE  ExposureAccounted <=>
           /\ \A m \in Markets :
                router.exposure[m] = TotalNotional(accepted, Among(accepted, OfMarket(m)))
           /\ \A c \in ClusterNames :
                router.clusterExposure[c] = TotalNotional(accepted, Among(accepted, OfCluster(c)))
<1>1. \A i \in DOMAIN accepted : accepted[i] \in LiveOrder
  OBVIOUS
<1>2. \A m : {i \in DOMAIN accepted : accepted[i].market = m} = Among(accepted, OfMarket(m))
  BY <1>1 DEF Among, OfMarket
<1>3. \A c : {i \in DOMAIN accepted : ClusterOf(accepted[i].market) = c} = Among(accepted, OfCluster(c))
  BY <1>1 DEF Among, OfCluster
<1> QED
  BY <1>2, <1>3 DEF ExposureAccounted, MarketTotal, ClusterTotal

LEMMA CommitAccounted ==
  ASSUME IInv, IInv', ExposureAccounted, NEW t \in Threads, SubmitCommit(t)
  PROVE  ExposureAccounted'
<1> DEFINE o == call[t].order
<1>1. o \in LiveOrder /\ accepted \in Seq(LiveOrder) /\ router \in Router
  BY DEF IInv, TypeOK
<1>2. /\ router' = Commit(router, o, NextExposure(router, o), NextClusterExposure(router, o))
      /\ accepted' = Append(accepted, o)
      /\ o.market # Empty
  <2>1. pc[t] = "commit"
    BY DEF SubmitCommit
  <2>2. Admits(router, o, call[t].age)
    BY <2>1 DEF IInv, DecisionIsFresh
  <2> QED
    BY <2>1, <2>2, AdmitsFacts DEF IInv, DecisionIsFresh, SubmitCommit
<1>3. o.market \in Markets /\ ClusterOf(o.market) \in ClusterNames /\ o.notional \in Int
  BY <1>1, <1>2, ClusterOfType DEF LiveOrder
<1> HIDE DEF o
<1>4. ASSUME NEW m \in Markets
      PROVE  router'.exposure[m] = TotalNotional(accepted', Among(accepted', OfMarket(m)))
  <2>1. router.exposure[m] = TotalNotional(accepted, Among(accepted, OfMarket(m)))
    BY <1>1, AccountedByKind
  <2>2. router'.exposure[m] = router.exposure[m] + (IF o \in OfMarket(m) THEN o.notional ELSE 0)
    BY <1>1, <1>2, <1>3 DEF Commit, NextExposure, Router, OfMarket
  <2>3. TotalNotional(accepted', Among(accepted', OfMarket(m))) =
          TotalNotional(accepted, Among(accepted, OfMarket(m)))
            + (IF o \in OfMarket(m) THEN o.notional ELSE 0)
    BY <1>1, <1>2, TotalAppended
  <2> QED
    BY <2>1, <2>2, <2>3
<1>5. ASSUME NEW c \in ClusterNames
      PROVE  router'.clusterExposure[c] = TotalNotional(accepted', Among(accepted', OfCluster(c)))
  <2>1. router.clusterExposure[c] = TotalNotional(accepted, Among(accepted, OfCluster(c)))
    BY <1>1, AccountedByKind
  <2>2. router'.clusterExposure[c] =
          router.clusterExposure[c] + (IF o \in OfCluster(c) THEN o.notional ELSE 0)
    BY <1>1, <1>2, <1>3 DEF Commit, NextClusterExposure, Router, OfCluster
  <2>3. TotalNotional(accepted', Among(accepted', OfCluster(c))) =
          TotalNotional(accepted, Among(accepted, OfCluster(c)))
            + (IF o \in OfCluster(c) THEN o.notional ELSE 0)
    BY <1>1, <1>2, TotalAppended
  <2> QED
    BY <2>1, <2>2, <2>3
<1>6. accepted' \in Seq(LiveOrder)
  BY DEF IInv, TypeOK
<1>7. \A i \in DOMAIN accepted' : accepted'[i] \in LiveOrder
  BY <1>6
<1>8. \A m : {i \in DOMAIN accepted' : accepted'[i].market = m} = Among(accepted', OfMarket(m))
  BY <1>7 DEF Among, OfMarket
<1>9. \A c : {i \in DOMAIN accepted' : ClusterOf(accepted'[i].market) = c} = Among(accepted', OfCluster(c))
  BY <1>7 DEF Among, OfCluster
<1> QED
  BY <1>4, <1>5, <1>8, <1>9 DEF ExposureAccounted, MarketTotal, ClusterTotal

(* Whatever Submits overlap, the exposure of a market or of a cluster is   *)
(* the sum of its accepted orders: no acceptance is lost, counted twice or *)
(* booked on another market or cluster.                                    *)
THEOREM ExposureIsAccounted == Spec => []ExposureAccounted
<1>1. Init => ExposureAccounted
  <2> SUFFICES ASSUME Init PROVE ExposureAccounted
    OBVIOUS
  <2>1. \A Q : Among(accepted, Q) = {}
    BY DEF Init, Among
  <2>2. accepted \in Seq(LiveOrder)
    BY DEF Init
  <2>3. \A Q : TotalNotional(accepted, Among(accepted, Q)) = 0
    BY <2>1, TotalOfNone
  <2> QED
    BY <2>2, <2>3, AccountedByKind DEF Init, NewLiveRouter
<1>2. IInv /\ IInv' /\ ExposureAccounted /\ [Next]_vars => ExposureAccounted'
  <2> SUFFICES ASSUME IInv, IInv', ExposureAccounted, [Next]_vars PROVE ExposureAccounted'
    OBVIOUS
  <2>1. CASE \E t \in Threads : SubmitCommit(t)
    BY <2>1, CommitAccounted
  <2>2. CASE \E t \in Threads, pnl \in PnLs : RecordPnL(t, pnl)
    <3>1. /\ router'.exposure = router.exposure /\ router'.clusterExposure = router.clusterExposure
          /\ accepted' = accepted
      BY <2>2 DEF RecordPnL, IInv, TypeOK, Router
    <3> QED
      BY <3>1 DEF ExposureAccounted, MarketTotal, ClusterTotal
  <2>3. CASE UNCHANGED <<router, accepted>>
    BY <2>3 DEF ExposureAccounted, MarketTotal, ClusterTotal
  <2> QED
    BY <2>1, <2>2, <2>3
       DEF Next, SubmitLock, SubmitStep, SubmitKilled, SubmitAlive, SubmitRefuse, SubmitAdmit,
           RecordPnLTrigger, OperatorTrigger, OperatorReset, history, vars
<1> QED
  BY <1>1, <1>2, Inductive, PTL DEF Spec

(* No configuration of caps, markets and clusters and no interleaving of   *)
(* Submit with Submit, RecordPnL or the kill switch lets the orders that   *)
(* are accepted on a market or in a cluster be worth more than its cap:    *)
(* what is stored is within the caps and counts every accepted order.      *)
THEOREM CapsNeverExceeded == Spec => []CapsHold
<1>1. StoredWithinCaps /\ ExposureAccounted => CapsHold
  BY DEF StoredWithinCaps, ExposureAccounted, CapsHold
<1>2. IInv => StoredWithinCaps
  BY DEF IInv, Safety
<1> QED
  BY <1>1, <1>2, Inductive, ExposureIsAccounted, PTL
=============================================================================
