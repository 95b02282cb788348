----------------------------- MODULE LiveRouter -----------------------------
(***************************************************************************)
(* internal/execution/live_router.go with kill_switch.go: the gate every   *)
(* live order passes, called from any number of goroutines.  Submit holds  *)
(* LiveRouter.mu from its first line to its return; RecordPnL adds under   *)
(* mu but triggers the kill switch AFTER unlocking; the KillSwitch has its *)
(* own lock and is triggered and reset by an operator at any moment, also  *)
(* between Submit's look at it and Submit's acceptance of the order.       *)
(***************************************************************************)
EXTENDS RiskGate

CONSTANTS
  Threads,      \* goroutines that call the router
  LiveOrders,   \* the orders they submit
  Ages,         \* the dataAge arguments they pass
  PnLs,         \* the arguments of RecordPnL
  PnLRange,     \* bound: the running day PnL stays in this set
  Reasons,      \* the reasons an operator triggers the kill switch with
  Nobody        \* the owner of mu when it is unlocked

ASSUME LiveRouterAssumption ==
  /\ LiveOrders \subseteq LiveOrder
  /\ Ages \subseteq Nat
  /\ PnLs \subseteq Int /\ PnLRange \subseteq Int
  /\ Nobody \notin Threads

VARIABLES
  router,     \* the fields of LiveRouter that mu protects
  kill,       \* KillSwitch: triggered and reason
  mu,         \* the thread that holds LiveRouter.mu, or Nobody
  pc,         \* where each thread is
  call,       \* the arguments and the local variables of its Submit
  reason,     \* what its last Submit returned: "" is acceptance
  \* History, read by the properties only:
  accepted,   \* the accepted orders, in order
  leaked,     \* acceptances since Reset with the kill switch triggered
  breached    \* some RecordPnL saw the loss cap exceeded since Reset

vars == <<router, kill, mu, pc, call, reason, accepted, leaked, breached>>
history == <<accepted, leaked, breached>>

NoCall == [order |-> NoOrder, age |-> 0, nextExposure |-> 0, nextClusterExposure |-> 0]
NotReturned == "none"
KillReasons == Reasons \cup {Empty, "daily_loss_cap"}

Init ==
  /\ router = NewLiveRouter
  /\ kill = [triggered |-> FALSE, reason |-> Empty]
  /\ mu = Nobody
  /\ pc = [t \in Threads |-> "idle"]
  /\ call = [t \in Threads |-> NoCall]
  /\ reason = [t \in Threads |-> NotReturned]
  /\ accepted = <<>>
  /\ leaked = 0
  /\ breached = FALSE

(* Mutant: Submit does not take mu, so that Submits overlap. *)
SubmitUnlocked(t, o, age) ==
  /\ pc[t] = "idle"
  /\ pc' = [pc EXCEPT ![t] = "kill_check"]
  /\ call' = [call EXCEPT ![t] = [NoCall EXCEPT !.order = o, !.age = age]]
  /\ reason' = [reason EXCEPT ![t] = NotReturned]
  /\ UNCHANGED <<router, kill, mu, history>>

(* Submit, first line: take mu. *)
SubmitLock(t, o, age) ==
  /\ pc[t] = "idle"
  /\ mu = Nobody
  /\ mu' = t
  /\ pc' = [pc EXCEPT ![t] = "kill_check"]
  /\ call' = [call EXCEPT ![t] = [NoCall EXCEPT !.order = o, !.age = age]]
  /\ reason' = [reason EXCEPT ![t] = NotReturned]
  /\ UNCHANGED <<router, kill, history>>

(* Every return path of Submit runs the deferred Unlock. *)
Return(t, r) ==
  /\ mu' = Nobody
  /\ pc' = [pc EXCEPT ![t] = "idle"]
  /\ call' = [call EXCEPT ![t] = NoCall]
  /\ reason' = [reason EXCEPT ![t] = r]

(* kill.Active() says triggered: refuse with its reason. *)
SubmitKilled(t) ==
  /\ pc[t] = "kill_check"
  /\ kill.triggered
  /\ Return(t, IF kill.reason = Empty THEN "kill_switch" ELSE kill.reason)
  /\ UNCHANGED <<router, kill, history>>

SubmitAlive(t) ==
  /\ pc[t] = "kill_check"
  /\ ~kill.triggered
  /\ pc' = [pc EXCEPT ![t] = "decide"]
  /\ UNCHANGED <<router, kill, mu, call, reason, history>>

SubmitRefuse(t) ==
  /\ pc[t] = "decide"
  /\ ~Admits(router, call[t].order, call[t].age)
  /\ Return(t, Refusal(router, call[t].order, call[t].age))
  /\ UNCHANGED <<router, kill, history>>

(* All checks pass; the two sums are now in local variables. *)
SubmitAdmit(t) ==
  /\ pc[t] = "decide"
  /\ Admits(router, call[t].order, call[t].age)
  /\ pc' = [pc EXCEPT ![t] = "commit"]
  /\ call' = [call EXCEPT
       ![t].nextExposure = NextExposure(router, call[t].order),
       ![t].nextClusterExposure = NextClusterExposure(router, call[t].order)]
  /\ UNCHANGED <<router, kill, mu, reason, history>>

SubmitCommit(t) ==
  /\ pc[t] = "commit"
  /\ router' = Commit(router, call[t].order, call[t].nextExposure,
                      call[t].nextClusterExposure)
  /\ Return(t, Empty)
  /\ accepted' = Append(accepted, call[t].order)
  /\ leaked' = IF kill.triggered THEN leaked + 1 ELSE leaked
  /\ UNCHANGED <<kill, breached>>

(* Mutant: RecordPnL does not take mu. *)
RecordPnLUnlocked(t, pnl) ==
  /\ pc[t] = "idle"
  /\ router.dayPnL + pnl \in PnLRange
  /\ router' = [router EXCEPT !.dayPnL = @ + pnl]
  /\ IF LossCapExceeded(router')
       THEN /\ pc' = [pc EXCEPT ![t] = "trigger"]
            /\ breached' = TRUE
       ELSE UNCHANGED <<pc, breached>>
  /\ UNCHANGED <<kill, mu, call, reason, accepted, leaked>>

(* RecordPnL up to its Unlock; `exceeded' is decided inside the lock. *)
RecordPnL(t, pnl) ==
  /\ pc[t] = "idle"
  /\ mu = Nobody
  /\ router.dayPnL + pnl \in PnLRange
  /\ router' = [router EXCEPT !.dayPnL = @ + pnl]
  /\ IF LossCapExceeded(router')
       THEN /\ pc' = [pc EXCEPT ![t] = "trigger"]
            /\ breached' = TRUE
       ELSE UNCHANGED <<pc, breached>>
  /\ UNCHANGED <<kill, mu, call, reason, accepted, leaked>>

Trigger(r) == kill' = [triggered |-> TRUE, reason |-> r]

(* Mutant: after Unlock the PnL is read once more to decide the trigger.   *)
RecordPnLRechecks(t) ==
  /\ pc[t] = "trigger"
  /\ IF LossCapExceeded(router) THEN Trigger("daily_loss_cap") ELSE UNCHANGED kill
  /\ pc' = [pc EXCEPT ![t] = "idle"]
  /\ UNCHANGED <<router, mu, call, reason, history>>

(* RecordPnL after its Unlock. *)
RecordPnLTrigger(t) ==
  /\ pc[t] = "trigger"
  /\ Trigger("daily_loss_cap")
  /\ pc' = [pc EXCEPT ![t] = "idle"]
  /\ UNCHANGED <<router, mu, call, reason, history>>

(* KillSwitch.Trigger and KillSwitch.Reset, called by an operator. *)
OperatorTrigger(r) ==
  /\ Trigger(r)
  /\ UNCHANGED <<router, mu, pc, call, reason, history>>

OperatorReset ==
  /\ kill' = [triggered |-> FALSE, reason |-> Empty]
  /\ leaked' = 0
  /\ breached' = FALSE
  /\ UNCHANGED <<router, mu, pc, call, reason, accepted>>

SubmitStep(t) ==
  \/ SubmitKilled(t) \/ SubmitAlive(t) \/ SubmitRefuse(t)
  \/ SubmitAdmit(t)  \/ SubmitCommit(t)

Next ==
  \/ \E t \in Threads :
       \/ \E o \in LiveOrders, age \in Ages : SubmitLock(t, o, age)
       \/ SubmitStep(t)
       \/ \E pnl \in PnLs : RecordPnL(t, pnl)
       \/ RecordPnLTrigger(t)
  \/ \E r \in Reasons : OperatorTrigger(r)
  \/ OperatorReset

Spec == Init /\ [][Next]_vars

-----------------------------------------------------------------------------
InSubmit == {"kill_check", "decide", "commit"}

(* Type correctness of every variable. *)
TypeOK ==
  /\ router \in Router
  /\ kill \in [triggered : BOOLEAN, reason : KillReasons]
  /\ mu \in Threads \cup {Nobody}
  /\ pc \in [Threads -> {"idle", "trigger"} \cup InSubmit]
  /\ call \in [Threads -> [order : LiveOrder, age : Nat, nextExposure : Int,
                           nextClusterExposure : Int]]
  /\ reason \in [Threads -> {NotReturned, "kill_switch"} \cup KillReasons \cup RefusalReasons]
  /\ accepted \in Seq(LiveOrder)
  /\ leaked \in Nat
  /\ breached \in BOOLEAN

(* What the accepted orders of a market, or of a cluster, are worth.       *)
MarketTotal(m) ==
  TotalNotional(accepted, {i \in DOMAIN accepted : accepted[i].market = m})

ClusterTotal(c) ==
  TotalNotional(accepted, {i \in DOMAIN accepted : ClusterOf(accepted[i].market) = c})

(* The orders accepted on a market or in a cluster are never worth more    *)
(* together than its cap, whatever Submits overlap: the sum Submit         *)
(* compared with the cap (lines 87-99) still counts every acceptance when  *)
(* it is stored (lines 101-102).                                           *)
CapsHold ==
  /\ \A m \in Markets : ~Exceeds(MarketTotal(m), PerMarketExposureCap)
  /\ \A c \in ClusterNames : ~ClusterCapExceeded(c, ClusterTotal(c))

(* The two exposure maps are the sums of the orders accepted so far: no    *)
(* acceptance is lost, counted twice or booked on another cluster.         *)
ExposureAccounted ==
  /\ \A m \in Markets : router.exposure[m] = MarketTotal(m)
  /\ \A c \in ClusterNames : router.clusterExposure[c] = ClusterTotal(c)

(* An order key is accepted at most once, also when two goroutines retry   *)
(* the same order at the same time (lines 83-85 and 103).                  *)
AcceptedOnce ==
  \A i, j \in DOMAIN accepted : accepted[i].key = accepted[j].key => i = j

(* A triggered kill switch can still let ONE order through, the one whose  *)
(* Submit had already looked at it, and never a second one before Reset:   *)
(* Submit looks at the switch after it has taken mu (lines 51-59).         *)
AtMostOneLeak == leaked <= 1

(* No order is accepted while the day's loss is over the cap, not even     *)
(* when the loss is recorded while that order is being decided and not     *)
(* even after an operator's Reset (lines 60-62, 108-111).                  *)
NoAcceptUnderLossCap ==
  [][accepted' # accepted => ~LossCapExceeded(router)]_vars

(* A breach of the loss cap latches: until an operator resets it, the kill *)
(* switch is triggered or the goroutine that saw the breach is about to    *)
(* trigger it, even if the PnL has recovered meanwhile (lines 107-116).    *)
LossLatched ==
  breached => kill.triggered \/ \E t \in Threads : pc[t] = "trigger"

=============================================================================
