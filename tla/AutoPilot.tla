------------------------------ MODULE AutoPilot ------------------------------
(***************************************************************************)
(* The autopilot worker (internal/runtime/autopilot.go): one goroutine     *)
(* that turns market updates into signals, signals into orders, and keeps  *)
(* asking the exchange what became of those orders; run with AutoExecute,  *)
(* a trader that can read order statuses and a Postgres store.             *)
(*                                                                         *)
(* One step of the worker ends with one call that leaves the process: a    *)
(* write or query of the database, PostOrder, GetOrder, a wait.  Between   *)
(* two of them the process can be killed, or its context be cancelled by   *)
(* SIGTERM.  Every error that Run returns ends the process (log.Fatalf in  *)
(* cmd/worker/main.go) and docker-compose starts a new one, which has the  *)
(* database but not the router's memory.                                   *)
(*                                                                         *)
(* Telemetry, ops alerts and Telegram notifications change nothing that    *)
(* the worker reads again in these steps and their errors are ignored;     *)
(* they are left out here.                                                 *)
(***************************************************************************)
EXTENDS RiskGate, OrderLedger

CONSTANTS
  Signals,               \* the signals the strategy emits
  OrderFor,              \* the LiveOrder the OrderBuilder makes of a signal
  PostStatuses,          \* the status texts PostOrder answers on success
  ReconcileMaxAttempts,
  ReconcileSweepLimit,
  MaxFaults              \* bound: crashes, cancellations and failing writes

(* One order id per signal is enough: a signal is executed at most once.   *)
(* An order the exchange accepts rests there, or is matched at once: no    *)
(* other terminal status comes with success=true.                          *)
ASSUME AutoPilotAssumption ==
  /\ Orders = Signals
  /\ OrderFor \in [Signals -> LiveOrder]
  /\ PostStatuses \subseteq Status
  /\ \A status \in PostStatuses : IsTerminal(status) => status.word = "matched"
  /\ ReconcileMaxAttempts \in Nat \ {0}
  /\ ReconcileSweepLimit \in Int
  /\ MaxFaults \in Nat

VARIABLES
  \* the exchange
  exchange,    \* per order: "none", "live", "matched", "canceled", "refused"
  \* the database
  signalRows,  \* signals in table signals
  unnamed,     \* per signal: its row of order_attempts without an order id
  ledger,      \* the rows of order_attempts with one
  \* the process
  pc,          \* where the worker is
  cancelled,   \* its context
  router,      \* the memory of its LiveRouter
  task,        \* the locals of executeSignal and reconcileOrder
  sweep,       \* rows of the current scan still to be reconciled
  \* bookkeeping
  arrived,     \* signals the strategy has emitted
  posted,      \* signals this process has sent to the exchange
  rows,        \* rows written by the current reconcileOrder
  faults       \* faults so far

tables  == <<signalRows, unnamed, ledger>>
process == <<cancelled, router, task, sweep>>
tally   == <<arrived, posted, rows, faults>>
vars    == <<exchange, tables, pc, process, tally>>

Closed == {"matched", "canceled", "refused"}
NoEntries == [o \in {} |-> NoRow]
Task == [signal : Signals \cup {""}, named : BOOLEAN, status : Status, seen : Status,
         attempt : 0 .. ReconcileMaxAttempts - 1]
NoTask == [signal |-> "", named |-> FALSE, status |-> Spelled(""),
           seen |-> Spelled(""), attempt |-> 0]

Init ==
  /\ exchange = [o \in Orders |-> "none"]
  /\ signalRows = {}
  /\ unnamed = [s \in Signals |-> NoRow]
  /\ ledger = EmptyLedger
  /\ pc = "select"
  /\ cancelled = FALSE
  /\ router = NewLiveRouter
  /\ task = NoTask
  /\ sweep = NoEntries
  /\ arrived = {}
  /\ posted = {}
  /\ rows = 0
  /\ faults = 0

Running == pc \notin {"down", "stopped"}

At(place) == pc = place
GoTo(place) == pc' = place

(* Run returns: the process is gone and with it everything in memory.      *)
Leave(place) ==
  /\ GoTo(place)
  /\ task' = NoTask
  /\ sweep' = NoEntries
  /\ UNCHANGED <<cancelled, router>>

Fault == faults < MaxFaults /\ faults' = faults + 1

-----------------------------------------------------------------------------
(* Mutant: a signal is executed without having been saved. *)
HandleUpdateUnsaved(s) ==
  /\ At("select")
  /\ s \notin arrived
  /\ arrived' = arrived \cup {s}
  /\ task' = [NoTask EXCEPT !.signal = s]
  /\ GoTo("submit")
  /\ UNCHANGED <<exchange, tables, cancelled, router, sweep, posted, rows, faults>>

(* handleUpdate: the raw event is written and the strategy emits a signal. *)
HandleUpdate(s) ==
  /\ At("select")
  /\ s \notin arrived
  /\ arrived' = arrived \cup {s}
  /\ task' = [NoTask EXCEPT !.signal = s]
  /\ GoTo("save_signal")
  /\ UNCHANGED <<exchange, tables, cancelled, router, sweep, posted, rows, faults>>

(* Store.Write fails before the strategy has seen the update. *)
WriteRawFails ==
  /\ At("select")
  /\ Fault
  /\ Leave("down")
  /\ UNCHANGED <<exchange, tables, arrived, posted, rows>>

(* executeSignal: the builder's error ends the worker ... *)
BuildFails ==
  /\ At("submit")
  /\ Fault
  /\ Leave("down")
  /\ UNCHANGED <<exchange, tables, arrived, posted, rows>>

(* ... otherwise the router decides; the age of the data is passed as 0.   *)
SubmitAccepts ==
  /\ At("submit")
  /\ LET o == OrderFor[task.signal]
     IN  /\ Admits(router, o, 0)
         /\ router' = Commit(router, o, NextExposure(router, o),
                             NextClusterExposure(router, o))
  /\ GoTo("post")
  /\ UNCHANGED <<exchange, tables, cancelled, task, sweep, tally>>

SubmitBlocks ==
  /\ At("submit")
  /\ ~Admits(router, OrderFor[task.signal], 0)
  /\ GoTo("save_blocked")
  /\ UNCHANGED <<exchange, tables, process, tally>>

(* PostOrder: what the exchange does and what the worker makes of the      *)
(* answer.  `status' is the one of lines 295-305.                          *)
Post(outcome, named, status) ==
  /\ At("post")
  /\ exchange' = [exchange EXCEPT ![task.signal] = outcome]
  /\ posted' = posted \cup {task.signal}
  /\ task' = [task EXCEPT !.named = named, !.status = status]
  /\ GoTo("save_order")
  /\ UNCHANGED <<tables, cancelled, router, sweep, arrived, rows, faults>>

PostSucceeds(status) ==
  /\ ~cancelled
  /\ Post(IF status.word = "matched" THEN "matched" ELSE "live", TRUE,
          IF status.word = "" THEN Spelled("submitted") ELSE status)

(* success=false, with or without an order id in the answer. *)
PostRefused(named) ==
  /\ ~cancelled
  /\ Post("refused", named, Spelled("failed"))

(* Mutant: an error of PostOrder gives the booked exposure back. *)
PostAnswerRollsBack ==
  LET o == OrderFor[task.signal]
  IN  /\ At("post") /\ ~cancelled
      /\ exchange' = [exchange EXCEPT ![task.signal] = "live"]
      /\ posted' = posted \cup {task.signal}
      /\ task' = [task EXCEPT !.status = Spelled("failed")]
      /\ router' = [router EXCEPT !.exposure[o.market] = @ - o.notional]
      /\ GoTo("save_order")
      /\ UNCHANGED <<tables, cancelled, sweep, arrived, rows, faults>>

(* The exchange takes the order but the answer does not arrive, is not     *)
(* 2xx or cannot be decoded: the worker has an error and no order id.      *)
PostAnswerLost ==
  /\ ~cancelled
  /\ Post("live", FALSE, Spelled("failed"))

PostNotSent == Post("none", FALSE, Spelled("failed"))

-----------------------------------------------------------------------------
(* The row each place of the worker writes. *)
WriteRow ==
  LET o == task.signal
      Attempt(status) == /\ ledger' = InsertRow(ledger, o, status)
                         /\ UNCHANGED <<signalRows, unnamed>>
      Unnamed(status) == /\ unnamed' = [unnamed EXCEPT ![o] = status]
                         /\ UNCHANGED <<signalRows, ledger>>
  IN  \/ At("save_signal") /\ signalRows' = signalRows \cup {o} /\ UNCHANGED <<unnamed, ledger>>
      \/ At("save_blocked") /\ Unnamed(Spelled("blocked"))
      \/ At("save_order") /\ task.named /\ Attempt(task.status)
      \/ At("save_order") /\ ~task.named /\ Unnamed(task.status)
      \/ At("save_status") /\ Attempt(task.seen)
      \/ At("save_error") /\ Attempt(Spelled("reconcile_error"))
      \/ At("save_pending") /\ Attempt(Spelled("reconcile_pending"))

Saving == pc \in {"save_signal", "save_blocked", "save_order", "save_status",
                  "save_error", "save_pending"}

(* A write fails, and the row may be in the table all the same: the error  *)
(* can be that of the connection after the commit.  The worker ends.       *)
SaveFails ==
  /\ Saving
  /\ Fault
  /\ WriteRow \/ UNCHANGED tables
  /\ Leave("down")
  /\ UNCHANGED <<exchange, arrived, posted, rows>>

SaveSignal ==
  /\ At("save_signal")
  /\ WriteRow
  /\ GoTo("submit")
  /\ UNCHANGED <<exchange, process, tally>>

SaveBlocked ==
  /\ At("save_blocked")
  /\ WriteRow
  /\ GoTo("select")
  /\ task' = NoTask
  /\ UNCHANGED <<exchange, cancelled, router, sweep, tally>>

(* Mutant: the terminal check takes the status as it is spelled. *)
ReconcileRaw(o, named, status) ==
  IF ~named \/ SqlTerminal(status)
  THEN task' = NoTask /\ GoTo("next") /\ UNCHANGED rows
  ELSE /\ task' = [NoTask EXCEPT !.signal = o, !.named = TRUE,
                                !.status = Normalize(status)]
       /\ GoTo("get")
       /\ rows' = 0

(* reconcileOrder up to its loop: nothing to do without an order id or     *)
(* with a terminal status.                                                 *)
Reconcile(o, named, status) ==
  IF ~named \/ IsTerminal(status)
  THEN task' = NoTask /\ GoTo("next") /\ UNCHANGED rows
  ELSE /\ task' = [NoTask EXCEPT !.signal = o, !.named = TRUE,
                                !.status = Normalize(status)]
       /\ GoTo("get")
       /\ rows' = 0

SaveOrder ==
  /\ At("save_order")
  /\ WriteRow
  /\ Reconcile(task.signal, task.named, task.status)
  /\ UNCHANGED <<exchange, cancelled, router, sweep, arrived, posted, faults>>

(* Mutant: one attempt too many. *)
PastLastAttempt == task.attempt = ReconcileMaxAttempts

LastAttempt == task.attempt = ReconcileMaxAttempts - 1

(* The rest of an attempt that has brought a status. *)
AfterStatus(status) ==
  GoTo(IF IsTerminal(status) THEN "next"
       ELSE IF LastAttempt THEN "save_pending" ELSE "wait")

(* What the exchange may answer for an order: its state, or no status.     *)
Reported(o) == {Spelled(exchange[o]), Spelled("unknown")}

Answers(o, status) ==
  /\ At("get") /\ task.signal = o
  /\ ~cancelled
  /\ IF status = task.status
       THEN AfterStatus(status) /\ UNCHANGED task
       ELSE GoTo("save_status") /\ task' = [task EXCEPT !.seen = status]
  /\ UNCHANGED <<exchange, tables, cancelled, router, sweep, tally>>

GetAnswers(o) == \E status \in Reported(o) : Answers(o, status)

SaveStatus ==
  /\ At("save_status")
  /\ WriteRow
  /\ task' = [task EXCEPT !.status = task.seen]
  /\ AfterStatus(task.seen)
  /\ rows' = rows + 1
  /\ UNCHANGED <<exchange, cancelled, router, sweep, arrived, posted, faults>>

(* 425, 429 or 5xx is retried while attempts are left. *)
GetFailsRetryably ==
  /\ At("get")
  /\ ~cancelled
  /\ GoTo(IF LastAttempt THEN "save_error" ELSE "wait")
  /\ UNCHANGED <<exchange, tables, process, tally>>

(* Any other error is not, that of a cancelled context among them. *)
GetFails ==
  /\ At("get")
  /\ GoTo("save_error")
  /\ UNCHANGED <<exchange, tables, process, tally>>

SaveVerdict ==
  /\ At("save_error") \/ At("save_pending")
  /\ WriteRow
  /\ GoTo("next")
  /\ rows' = rows + 1
  /\ UNCHANGED <<exchange, process, arrived, posted, faults>>

(* Mutant: an attempt that waits is not counted. *)
WaitUncounted ==
  /\ At("wait")
  /\ GoTo("get")
  /\ UNCHANGED <<exchange, tables, process, tally>>

(* waitWithContext: the timer fires, or the context is done. *)
WaitElapses ==
  /\ At("wait")
  /\ task' = [task EXCEPT !.attempt = @ + 1]
  /\ GoTo("get")
  /\ UNCHANGED <<exchange, tables, cancelled, router, sweep, tally>>

WaitCancelled ==
  /\ At("wait")
  /\ cancelled
  /\ GoTo("next")
  /\ UNCHANGED <<exchange, tables, process, tally>>

-----------------------------------------------------------------------------
(* reconcilePendingOrders: the ticker fires and the scan succeeds (one     *)
(* that fails is reported and changes nothing).                            *)
SweepTick ==
  /\ At("select")
  /\ sweep' = PendingOrders(ledger, ReconcileSweepLimit)
  /\ GoTo("next")
  /\ UNCHANGED <<exchange, tables, cancelled, router, task, tally>>

(* The loop over the scanned rows, newest first, and back to the select.   *)
NextEntry ==
  /\ At("next")
  /\ DOMAIN sweep # {}
  /\ LET o == Newest(ledger, DOMAIN sweep)
     IN  /\ Reconcile(o, TRUE, sweep[o])
         /\ sweep' = [p \in DOMAIN sweep \ {o} |-> sweep[p]]
  /\ UNCHANGED <<exchange, tables, cancelled, router, arrived, posted, faults>>

SweepEnds ==
  /\ At("next")
  /\ DOMAIN sweep = {}
  /\ task' = NoTask
  /\ GoTo("select")
  /\ UNCHANGED <<exchange, tables, cancelled, router, sweep, tally>>

(* Run sees the cancelled context and returns nil. *)
Stop ==
  /\ At("select")
  /\ cancelled
  /\ Leave("stopped")
  /\ UNCHANGED <<exchange, tables, tally>>

-----------------------------------------------------------------------------
(* A resting order is filled or cancelled on the exchange at any time. *)
ExchangeCloses(o) ==
  /\ exchange[o] = "live"
  /\ \E outcome \in {"matched", "canceled"} :
       exchange' = [exchange EXCEPT ![o] = outcome]
  /\ UNCHANGED <<tables, pc, process, tally>>

Cancel ==
  /\ Running /\ ~cancelled
  /\ Fault
  /\ cancelled' = TRUE
  /\ UNCHANGED <<exchange, tables, pc, router, task, sweep, arrived, posted, rows>>

Crash ==
  /\ Running
  /\ Fault
  /\ Leave("down")
  /\ UNCHANGED <<exchange, tables, arrived, posted, rows>>

(* A new process: docker-compose after a failure, an operator after SIGTERM. *)
Restart ==
  /\ ~Running
  /\ GoTo("select")
  /\ router' = NewLiveRouter
  /\ cancelled' = FALSE
  /\ posted' = {}
  /\ UNCHANGED <<exchange, tables, task, sweep, arrived, rows, faults>>

Worker ==
  \/ SaveSignal \/ SubmitAccepts \/ SubmitBlocks \/ SaveBlocked
  \/ \E status \in PostStatuses : PostSucceeds(status)
  \/ \E named \in BOOLEAN : PostRefused(named)
  \/ PostAnswerLost \/ PostNotSent \/ SaveOrder
  \/ \E o \in Orders : GetAnswers(o)
  \/ GetFailsRetryably \/ GetFails \/ SaveStatus \/ SaveVerdict
  \/ WaitElapses \/ WaitCancelled \/ NextEntry \/ SweepEnds \/ Stop

Failure == WriteRawFails \/ BuildFails \/ SaveFails \/ Cancel \/ Crash

Next ==
  \/ \E s \in Signals : HandleUpdate(s)
  \/ Worker
  \/ SweepTick
  \/ \E o \in Orders : ExchangeCloses(o)
  \/ Failure
  \/ Restart

Spec == Init /\ [][Next]_vars

(* The goroutine runs and its calls return; the ticker's channel (and that *)
(* of a cancelled context) is ready again and again and Go's select picks  *)
(* among ready channels at random;                                         *)
(* a failed process is started again; the exchange does not answer every   *)
(* GetOrder of an order with an error or without a status.                 *)
Fairness ==
  /\ WF_vars(Worker)
  /\ SF_vars(SweepTick) /\ SF_vars(Stop)
  /\ WF_vars(Restart)
  /\ \A o \in Orders : SF_vars(Answers(o, Spelled(exchange[o])))

FairSpec == Spec /\ Fairness

-----------------------------------------------------------------------------
(* Type correctness of every variable. *)
TypeOK ==
  /\ exchange \in [Orders -> {"none", "live"} \cup Closed]
  /\ signalRows \subseteq Signals
  /\ unnamed \in [Signals -> Status \cup {NoRow}]
  /\ ledger \in Ledger
  /\ pc \in {"select", "save_signal", "submit", "post", "get", "wait", "next", "down", "stopped",
             "save_blocked", "save_order", "save_status", "save_error", "save_pending"}
  /\ cancelled \in BOOLEAN
  /\ router \in Router
  /\ task \in Task
  /\ DOMAIN sweep \subseteq Orders /\ \A o \in DOMAIN sweep : sweep[o] \in Status
  /\ arrived \subseteq Signals /\ posted \subseteq Signals
  /\ rows \in Nat /\ faults \in 0 .. MaxFaults

Placed(o) == exchange[o] \notin {"none", "refused"}

(* The worker holds the order id and has not written it down yet. *)
InFlight(o) == At("save_order") /\ task.named /\ task.signal = o

(* The ledger and the exchange as a reader of both would describe them. *)
Book == [o \in Orders |-> IF Placed(o) THEN exchange[o] ELSE "none"]

Known == [o \in Orders |->
  LET row == ledger.latest[o]
  IN  IF row = NoRow
      THEN IF Placed(o) /\ ~InFlight(o) THEN "lost" ELSE "none"
      ELSE IF IsTerminal(row) THEN row.word ELSE "open"]

Tracking == INSTANCE OrderTracking WITH book <- Book, known <- Known

(* Refinement, safety part: every step of the worker, its crashes and its  *)
(* restarts is a step the ledger's promise allows or changes nothing in    *)
(* it.  A closed order was closed on the exchange with the same outcome,   *)
(* is never reopened, and an order is lost only with its id in flight.     *)
TracksOrders == Tracking!Spec

(* Refinement with liveness: an order the ledger knows and the exchange    *)
(* has closed is closed in the ledger too, across crashes and errors, as   *)
(* long as a scan has room for every open order (lines 174-196, 338-425).  *)
LearnsOutcomes == Tracking!FairSpec

(* The audit trail is complete from its start: what reached the exchange   *)
(* or has a row in order_attempts has its signal's row, whichever write    *)
(* failed and wherever the process died (lines 239-246, 307-320).          *)
AuditTrail ==
  \A s \in Signals :
    exchange[s] # "none" \/ unnamed[s] # NoRow \/ ledger.latest[s] # NoRow
      => s \in signalRows

(* Within the life of a process, what it has sent to the exchange in a     *)
(* market, answered or not, never exceeds what the router has booked there *)
(* (Submit before PostOrder, lines 265 and 284).                           *)
ExposureCoversExchange ==
  \A m \in Markets :
    TotalNotional(OrderFor, {s \in posted : OrderFor[s].market = m /\ Placed(s)})
      <= router.exposure[m]

(* One reconciliation writes at most one row per attempt and one verdict:  *)
(* the ledger grows by a bounded number of rows per order and scan.        *)
RowsPerReconcile == rows <= ReconcileMaxAttempts + 1

(* The event loop always comes back to its select (or the process ends):   *)
(* no sequence of errors and statuses keeps it in a reconciliation.        *)
LoopReturns == At("get") ~> pc \in {"select", "down", "stopped"}

(* Runbook real-data-quickstart: the sweep is a "periodic re-scan for      *)
(* non-terminal orders" (line 105): it picks no order whose ledger status  *)
(* the worker itself takes for terminal.                                   *)
SweepPicksOpenOrders ==
  \A o \in DOMAIN sweep : ~IsTerminal(sweep[o])

(* Same line: every order in a non-terminal state is scanned again, so an  *)
(* outcome on the exchange arrives in the ledger.                          *)
OutcomesArrive ==
  \A o \in Orders : Known[o] = "open" /\ exchange[o] \in Closed ~> Known[o] # "open"

(* Same runbook, line 148: "Post-submit reconciliation backchecks order    *)
(* status": between two events no order that PostOrder placed is without a *)
(* ledger row to check it by.                                              *)
PlacedOrdersAreChecked ==
  At("select") => \A o \in Orders : Placed(o) => ledger.latest[o] # NoRow

(* Plan v3, "Per-market and per-cluster exposure caps" as mandatory        *)
(* controls: what the worker has placed in a market stays within the cap.  *)
PlacedWithinCap ==
  \A m \in Markets :
    ~Exceeds(TotalNotional(OrderFor, {s \in Signals : OrderFor[s].market = m /\ Placed(s)}),
             PerMarketExposureCap)
=============================================================================
