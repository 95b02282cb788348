--------------------------- MODULE AutoPilotProofs ---------------------------
(***************************************************************************)
(* Proofs about AutoPilot, for any signals, orders, caps, statuses, scan   *)
(* limits and numbers of attempts and faults: types, the audit trail, the  *)
(* bound on the rows of a reconciliation, and that every step is one that  *)
(* OrderTracking allows.                                                   *)
(***************************************************************************)
EXTENDS AutoPilot, RiskGateProofs

(* Where the worker has a signal, where it has not sent its order yet, and *)
(* where it asks the exchange about one.                                   *)
Before == {"save_signal", "submit", "post", "save_blocked"}
Asking == {"get", "wait", "save_status", "save_error", "save_pending"}
Holding == Before \cup Asking \cup {"save_order"}

-----------------------------------------------------------------------------
(* The inductive invariant, beside TypeOK and AuditTrail.                  *)

(* A status that may be written of an order: a terminal one is what became *)
(* of it, any other one says that the exchange has taken it.               *)
Agrees(o, status) ==
  IF IsTerminal(status)
  THEN \/ status.word = exchange[o] /\ exchange[o] \in {"matched", "canceled"}
       \/ status.word = "failed" /\ exchange[o] = "refused"
  ELSE Placed(o)

LedgerAgrees ==
  \A o \in Orders : ledger.latest[o] # NoRow => Agrees(o, ledger.latest[o])

(* A signal that has not arrived has left no trace.                        *)
Untouched(s) == exchange[s] = "none" /\ ledger.latest[s] = NoRow

ArrivedFirst ==
  /\ \A s \in Signals \ arrived : Untouched(s)
  /\ pc \in Holding => task.signal \in arrived

(* The order of the present task: not sent yet, sent and not recorded, or  *)
(* recorded as open.                                                       *)
TaskInStep ==
  /\ pc \in Before => Untouched(task.signal)
  /\ At("save_order") => /\ ledger.latest[task.signal] = NoRow
                         /\ task.named => Agrees(task.signal, task.status)
  /\ pc \in Asking => /\ ledger.latest[task.signal] # NoRow
                      /\ ~IsTerminal(ledger.latest[task.signal])
  /\ At("save_status") => Agrees(task.signal, task.seen)

TaskSaved ==
  pc \in Holding \ {"save_signal"} => task.signal \in signalRows

(* The rows of a scan are still the newest ones of their orders.           *)
SweepIsCurrent ==
  /\ \A o \in DOMAIN sweep : ledger.latest[o] # NoRow /\ sweep[o] = ledger.latest[o]
  /\ pc \notin Asking \cup {"next"} => DOMAIN sweep = {}
  /\ pc \in Asking => task.signal \notin DOMAIN sweep

(* Any recorded orders have a newest one, so a scan can list them.         *)
HasNewest(S) == \E o \in S : \A p \in S : <<p, o>> \notin ledger.newer

NewestExists == \A S \in SUBSET Recorded(ledger) : S # {} => HasNewest(S)

(* An attempt writes at most one row, and only an attempt before the last  *)
(* one is waited for.                                                      *)
RowBudget ==
  /\ RowsPerReconcile
  /\ pc \in {"get", "save_status"} => rows <= task.attempt
  /\ pc \in {"wait", "save_error", "save_pending"} => rows <= task.attempt + 1
  /\ At("wait") => task.attempt < ReconcileMaxAttempts - 1

IInv ==
  /\ TypeOK /\ AuditTrail
  /\ LedgerAgrees /\ ArrivedFirst /\ TaskInStep /\ TaskSaved
  /\ SweepIsCurrent /\ NewestExists /\ RowBudget

-----------------------------------------------------------------------------
USE AutoPilotAssumption

(* The words the worker writes itself are statuses; an empty task is one.  *)
LEMMA SpelledType ==
  /\ \A word \in TerminalWords \cup OpenWords \cup {""} : Spelled(word) \in Status
  /\ \A word \in {"failed", "blocked", "reconcile_error", "reconcile_pending", "submitted", "",
                  "live", "matched", "canceled", "unknown"} : Spelled(word) \in Status
BY DEF Spelled, Status, TerminalWords, OpenWords

LEMMA NoTaskType == NoTask \in Task
<1>1. Spelled("") \in Status
  BY SpelledType
<1>2. 0 \in 0 .. ReconcileMaxAttempts - 1
  OBVIOUS
<1> QED
  BY <1>1, <1>2 DEF NoTask, Task

(* A status is not the mark of a missing row. *)
LEMMA StatusIsRow ==
  ASSUME NEW status \in Status
  PROVE  status # NoRow
<1>1. status.word \in TerminalWords \cup OpenWords \cup {""}
  BY DEF Status
<1>2. status.word # "no_row"
  BY <1>1 DEF TerminalWords, OpenWords
<1> QED
  BY <1>2 DEF NoRow

(* SaveOrder replaces the newest row of one order and puts it before the   *)
(* rows of all others.                                                     *)
LEMMA InsertRowFacts ==
  ASSUME NEW l \in Ledger, NEW o \in Orders, NEW status \in Status
  PROVE  /\ InsertRow(l, o, status) \in Ledger
         /\ \A p \in Orders :
              InsertRow(l, o, status).latest[p] = IF p = o THEN status ELSE l.latest[p]
         /\ \A p, q \in Orders : <<p, q>> \in InsertRow(l, o, status).newer =>
              \/ p = o /\ q # o
              \/ p # o /\ q # o /\ <<p, q>> \in l.newer
BY DEF InsertRow, Ledger, Recorded

(* With the new row there is still a newest one among any recorded orders: *)
(* the new one, if it is among them.                                       *)
LEMMA InsertKeepsNewest ==
  ASSUME TypeOK, NewestExists, NEW o \in Orders, NEW status \in Status,
         ledger' = InsertRow(ledger, o, status)
  PROVE  NewestExists'
<1> USE DEF HasNewest
<1>1. ledger \in Ledger
  BY DEF TypeOK
<1>2. \A p, q \in Orders : <<p, q>> \in ledger'.newer =>
        (p = o /\ q # o) \/ (p # o /\ q # o /\ <<p, q>> \in ledger.newer)
  BY <1>1, InsertRowFacts
<1>3. Recorded(ledger') \subseteq Recorded(ledger) \cup {o}
  BY <1>1, InsertRowFacts DEF Recorded
<1> SUFFICES ASSUME NEW S \in SUBSET Recorded(ledger'), S # {}
             PROVE  HasNewest(S)'
  BY DEF NewestExists
<1>4. S \subseteq Orders
  BY DEF Recorded
<1>5. CASE o \in S
  BY <1>2, <1>4, <1>5
<1>6. CASE o \notin S
  <2>1. PICK p \in S : \A q \in S : <<q, p>> \notin ledger.newer
    BY <1>3, <1>6 DEF NewestExists
  <2> QED
    BY <1>2, <1>4, <2>1
<1> QED
  BY <1>5, <1>6

-----------------------------------------------------------------------------
(* What a row of the present task does to the tables.                      *)
LEMMA WriteRowEffect ==
  ASSUME IInv, WriteRow
  PROVE  /\ task.signal \in Signals
         /\ IF At("save_signal")
            THEN signalRows' = signalRows \cup {task.signal} /\ UNCHANGED <<unnamed, ledger>>
            ELSE signalRows' = signalRows /\ task.signal \in signalRows
         /\ unnamed' \in [Signals -> Status \cup {NoRow}]
         /\ \A s \in Signals \ {task.signal} : unnamed'[s] = unnamed[s]
         /\ \/ ledger' = ledger
            \/ \E status \in Status :
                 /\ ledger' = InsertRow(ledger, task.signal, status)
                 /\ Agrees(task.signal, status)
<1> USE DEF At
<1>1. pc \in Holding
  BY DEF WriteRow, Holding, Before, Asking
<1>2. task.signal \in arrived /\ task.signal \in Signals
  BY <1>1 DEF IInv, ArrivedFirst, TypeOK
<1>3. task \in Task /\ unnamed \in [Signals -> Status \cup {NoRow}]
  BY DEF IInv, TypeOK
<1>4. task.status \in Status /\ task.seen \in Status
  BY <1>3 DEF Task
<1>5. pc # "save_signal" => task.signal \in signalRows
  BY <1>1 DEF IInv, TaskSaved
<1>6. CASE At("save_signal")
  BY <1>2, <1>3, <1>6 DEF WriteRow
<1>7. CASE At("save_blocked") \/ (At("save_order") /\ ~task.named)
  <2>1. \E status \in Status : unnamed' = [unnamed EXCEPT ![task.signal] = status]
    BY <1>3, <1>4, <1>7, SpelledType DEF WriteRow
  <2> QED
    BY <1>2, <1>3, <1>5, <1>7, <2>1 DEF WriteRow
<1>8. CASE At("save_order") /\ task.named
  <2>1. Agrees(task.signal, task.status)
    BY <1>8 DEF IInv, TaskInStep
  <2> QED
    BY <1>2, <1>3, <1>4, <1>5, <1>8, <2>1 DEF WriteRow
<1>9. CASE At("save_status")
  <2>1. Agrees(task.signal, task.seen)
    BY <1>9 DEF IInv, TaskInStep
  <2> QED
    BY <1>2, <1>3, <1>4, <1>5, <1>9, <2>1 DEF WriteRow
<1>10. CASE At("save_error") \/ At("save_pending")
  <2>1. Placed(task.signal)
    BY <1>2, <1>10 DEF IInv, TaskInStep, Asking, LedgerAgrees, Agrees
  <2>2. /\ ~IsTerminal(Spelled("reconcile_error")) /\ ~IsTerminal(Spelled("reconcile_pending"))
        /\ Spelled("reconcile_error") \in Status /\ Spelled("reconcile_pending") \in Status
    BY SpelledType DEF IsTerminal, Spelled, TerminalWords
  <2> QED
    <3>1. Agrees(task.signal, Spelled("reconcile_error")) /\ Agrees(task.signal, Spelled("reconcile_pending"))
      BY <2>1, <2>2 DEF Agrees
    <3> QED
      BY <1>2, <1>3, <1>5, <1>10, <2>2, <3>1 DEF WriteRow
<1>11. \/ At("save_signal") \/ At("save_blocked") \/ At("save_order")
       \/ At("save_status") \/ At("save_error") \/ At("save_pending")
  BY DEF WriteRow
<1> QED
  BY <1>6, <1>7, <1>8, <1>9, <1>10, <1>11

(* So whatever is written keeps what the invariant says of the tables.     *)
Tables ==
  /\ signalRows \subseteq Signals /\ unnamed \in [Signals -> Status \cup {NoRow}] /\ ledger \in Ledger
  /\ AuditTrail /\ LedgerAgrees /\ NewestExists
  /\ \A s \in Signals \ arrived : Untouched(s)

LEMMA WriteRowKeepsTables ==
  ASSUME IInv, WriteRow, UNCHANGED <<exchange, arrived>>
  PROVE  /\ Tables'
         /\ \A o \in Orders \ {task.signal} : ledger'.latest[o] = ledger.latest[o]
<1>1. ledger \in Ledger /\ task.signal \in Orders
  BY WriteRowEffect DEF IInv, TypeOK
<1>2. /\ ledger' \in Ledger
      /\ \A o \in Orders \ {task.signal} : ledger'.latest[o] = ledger.latest[o]
      /\ \/ ledger' = ledger
         \/ \E status \in Status : /\ ledger'.latest[task.signal] = status
                                   /\ Agrees(task.signal, status)
  <2>1. CASE ledger' = ledger
    BY <1>1, <2>1
  <2>2. CASE ledger' # ledger
    BY <1>1, <2>2, WriteRowEffect, InsertRowFacts
  <2> QED
    BY <2>1, <2>2
<1>3. signalRows \subseteq signalRows' /\ signalRows' \subseteq Signals /\ task.signal \in signalRows'
  BY WriteRowEffect DEF IInv, TypeOK
<1>4. AuditTrail'
  BY <1>2, <1>3, WriteRowEffect DEF IInv, AuditTrail
<1>5. LedgerAgrees'
  BY <1>1, <1>2 DEF IInv, LedgerAgrees, Agrees, Placed
<1>6. NewestExists'
  <2>1. CASE ledger' = ledger
    BY <2>1 DEF IInv, NewestExists, HasNewest, Recorded
  <2>2. CASE ledger' # ledger
    BY <1>1, <2>2, WriteRowEffect, InsertKeepsNewest DEF IInv
  <2> QED
    BY <2>1, <2>2
<1>7. \A s \in Signals \ arrived' : Untouched(s)'
  <2>1. task.signal \in arrived
    BY DEF IInv, ArrivedFirst, WriteRow, Holding, Before, Asking, At
  <2> QED
    BY <1>2, <2>1 DEF IInv, ArrivedFirst, Untouched
<1> QED
  BY <1>2, <1>3, <1>4, <1>5, <1>6, <1>7, WriteRowEffect DEF Tables

LEMMA QuietKeepsTables ==
  ASSUME IInv, UNCHANGED <<exchange, tables>>, arrived \subseteq arrived'
  PROVE  Tables'
<1>1. signalRows' = signalRows /\ unnamed' = unnamed /\ ledger' = ledger /\ exchange' = exchange
  BY DEF tables
<1>2. AuditTrail' /\ LedgerAgrees'
  BY <1>1 DEF IInv, AuditTrail, LedgerAgrees, Agrees, Placed
<1>3. NewestExists'
  BY <1>1 DEF IInv, NewestExists, HasNewest, Recorded
<1>4. \A s \in Signals \ arrived' : Untouched(s)'
  BY <1>1 DEF IInv, ArrivedFirst, Untouched
<1> QED
  BY <1>1, <1>2, <1>3, <1>4 DEF Tables, IInv, TypeOK

-----------------------------------------------------------------------------
(* The rest of the invariant, which is about the process and the exchange. *)
Places == {"select", "save_signal", "submit", "post", "get", "wait", "next", "down", "stopped",
           "save_blocked", "save_order", "save_status", "save_error", "save_pending"}

MemoryType ==
  /\ exchange \in [Orders -> {"none", "live"} \cup Closed]
  /\ pc \in Places /\ cancelled \in BOOLEAN /\ router \in Router /\ task \in Task
  /\ DOMAIN sweep \subseteq Orders /\ \A o \in DOMAIN sweep : sweep[o] \in Status
  /\ arrived \subseteq Signals /\ posted \subseteq Signals
  /\ rows \in Nat /\ faults \in 0 .. MaxFaults

HoldsArrived == pc \in Holding => task.signal \in arrived

Memory ==
  MemoryType /\ HoldsArrived /\ TaskInStep /\ TaskSaved /\ SweepIsCurrent /\ RowBudget

LEMMA TwoHalves == IInv => Memory
BY DEF IInv, TypeOK, Memory, MemoryType, HoldsArrived, ArrivedFirst, Places

LEMMA Rejoined ==
  ASSUME Tables', Memory'
  PROVE  IInv'
<1>1. TypeOK'
  BY DEF TypeOK, Tables, Memory, MemoryType, Places
<1>2. ArrivedFirst'
  BY DEF ArrivedFirst, Tables, Memory, HoldsArrived
<1> QED
  BY <1>1, <1>2 DEF IInv, Tables, Memory

(* The places with which the worker stops or falls back to the select.     *)
LEMMA EmptyHanded ==
  ASSUME MemoryType', RowsPerReconcile', pc' \notin Holding, DOMAIN sweep' = {}
  PROVE  Memory'
BY DEF Memory, HoldsArrived, TaskInStep, TaskSaved, SweepIsCurrent, RowBudget, Holding, Before, Asking, At

LEMMA NoSweep == DOMAIN NoEntries = {}
BY DEF NoEntries

(* Wherever Run returns, and whatever the last write did to the tables.    *)
LEMMA LeaveStep ==
  ASSUME IInv, NEW place \in {"down", "stopped"}, Leave(place), faults' \in 0 .. MaxFaults,
         UNCHANGED <<exchange, arrived, posted, rows>>,
         WriteRow \/ UNCHANGED tables
  PROVE  IInv'
<1>1. Tables'
  BY WriteRowKeepsTables, QuietKeepsTables
<1>2. MemoryType'
  BY NoSweep, NoTaskType DEF Leave, GoTo, IInv, TypeOK, MemoryType, Places
<1>3. RowsPerReconcile'
  BY DEF IInv, RowBudget, RowsPerReconcile
<1>4. pc' \notin Holding /\ DOMAIN sweep' = {}
  BY NoSweep DEF Leave, GoTo, Holding, Before, Asking
<1> QED
  BY <1>1, <1>2, <1>3, <1>4, EmptyHanded, Rejoined

LEMMA HandleUpdateStep ==
  ASSUME IInv, NEW s \in Signals, HandleUpdate(s)
  PROVE  IInv'
<1>1. Tables'
  BY QuietKeepsTables DEF HandleUpdate
<1>2. task' \in Task /\ task'.signal = s
  BY NoTaskType DEF HandleUpdate, Task
<1>3. MemoryType'
  BY <1>2 DEF HandleUpdate, GoTo, IInv, TypeOK, MemoryType, Places
<1>4. Untouched(s)'
  BY DEF HandleUpdate, IInv, ArrivedFirst, Untouched, tables
<1>5. HoldsArrived' /\ TaskInStep' /\ TaskSaved'
  BY <1>2, <1>4 DEF HandleUpdate, GoTo, At, HoldsArrived, TaskInStep, TaskSaved, Before, Asking
<1>6. SweepIsCurrent' /\ RowBudget'
  BY DEF IInv, SweepIsCurrent, RowBudget, RowsPerReconcile, HandleUpdate, tables, At, GoTo, Asking
<1> QED
  BY <1>1, <1>3, <1>5, <1>6, Rejoined DEF Memory

LEMMA SubmitStep ==
  ASSUME IInv, SubmitAccepts \/ SubmitBlocks
  PROVE  IInv'
<1>1. At("submit") /\ UNCHANGED <<exchange, tables, cancelled, task, sweep, tally>>
  BY DEF SubmitAccepts, SubmitBlocks, process
<1>2. Tables'
  BY <1>1, QuietKeepsTables DEF tally
<1>3. task.signal \in Signals
  BY <1>1 DEF At, IInv, ArrivedFirst, TypeOK, Holding, Before
<1>4. router' \in Router
  <2>1. CASE SubmitAccepts
    <3> DEFINE o == OrderFor[task.signal]
    <3>1. o \in LiveOrder /\ o.key # Empty
      BY <1>3, <2>1, AdmitsFacts DEF SubmitAccepts
    <3>2. router \in Router /\ NextExposure(router, o) \in Int /\ NextClusterExposure(router, o) \in Int
      BY <3>1, NextExposureType DEF IInv, TypeOK
    <3> QED
      BY <2>1, <3>1, <3>2, CommitType DEF SubmitAccepts
  <2>2. CASE SubmitBlocks
    BY <2>2 DEF SubmitBlocks, process, IInv, TypeOK
  <2> QED
    BY <2>1, <2>2
<1>5. pc' \in {"post", "save_blocked"}
  BY DEF SubmitAccepts, SubmitBlocks, GoTo
<1>6. MemoryType'
  BY <1>1, <1>4, <1>5 DEF IInv, TypeOK, MemoryType, Places, tally
<1>7. HoldsArrived' /\ TaskInStep' /\ TaskSaved'
  BY <1>1, <1>5 DEF IInv, ArrivedFirst, TaskInStep, TaskSaved, Untouched, HoldsArrived, tally, tables,
                    At, Holding, Before, Asking
<1>8. SweepIsCurrent' /\ RowBudget'
  BY <1>1, <1>5 DEF IInv, SweepIsCurrent, RowBudget, RowsPerReconcile, tally, tables, At, Asking
<1> QED
  BY <1>2, <1>6, <1>7, <1>8, Rejoined DEF Memory

(* What the exchange made of the order and what the worker will write      *)
(* about it; without an order id nothing is written in the ledger.         *)
PostAgrees(outcome, status) ==
  IF IsTerminal(status)
  THEN \/ status.word = "matched" /\ outcome = "matched"
       \/ status.word = "failed" /\ outcome = "refused"
  ELSE outcome \in {"live", "matched"}

LEMMA PostStep ==
  ASSUME IInv, NEW outcome \in {"none", "live", "matched", "refused"},
         NEW named \in BOOLEAN, NEW status \in Status,
         Post(outcome, named, status), named => PostAgrees(outcome, status)
  PROVE  IInv'
<1> DEFINE o == task.signal
<1>1. At("post") /\ pc' = "save_order" /\ UNCHANGED <<tables, cancelled, router, sweep, arrived, rows, faults>>
  BY DEF Post, GoTo
<1>2. o \in arrived /\ o \in Signals /\ o \in signalRows /\ Untouched(o)
  BY <1>1 DEF At, IInv, ArrivedFirst, TypeOK, TaskSaved, TaskInStep, Holding, Before
<1>3. exchange \in [Orders -> {"none", "live"} \cup Closed] /\ task \in Task
  BY DEF IInv, TypeOK
<1>4. /\ exchange' \in [Orders -> {"none", "live"} \cup Closed]
      /\ exchange'[o] = outcome
      /\ \A p \in Orders \ {o} : exchange'[p] = exchange[p]
  BY <1>2, <1>3 DEF Post, Closed
<1>5. task' \in Task /\ task'.signal = o /\ task'.named = named /\ task'.status = status
  BY <1>3 DEF Post, Task
<1>6. signalRows' = signalRows /\ unnamed' = unnamed /\ ledger' = ledger
  BY <1>1 DEF tables
<1>7. Tables'
  <2>1. AuditTrail'
    BY <1>2, <1>4, <1>6 DEF IInv, AuditTrail
  <2>2. LedgerAgrees'
    BY <1>2, <1>4, <1>6 DEF IInv, LedgerAgrees, Agrees, Placed, Untouched
  <2>3. NewestExists'
    BY <1>6 DEF IInv, NewestExists, HasNewest, Recorded
  <2>4. \A s \in Signals \ arrived' : Untouched(s)'
    BY <1>1, <1>2, <1>4, <1>6 DEF IInv, ArrivedFirst, Untouched
  <2> QED
    BY <1>6, <2>1, <2>2, <2>3, <2>4 DEF Tables, IInv, TypeOK
<1>8. MemoryType'
  BY <1>1, <1>2, <1>4, <1>5 DEF Post, IInv, TypeOK, MemoryType, Places
<1>9. HoldsArrived' /\ TaskSaved'
  BY <1>1, <1>2, <1>5, <1>6 DEF HoldsArrived, TaskSaved
<1>10. TaskInStep'
  <2>1. named => Agrees(o, status)'
    BY <1>4, <1>5 DEF PostAgrees, Agrees, Placed
  <2> QED
    BY <1>1, <1>2, <1>5, <1>6, <2>1 DEF TaskInStep, Untouched, At, Before, Asking, Agrees, Placed
<1>11. SweepIsCurrent' /\ RowBudget'
  BY <1>1, <1>6 DEF IInv, SweepIsCurrent, RowBudget, RowsPerReconcile, At, Asking
<1> QED
  BY <1>7, <1>8, <1>9, <1>10, <1>11, Rejoined DEF Memory

(* A success is "matched" or of an order that rests, a refusal "failed".   *)
LEMMA PostSucceedsStep ==
  ASSUME IInv, NEW status \in PostStatuses, PostSucceeds(status)
  PROVE  IInv'
<1> DEFINE outcome == IF status.word = "matched" THEN "matched" ELSE "live"
           written == IF status.word = "" THEN Spelled("submitted") ELSE status
<1>1. written \in Status /\ outcome \in {"none", "live", "matched", "refused"}
  BY SpelledType
<1>2. PostAgrees(outcome, written)
  BY DEF PostAgrees, IsTerminal, Spelled, TerminalWords
<1>3. Post(outcome, TRUE, written)
  BY DEF PostSucceeds
<1> HIDE DEF outcome, written
<1> QED
  BY <1>1, <1>2, <1>3, PostStep

LEMMA PostFailsStep ==
  ASSUME IInv, (\E named \in BOOLEAN : PostRefused(named)) \/ PostAnswerLost \/ PostNotSent
  PROVE  IInv'
<1>1. Spelled("failed") \in Status /\ PostAgrees("refused", Spelled("failed"))
  BY SpelledType DEF PostAgrees, IsTerminal, Spelled, TerminalWords
<1>2. CASE \E named \in BOOLEAN : PostRefused(named)
  BY <1>1, <1>2, PostStep DEF PostRefused
<1>3. CASE PostAnswerLost
  BY <1>1, <1>3, PostStep DEF PostAnswerLost
<1>4. CASE PostNotSent
  BY <1>1, <1>4, PostStep DEF PostNotSent
<1> QED
  BY <1>2, <1>3, <1>4

-----------------------------------------------------------------------------
LEMMA SaveSignalStep ==
  ASSUME IInv, SaveSignal
  PROVE  IInv'
<1>1. At("save_signal") /\ pc' = "submit" /\ WriteRow /\ UNCHANGED <<exchange, process, tally>>
  BY DEF SaveSignal, GoTo
<1>2. UNCHANGED <<exchange, cancelled, router, task, sweep, arrived, posted, rows, faults>>
  BY <1>1 DEF process, tally
<1>3. Tables' /\ ledger' = ledger /\ task.signal \in signalRows'
  BY <1>1, <1>2, WriteRowKeepsTables, WriteRowEffect
<1>4. MemoryType'
  BY <1>1, <1>2 DEF IInv, TypeOK, MemoryType, Places
<1>5. HoldsArrived' /\ TaskInStep' /\ TaskSaved'
  BY <1>1, <1>2, <1>3 DEF IInv, ArrivedFirst, TaskInStep, TaskSaved, Untouched, HoldsArrived,
                          At, Holding, Before, Asking
<1>6. SweepIsCurrent' /\ RowBudget'
  BY <1>1, <1>2, <1>3 DEF IInv, SweepIsCurrent, RowBudget, RowsPerReconcile, At, Asking
<1> QED
  BY <1>3, <1>4, <1>5, <1>6, Rejoined DEF Memory

LEMMA SaveBlockedStep ==
  ASSUME IInv, SaveBlocked
  PROVE  IInv'
<1>1. At("save_blocked") /\ pc' = "select" /\ WriteRow /\ task' = NoTask
  BY DEF SaveBlocked, GoTo
<1>2. UNCHANGED <<exchange, cancelled, router, sweep, arrived, posted, rows, faults>>
  BY DEF SaveBlocked, tally
<1>3. Tables'
  BY <1>1, <1>2, WriteRowKeepsTables
<1>4. MemoryType' /\ RowsPerReconcile'
  BY <1>1, <1>2, NoTaskType DEF IInv, TypeOK, MemoryType, Places, RowBudget, RowsPerReconcile
<1>5. pc' \notin Holding /\ DOMAIN sweep' = {}
  BY <1>1, <1>2 DEF IInv, SweepIsCurrent, At, Holding, Before, Asking
<1> QED
  BY <1>3, <1>4, <1>5, EmptyHanded, Rejoined

(* The entry of reconcileOrder, from a new order or from a scanned row.    *)
LEMMA ReconcileStep ==
  ASSUME IInv, NEW o \in Orders, NEW named \in BOOLEAN, NEW status \in Status,
         Reconcile(o, named, status), Tables', o \in arrived, o \in signalRows',
         named => ledger'.latest[o] = status,
         UNCHANGED <<exchange, cancelled, router, arrived, posted, faults>>,
         DOMAIN sweep' \subseteq Orders \ {o},
         \A p \in DOMAIN sweep' : /\ sweep'[p] \in Status
                                  /\ ledger'.latest[p] # NoRow /\ sweep'[p] = ledger'.latest[p]
  PROVE  IInv'
<1>1. CASE ~named \/ IsTerminal(status)
  <2>1. task' = NoTask /\ pc' = "next" /\ rows' = rows
    BY <1>1 DEF Reconcile, GoTo
  <2>2. MemoryType'
    BY <2>1, NoTaskType DEF IInv, TypeOK, MemoryType, Places
  <2> QED
    BY <2>1, <2>2, Rejoined DEF IInv, Memory, HoldsArrived, TaskInStep, TaskSaved, SweepIsCurrent,
                                RowBudget, RowsPerReconcile, At, Holding, Before, Asking
<1>2. CASE named /\ ~IsTerminal(status)
  <2>1. /\ task' = [NoTask EXCEPT !.signal = o, !.named = TRUE, !.status = Normalize(status)]
        /\ pc' = "get" /\ rows' = 0
    BY <1>2 DEF Reconcile, GoTo
  <2>2. Normalize(status) \in Status
    BY DEF Normalize, Spelled, Status
  <2>3. task' \in Task /\ task'.signal = o /\ task'.attempt = 0
    BY <2>1, <2>2, NoTaskType DEF Task, NoTask
  <2>4. MemoryType'
    BY <2>1, <2>3 DEF IInv, TypeOK, MemoryType, Places
  <2>5. HoldsArrived' /\ TaskInStep' /\ TaskSaved'
    BY <1>2, <2>1, <2>3, StatusIsRow DEF HoldsArrived, TaskInStep, TaskSaved, At, Before, Asking
  <2>6. SweepIsCurrent' /\ RowBudget'
    BY <2>1, <2>3 DEF SweepIsCurrent, RowBudget, RowsPerReconcile, At, Asking
  <2> QED
    BY <2>4, <2>5, <2>6, Rejoined DEF Memory
<1> QED
  BY <1>1, <1>2

LEMMA SaveOrderStep ==
  ASSUME IInv, SaveOrder
  PROVE  IInv'
<1> DEFINE o == task.signal
<1>1. At("save_order") /\ WriteRow /\ Reconcile(o, task.named, task.status)
      /\ UNCHANGED <<exchange, cancelled, router, sweep, arrived, posted, faults>>
  BY DEF SaveOrder
<1>2. o \in Orders /\ o \in arrived /\ o \in signalRows' /\ task \in Task /\ ledger \in Ledger
  BY <1>1, WriteRowEffect DEF IInv, TypeOK, ArrivedFirst, At, Holding
<1>3. task.named \in BOOLEAN /\ task.status \in Status
  BY <1>2 DEF Task
<1>4. Tables'
  BY <1>1, WriteRowKeepsTables
<1>5. task.named => ledger'.latest[o] = task.status
  BY <1>1, <1>2, <1>3, InsertRowFacts DEF WriteRow, At
<1>6. DOMAIN sweep' = {}
  BY <1>1 DEF IInv, SweepIsCurrent, At, Asking
<1> QED
  BY <1>1, <1>2, <1>3, <1>4, <1>5, <1>6, ReconcileStep

(* The scan yields recorded orders with their newest rows. *)
LEMMA PendingOrdersFacts ==
  ASSUME NEW l \in Ledger, NEW limit
  PROVE  /\ DOMAIN PendingOrders(l, limit) \subseteq Recorded(l)
         /\ \A o \in DOMAIN PendingOrders(l, limit) : PendingOrders(l, limit)[o] = l.latest[o]
BY DEF PendingOrders

LEMMA SweepTickStep ==
  ASSUME IInv, SweepTick
  PROVE  IInv'
<1>1. /\ pc' = "next" /\ sweep' = PendingOrders(ledger, ReconcileSweepLimit)
      /\ UNCHANGED <<exchange, tables, cancelled, router, task, tally>>
  BY DEF SweepTick, GoTo
<1>2. ledger \in Ledger /\ ledger' = ledger
  BY <1>1 DEF IInv, TypeOK, tables
<1>3. Tables'
  BY <1>1, QuietKeepsTables DEF tally
<1>4. /\ DOMAIN sweep' \subseteq Recorded(ledger)
      /\ \A o \in DOMAIN sweep' : sweep'[o] = ledger.latest[o]
  BY <1>1, <1>2, PendingOrdersFacts
<1>5. /\ DOMAIN sweep' \subseteq Orders
      /\ \A o \in DOMAIN sweep' : ledger.latest[o] # NoRow /\ sweep'[o] \in Status
  BY <1>2, <1>4 DEF Recorded, Ledger
<1>6. MemoryType'
  BY <1>1, <1>5 DEF IInv, TypeOK, MemoryType, Places, tally
<1>7. HoldsArrived' /\ TaskInStep' /\ TaskSaved' /\ RowBudget'
  BY <1>1 DEF IInv, HoldsArrived, TaskInStep, TaskSaved, RowBudget, RowsPerReconcile, tally, At,
              Holding, Before, Asking
<1>8. SweepIsCurrent'
  BY <1>1, <1>2, <1>4, <1>5 DEF SweepIsCurrent, Asking
<1> QED
  BY <1>3, <1>6, <1>7, <1>8, Rejoined DEF Memory

LEMMA NextEntryStep ==
  ASSUME IInv, NextEntry
  PROVE  IInv'
<1> DEFINE o == Newest(ledger, DOMAIN sweep)
<1>1. /\ At("next") /\ DOMAIN sweep # {} /\ Reconcile(o, TRUE, sweep[o])
      /\ sweep' = [p \in DOMAIN sweep \ {o} |-> sweep[p]]
      /\ UNCHANGED <<exchange, tables, cancelled, router, arrived, posted, faults>>
  BY DEF NextEntry
<1>2. ledger \in Ledger /\ DOMAIN sweep \subseteq Orders /\ DOMAIN sweep \subseteq Recorded(ledger)
  BY DEF IInv, TypeOK, SweepIsCurrent, Recorded
<1>3. o \in DOMAIN sweep
  BY <1>1, <1>2 DEF IInv, NewestExists, HasNewest, Newest
<1>4. o \in Orders /\ sweep[o] \in Status /\ ledger.latest[o] # NoRow /\ sweep[o] = ledger.latest[o]
  BY <1>2, <1>3 DEF IInv, TypeOK, SweepIsCurrent
<1>5. o \in arrived /\ o \in signalRows
  BY <1>4 DEF IInv, ArrivedFirst, Untouched, AuditTrail
<1>6. Tables' /\ ledger' = ledger /\ signalRows' = signalRows
  BY <1>1, QuietKeepsTables DEF tables
<1>7. /\ DOMAIN sweep' \subseteq Orders \ {o}
      /\ \A p \in DOMAIN sweep' : /\ sweep'[p] \in Status
                                  /\ ledger'.latest[p] # NoRow /\ sweep'[p] = ledger'.latest[p]
  BY <1>1, <1>2, <1>6 DEF IInv, TypeOK, SweepIsCurrent
<1> HIDE DEF o
<1> QED
  BY <1>1, <1>4, <1>5, <1>6, <1>7, ReconcileStep

LEMMA SweepEndsStep ==
  ASSUME IInv, SweepEnds
  PROVE  IInv'
<1>1. /\ DOMAIN sweep' = {} /\ task' = NoTask /\ pc' = "select"
      /\ UNCHANGED <<exchange, tables, cancelled, router, sweep, tally>>
  BY DEF SweepEnds, GoTo
<1>2. Tables'
  BY <1>1, QuietKeepsTables DEF tally
<1>3. MemoryType' /\ RowsPerReconcile'
  BY <1>1, NoTaskType DEF IInv, TypeOK, MemoryType, Places, RowBudget, RowsPerReconcile, tally
<1>4. pc' \notin Holding
  BY <1>1 DEF Holding, Before, Asking
<1> QED
  BY <1>1, <1>2, <1>3, <1>4, EmptyHanded, Rejoined

-----------------------------------------------------------------------------
(* While an order is asked about, its row says open, so it was placed.     *)
LEMMA AskedIsPlaced ==
  ASSUME IInv, pc \in Asking
  PROVE  task.signal \in Orders /\ task.signal \in Signals /\ Placed(task.signal)
BY DEF IInv, ArrivedFirst, TypeOK, Holding, TaskInStep, LedgerAgrees, Agrees

(* A step of an attempt that leaves the tables and the exchange alone, to  *)
(* another place of it or to the end of the reconciliation.                *)
LEMMA AskingStep ==
  ASSUME IInv, pc \in Asking, pc' \in Asking \cup {"next"}, task' \in Task,
         task'.signal = task.signal, At("save_status")' => Agrees(task'.signal, task'.seen),
         UNCHANGED <<exchange, tables, cancelled, router, sweep, arrived, posted, faults>>,
         rows' \in Nat, RowBudget'
  PROVE  IInv'
<1>1. signalRows' = signalRows /\ ledger' = ledger
  BY DEF tables
<1>2. Tables'
  BY QuietKeepsTables
<1>3. MemoryType'
  BY DEF IInv, TypeOK, MemoryType, Places, Asking
<1>4. HoldsArrived' /\ TaskSaved' /\ TaskInStep' /\ SweepIsCurrent'
  BY <1>1 DEF IInv, ArrivedFirst, TaskSaved, TaskInStep, SweepIsCurrent, HoldsArrived, Agrees, Placed,
              At, Holding, Before, Asking
<1> QED
  BY <1>2, <1>3, <1>4, Rejoined DEF Memory

(* What the exchange reports of a placed order agrees with its state.      *)
LEMMA ReportedAgrees ==
  ASSUME IInv, NEW o \in Orders, Placed(o), NEW status \in Reported(o)
  PROVE  status \in Status /\ Agrees(o, status)
<1>1. exchange[o] \in {"live", "matched", "canceled"}
  BY DEF IInv, TypeOK, Closed, Placed
<1>2. status = Spelled(exchange[o]) \/ status = Spelled("unknown")
  BY DEF Reported
<1>3. CASE status = Spelled(exchange[o])
  BY <1>1, <1>3, SpelledType DEF Agrees, Placed, IsTerminal, Spelled, TerminalWords
<1>4. CASE status = Spelled("unknown")
  BY <1>4, SpelledType DEF Agrees, Placed, IsTerminal, Spelled, TerminalWords
<1> QED
  BY <1>2, <1>3, <1>4

LEMMA GetAnswersStep ==
  ASSUME IInv, NEW o \in Orders, GetAnswers(o)
  PROVE  IInv'
<1>1. At("get") /\ task.signal = o /\ UNCHANGED <<exchange, tables, cancelled, router, sweep, tally>>
  BY DEF GetAnswers, Answers
<1>2. pc \in Asking /\ Placed(o) /\ task \in Task
  BY <1>1, AskedIsPlaced DEF At, Asking, IInv, TypeOK
<1>3. UNCHANGED <<arrived, posted, rows, faults>>
  BY <1>1 DEF tally
<1>4. rows \in Nat /\ RowsPerReconcile /\ rows <= task.attempt
  BY <1>1 DEF IInv, TypeOK, RowBudget, At
<1>5. task.attempt \in 0 .. ReconcileMaxAttempts - 1
  BY <1>2 DEF Task
<1>6. PICK status \in Reported(o) :
         IF status = task.status
         THEN AfterStatus(status) /\ UNCHANGED task
         ELSE GoTo("save_status") /\ task' = [task EXCEPT !.seen = status]
  BY DEF GetAnswers, Answers
<1>7. status \in Status /\ Agrees(o, status)
  BY <1>2, ReportedAgrees
<1>8. CASE status = task.status
  <2>1. /\ pc' \in {"next", "save_pending", "wait"} /\ task' = task
        /\ pc' = "wait" => task.attempt # ReconcileMaxAttempts - 1
    BY <1>6, <1>8 DEF AfterStatus, GoTo, LastAttempt
  <2>2. RowBudget'
    BY <1>3, <1>4, <1>5, <2>1 DEF RowBudget, RowsPerReconcile, At
  <2> QED
    BY <1>1, <1>2, <1>3, <1>4, <2>1, <2>2, AskingStep DEF Asking, At
<1>9. CASE status # task.status
  <2>1. pc' = "save_status" /\ task' = [task EXCEPT !.seen = status]
    BY <1>6, <1>9 DEF GoTo
  <2>2. task' \in Task /\ task'.signal = o /\ task'.seen = status /\ task'.attempt = task.attempt
    BY <1>1, <1>2, <1>7, <2>1 DEF Task
  <2>3. RowBudget'
    BY <1>3, <1>4, <2>1, <2>2 DEF RowBudget, RowsPerReconcile, At
  <2> QED
    BY <1>1, <1>2, <1>3, <1>4, <1>7, <2>1, <2>2, <2>3, AskingStep DEF Asking, At
<1> QED
  BY <1>8, <1>9

LEMMA GetFailsStep ==
  ASSUME IInv, GetFailsRetryably \/ GetFails
  PROVE  IInv'
<1>1. /\ At("get") /\ UNCHANGED <<exchange, tables, process, tally>>
      /\ pc' \in {"save_error", "wait"}
      /\ pc' = "wait" => task.attempt # ReconcileMaxAttempts - 1
  BY DEF GetFailsRetryably, GetFails, GoTo, LastAttempt
<1>2. UNCHANGED <<cancelled, router, task, sweep, arrived, posted, rows, faults>>
  BY <1>1 DEF process, tally
<1>3. task \in Task /\ rows \in Nat /\ rows <= task.attempt /\ RowsPerReconcile
  BY <1>1 DEF IInv, TypeOK, RowBudget, At
<1>4. task.attempt \in 0 .. ReconcileMaxAttempts - 1
  BY <1>3 DEF Task
<1>5. RowBudget'
  BY <1>1, <1>2, <1>3, <1>4 DEF RowBudget, RowsPerReconcile, At
<1> QED
  BY <1>1, <1>2, <1>3, <1>5, AskingStep DEF Asking, At

LEMMA WaitStep ==
  ASSUME IInv, WaitElapses \/ WaitCancelled
  PROVE  IInv'
<1>1. /\ At("wait") /\ UNCHANGED <<exchange, tables, cancelled, router, sweep, tally>>
      /\ \/ pc' = "get" /\ task' = [task EXCEPT !.attempt = @ + 1]
         \/ pc' = "next" /\ task' = task
  BY DEF WaitElapses, WaitCancelled, GoTo, process
<1>2. UNCHANGED <<arrived, posted, rows, faults>>
  BY <1>1 DEF tally
<1>3. /\ task \in Task /\ rows \in Nat /\ RowsPerReconcile
      /\ rows <= task.attempt + 1 /\ task.attempt < ReconcileMaxAttempts - 1
  BY <1>1 DEF IInv, TypeOK, RowBudget, At
<1>4. task.attempt \in 0 .. ReconcileMaxAttempts - 1
  BY <1>3 DEF Task
<1>5. task' \in Task /\ task'.signal = task.signal /\ (pc' = "get" => task'.attempt = task.attempt + 1)
  <2>1. task.attempt + 1 \in 0 .. ReconcileMaxAttempts - 1
    BY <1>3, <1>4
  <2>2. CASE task' = [task EXCEPT !.attempt = @ + 1]
    BY <1>3, <2>1, <2>2 DEF Task
  <2>3. CASE pc' = "next" /\ task' = task
    BY <1>3, <2>3
  <2> QED
    BY <1>1, <2>2, <2>3
<1>6. RowBudget'
  BY <1>1, <1>2, <1>3, <1>4, <1>5 DEF RowBudget, RowsPerReconcile, At
<1> QED
  BY <1>1, <1>2, <1>3, <1>5, <1>6, AskingStep DEF Asking, At

(* The rows of an attempt: its status, or the verdict on the order.        *)
LEMMA SavedRow ==
  ASSUME IInv, pc \in {"save_status", "save_error", "save_pending"}, WriteRow
  PROVE  /\ ledger'.latest[task.signal] \in Status
         /\ At("save_status") => ledger'.latest[task.signal] = task.seen
         /\ ~At("save_status") => ~IsTerminal(ledger'.latest[task.signal])
<1>1. task.signal \in Orders /\ ledger \in Ledger /\ task \in Task
  BY AskedIsPlaced DEF Asking, IInv, TypeOK
<1>2. /\ Spelled("reconcile_error") \in Status /\ Spelled("reconcile_pending") \in Status
      /\ ~IsTerminal(Spelled("reconcile_error")) /\ ~IsTerminal(Spelled("reconcile_pending"))
  BY SpelledType DEF IsTerminal, Spelled, TerminalWords
<1>3. CASE At("save_status")
  <2>1. task.seen \in Status
    BY <1>1 DEF Task
  <2>2. ledger' = InsertRow(ledger, task.signal, task.seen)
    BY <1>3 DEF WriteRow, At
  <2> QED
    BY <1>1, <1>3, <2>1, <2>2, InsertRowFacts
<1>4. CASE At("save_error")
  BY <1>1, <1>2, <1>4, InsertRowFacts DEF WriteRow, At
<1>5. CASE At("save_pending")
  BY <1>1, <1>2, <1>5, InsertRowFacts DEF WriteRow, At
<1> QED
  BY <1>3, <1>4, <1>5 DEF At

(* After the row of an attempt: a terminal status ends the reconciliation. *)
LEMMA SavedStep ==
  ASSUME IInv, pc \in {"save_status", "save_error", "save_pending"}, WriteRow,
         UNCHANGED <<exchange, cancelled, router, sweep, arrived, posted, faults>>,
         rows' = rows + 1, task' \in Task, task'.signal = task.signal,
         pc' \in {"next", "save_pending", "wait"},
         pc' # "next" => ~IsTerminal(ledger'.latest[task.signal]),
         RowBudget'
  PROVE  IInv'
<1>1. Tables' /\ \A o \in Orders \ {task.signal} : ledger'.latest[o] = ledger.latest[o]
  BY WriteRowKeepsTables
<1>2. MemoryType'
  BY DEF IInv, TypeOK, MemoryType, Places
<1>3. task.signal \in arrived /\ task.signal \in signalRows'
  BY WriteRowEffect DEF IInv, ArrivedFirst, Holding, Asking, At
<1>4. ledger'.latest[task.signal] # NoRow
  BY SavedRow, StatusIsRow
<1>5. HoldsArrived' /\ TaskSaved' /\ TaskInStep'
  BY <1>3, <1>4 DEF TaskSaved, TaskInStep, HoldsArrived, At, Holding, Before, Asking
<1>6. SweepIsCurrent'
  BY <1>1 DEF IInv, TypeOK, SweepIsCurrent, Asking
<1> QED
  BY <1>1, <1>2, <1>5, <1>6, Rejoined DEF Memory

LEMMA SaveStatusStep ==
  ASSUME IInv, SaveStatus
  PROVE  IInv'
<1>1. /\ At("save_status") /\ WriteRow /\ task' = [task EXCEPT !.status = task.seen]
      /\ AfterStatus(task.seen) /\ rows' = rows + 1
      /\ UNCHANGED <<exchange, cancelled, router, sweep, arrived, posted, faults>>
  BY DEF SaveStatus
<1>2. task \in Task /\ rows \in Nat /\ rows <= task.attempt
  BY <1>1 DEF IInv, TypeOK, RowBudget, At
<1>3. task' \in Task /\ task'.signal = task.signal /\ task'.attempt = task.attempt
  BY <1>1, <1>2 DEF Task
<1>4. /\ pc' \in {"next", "save_pending", "wait"}
      /\ pc' # "next" => ~IsTerminal(task.seen)
      /\ pc' = "wait" => task.attempt # ReconcileMaxAttempts - 1
  BY <1>1 DEF AfterStatus, GoTo, LastAttempt
<1>5. task.attempt \in 0 .. ReconcileMaxAttempts - 1
  BY <1>2 DEF Task
<1>6. RowBudget'
  BY <1>1, <1>2, <1>3, <1>4, <1>5 DEF RowBudget, RowsPerReconcile, At
<1>7. ledger'.latest[task.signal] = task.seen
  BY <1>1, SavedRow DEF At
<1> QED
  BY <1>1, <1>3, <1>4, <1>6, <1>7, SavedStep DEF At

LEMMA SaveVerdictStep ==
  ASSUME IInv, SaveVerdict
  PROVE  IInv'
<1>1. /\ At("save_error") \/ At("save_pending")
      /\ WriteRow /\ pc' = "next" /\ rows' = rows + 1
      /\ UNCHANGED <<exchange, process, arrived, posted, faults>>
  BY DEF SaveVerdict, GoTo
<1>2. UNCHANGED <<cancelled, router, task, sweep>>
  BY <1>1 DEF process
<1>3. task \in Task /\ rows \in Nat /\ rows <= task.attempt + 1
  BY <1>1 DEF IInv, TypeOK, RowBudget, At
<1>4. task.attempt \in 0 .. ReconcileMaxAttempts - 1
  BY <1>3 DEF Task
<1>5. RowBudget'
  BY <1>1, <1>3, <1>4 DEF RowBudget, RowsPerReconcile, At
<1> QED
  BY <1>1, <1>2, <1>3, <1>5, SavedStep DEF At

-----------------------------------------------------------------------------
(* A resting order that the exchange closes has an open row or none, which *)
(* is why the ledger still agrees.                                         *)
LEMMA ExchangeClosesStep ==
  ASSUME IInv, NEW o \in Orders, ExchangeCloses(o)
  PROVE  IInv'
<1>1. exchange[o] = "live" /\ UNCHANGED <<tables, pc, process, tally>>
  BY DEF ExchangeCloses
<1>2. UNCHANGED <<signalRows, unnamed, ledger, cancelled, router, task, sweep, arrived, posted, rows, faults>>
  BY <1>1 DEF tables, process, tally
<1>3. exchange \in [Orders -> {"none", "live"} \cup Closed]
  BY DEF IInv, TypeOK
<1>4. /\ exchange' \in [Orders -> {"none", "live"} \cup Closed]
      /\ exchange'[o] \in {"matched", "canceled"}
      /\ \A p \in Orders \ {o} : exchange'[p] = exchange[p]
  BY <1>3 DEF ExchangeCloses, Closed
<1>5. \A p \in Orders, status \in Status : Agrees(p, status) => Agrees(p, status)'
  BY <1>1, <1>4 DEF Agrees, Placed, IsTerminal
<1>6. \A p \in Orders : ledger.latest[p] # NoRow => ledger.latest[p] \in Status
  BY DEF IInv, TypeOK, Ledger
<1>7. AuditTrail'
  BY <1>1, <1>2, <1>4 DEF IInv, AuditTrail
<1>8. LedgerAgrees'
  BY <1>2, <1>5, <1>6 DEF IInv, LedgerAgrees, Agrees, Placed
<1>9. NewestExists'
  BY <1>2 DEF IInv, NewestExists, HasNewest, Recorded
<1>10. ArrivedFirst'
  BY <1>1, <1>2, <1>4 DEF IInv, ArrivedFirst, Untouched
<1>11. TaskInStep'
  <2>1. task \in Task
    BY DEF IInv, TypeOK
  <2>2. task.status \in Status /\ task.seen \in Status
    BY <2>1 DEF Task
  <2>3. pc \in Before \cup {"save_order", "save_status"} => task.signal \in Orders
    BY DEF IInv, TypeOK, ArrivedFirst, Holding, Asking
  <2> QED
    BY <1>1, <1>2, <1>4, <1>5, <2>2, <2>3
       DEF IInv, TaskInStep, Untouched, Agrees, Placed, At, Before, Asking
<1>12. TaskSaved' /\ SweepIsCurrent' /\ RowBudget'
  BY <1>1, <1>2 DEF IInv, TaskSaved, SweepIsCurrent, RowBudget, RowsPerReconcile, At
<1>13. TypeOK'
  BY <1>1, <1>2, <1>4 DEF IInv, TypeOK
<1> QED
  BY <1>7, <1>8, <1>9, <1>10, <1>11, <1>12, <1>13 DEF IInv

LEMMA CancelStep ==
  ASSUME IInv, Cancel
  PROVE  IInv'
<1>1. UNCHANGED <<exchange, tables, pc, router, task, sweep, arrived, posted, rows>> /\ cancelled' = TRUE
      /\ faults' \in 0 .. MaxFaults
  BY DEF Cancel, Fault, IInv, TypeOK
<1>2. Tables'
  BY <1>1, QuietKeepsTables
<1>3. MemoryType'
  BY <1>1 DEF IInv, TypeOK, MemoryType, Places
<1>4. HoldsArrived' /\ TaskInStep' /\ TaskSaved' /\ SweepIsCurrent' /\ RowBudget'
  BY <1>1 DEF IInv, ArrivedFirst, HoldsArrived, TaskInStep, TaskSaved, SweepIsCurrent, RowBudget,
              RowsPerReconcile, Untouched, Agrees, Placed, tables, At
<1> QED
  BY <1>2, <1>3, <1>4, Rejoined DEF Memory

LEMMA NewLiveRouterType == NewLiveRouter \in Router
BY DEF NewLiveRouter, Router

LEMMA RestartStep ==
  ASSUME IInv, Restart
  PROVE  IInv'
<1>1. /\ pc \in {"down", "stopped"} /\ pc' = "select" /\ router' = NewLiveRouter
      /\ cancelled' = FALSE /\ posted' = {}
      /\ UNCHANGED <<exchange, tables, task, sweep, arrived, rows, faults>>
  BY DEF Restart, Running, GoTo
<1>2. Tables'
  BY <1>1, QuietKeepsTables
<1>3. MemoryType' /\ RowsPerReconcile'
  BY <1>1, NewLiveRouterType DEF IInv, TypeOK, MemoryType, Places, RowBudget, RowsPerReconcile
<1>4. pc' \notin Holding /\ DOMAIN sweep' = {}
  BY <1>1 DEF IInv, SweepIsCurrent, Holding, Before, Asking
<1> QED
  BY <1>2, <1>3, <1>4, EmptyHanded, Rejoined

(* The ways in which Run returns. *)
LEMMA ReturnStep ==
  ASSUME IInv, Stop \/ WriteRawFails \/ BuildFails \/ SaveFails \/ Crash
  PROVE  IInv'
<1>1. faults' \in 0 .. MaxFaults
  BY DEF Stop, WriteRawFails, BuildFails, SaveFails, Crash, Fault, tally, IInv, TypeOK
<1>2. \E place \in {"down", "stopped"} : Leave(place)
  BY DEF Stop, WriteRawFails, BuildFails, SaveFails, Crash
<1>3. UNCHANGED <<exchange, arrived, posted, rows>>
  BY DEF Stop, WriteRawFails, BuildFails, SaveFails, Crash, tally
<1>4. WriteRow \/ UNCHANGED tables
  BY DEF Stop, WriteRawFails, BuildFails, SaveFails, Crash
<1> QED
  BY <1>1, <1>2, <1>3, <1>4, LeaveStep

LEMMA Stutter ==
  ASSUME IInv, UNCHANGED vars
  PROVE  IInv'
BY DEF vars, tables, process, tally, IInv, TypeOK, AuditTrail, LedgerAgrees, ArrivedFirst, TaskInStep,
       TaskSaved, SweepIsCurrent, NewestExists, HasNewest, Recorded, RowBudget, RowsPerReconcile,
       Untouched, Agrees, Placed, At

LEMMA Initially == Init => IInv
<1> SUFFICES ASSUME Init PROVE IInv
  OBVIOUS
<1>1. TypeOK
  <2>1. ledger \in Ledger
    BY DEF Init, Ledger, EmptyLedger
  <2>2. sweep = NoEntries /\ DOMAIN sweep = {}
    BY NoSweep DEF Init
  <2>3. faults \in 0 .. MaxFaults /\ rows \in Nat
    BY DEF Init
  <2>4. exchange \in [Orders -> {"none", "live"} \cup Closed] /\ unnamed \in [Signals -> Status \cup {NoRow}]
    BY DEF Init
  <2>5. task \in Task /\ router \in Router /\ pc = "select" /\ cancelled = FALSE
    BY NoTaskType, NewLiveRouterType DEF Init
  <2>6. signalRows = {} /\ arrived = {} /\ posted = {}
    BY DEF Init
  <2> QED
    BY <2>1, <2>2, <2>3, <2>4, <2>5, <2>6 DEF TypeOK
<1>2. Recorded(ledger) = {} /\ \A o \in Orders : ledger.latest[o] = NoRow
  BY DEF Init, EmptyLedger, Recorded
<1>3. AuditTrail /\ LedgerAgrees /\ ArrivedFirst /\ TaskInStep /\ TaskSaved
  BY <1>2 DEF Init, AuditTrail, LedgerAgrees, ArrivedFirst, Untouched, TaskInStep, TaskSaved, At,
              Holding, Before, Asking
<1>4. SweepIsCurrent /\ NewestExists /\ RowBudget
  BY <1>2, NoSweep DEF Init, SweepIsCurrent, NewestExists, RowBudget, RowsPerReconcile, At, Asking
<1> QED
  BY <1>1, <1>3, <1>4 DEF IInv

LEMMA WorkerStep ==
  ASSUME IInv, Worker
  PROVE  IInv'
<1>1. CASE SaveSignal
  BY <1>1, SaveSignalStep
<1>2. CASE SubmitAccepts \/ SubmitBlocks
  BY <1>2, SubmitStep
<1>3. CASE SaveBlocked
  BY <1>3, SaveBlockedStep
<1>4. CASE \E status \in PostStatuses : PostSucceeds(status)
  BY <1>4, PostSucceedsStep
<1>5. CASE (\E named \in BOOLEAN : PostRefused(named)) \/ PostAnswerLost \/ PostNotSent
  BY <1>5, PostFailsStep
<1>6. CASE SaveOrder
  BY <1>6, SaveOrderStep
<1>7. CASE \E o \in Orders : GetAnswers(o)
  BY <1>7, GetAnswersStep
<1>8. CASE GetFailsRetryably \/ GetFails
  BY <1>8, GetFailsStep
<1>9. CASE SaveStatus
  BY <1>9, SaveStatusStep
<1>10. CASE SaveVerdict
  BY <1>10, SaveVerdictStep
<1>11. CASE WaitElapses \/ WaitCancelled
  BY <1>11, WaitStep
<1>12. CASE NextEntry
  BY <1>12, NextEntryStep
<1>13. CASE SweepEnds
  BY <1>13, SweepEndsStep
<1>14. CASE Stop
  BY <1>14, ReturnStep
<1> QED
  BY <1>1, <1>2, <1>3, <1>4, <1>5, <1>6, <1>7, <1>8, <1>9, <1>10, <1>11, <1>12, <1>13, <1>14 DEF Worker

LEMMA NextStep ==
  ASSUME IInv, [Next]_vars
  PROVE  IInv'
<1>1. CASE \E s \in Signals : HandleUpdate(s)
  BY <1>1, HandleUpdateStep
<1>2. CASE Worker
  BY <1>2, WorkerStep
<1>3. CASE SweepTick
  BY <1>3, SweepTickStep
<1>4. CASE \E o \in Orders : ExchangeCloses(o)
  BY <1>4, ExchangeClosesStep
<1>5. CASE Cancel
  BY <1>5, CancelStep
<1>6. CASE WriteRawFails \/ BuildFails \/ SaveFails \/ Crash
  BY <1>6, ReturnStep
<1>7. CASE Restart
  BY <1>7, RestartStep
<1>8. CASE UNCHANGED vars
  BY <1>8, Stutter
<1> QED
  BY <1>1, <1>2, <1>3, <1>4, <1>5, <1>6, <1>7, <1>8 DEF Next, Failure

(* The strengthening is an invariant of the worker. *)
THEOREM Inductive == Spec => []IInv
<1>1. Init => IInv
  BY Initially
<1>2. IInv /\ [Next]_vars => IInv'
  BY NextStep
<1> QED
  BY <1>1, <1>2, PTL DEF Spec

(* Every variable keeps its type, whatever fails and wherever the worker   *)
(* is killed or cancelled.                                                 *)
THEOREM TypeCorrect == Spec => []TypeOK
<1>1. IInv => TypeOK
  BY DEF IInv
<1> QED
  BY <1>1, Inductive, PTL

(* What reached the exchange or has a row in order_attempts has its row in *)
(* signals, whichever write failed and wherever the process died.          *)
THEOREM AuditTrailComplete == Spec => []AuditTrail
<1>1. IInv => AuditTrail
  BY DEF IInv
<1> QED
  BY <1>1, Inductive, PTL

(* One reconciliation writes at most one row per attempt and a verdict.    *)
THEOREM RowsAreBounded == Spec => []RowsPerReconcile
<1>1. IInv => RowsPerReconcile
  BY DEF IInv, RowBudget
<1> QED
  BY <1>1, Inductive, PTL

-----------------------------------------------------------------------------
(* The refinement: what a step does to the pair of an order's state on the *)
(* exchange and what the ledger says of it.                                *)
Same(o) == Book'[o] = Book[o] /\ Known'[o] = Known[o]

LEMMA EqualEverywhere ==
  /\ (\A o \in Orders : Book'[o] = Book[o]) => Book' = Book
  /\ (\A o \in Orders : Known'[o] = Known[o]) => Known' = Known
<1>1. Book' = [o \in Orders |-> Book'[o]] /\ Book = [o \in Orders |-> Book[o]]
  BY DEF Book
<1>2. Known' = [o \in Orders |-> Known'[o]] /\ Known = [o \in Orders |-> Known[o]]
  BY DEF Known
<1>3. (\A o \in Orders : Book'[o] = Book[o]) => Book' = Book
  BY <1>1
<1>4. (\A o \in Orders : Known'[o] = Known[o]) => Known' = Known
  BY <1>2
<1> QED
  BY <1>3, <1>4

LEMMA NothingMoved ==
  ASSUME \A o \in Orders : Same(o)
  PROVE  UNCHANGED Tracking!vars
BY EqualEverywhere DEF Same, Tracking!vars

LEMMA OneMoved ==
  ASSUME NEW o \in Orders, \A p \in Orders \ {o} : Same(p)
  PROVE  /\ Book' = [Book EXCEPT ![o] = Book'[o]]
         /\ Known' = [Known EXCEPT ![o] = Known'[o]]
<1>1. Book' = [p \in Orders |-> Book'[p]] /\ Book = [p \in Orders |-> Book[p]]
  BY DEF Book
<1>2. Known' = [p \in Orders |-> Known'[p]] /\ Known = [p \in Orders |-> Known[p]]
  BY DEF Known
<1>3. Book' = [Book EXCEPT ![o] = Book'[o]]
  BY <1>1 DEF Same
<1>4. Known' = [Known EXCEPT ![o] = Known'[o]]
  BY <1>2 DEF Same
<1> QED
  BY <1>3, <1>4

LEMMA BookKnown ==
  \A o \in Orders :
    /\ Book[o] = IF Placed(o) THEN exchange[o] ELSE "none"
    /\ Known[o] = IF ledger.latest[o] = NoRow
                  THEN IF Placed(o) /\ ~InFlight(o) THEN "lost" ELSE "none"
                  ELSE IF IsTerminal(ledger.latest[o]) THEN ledger.latest[o].word ELSE "open"
BY DEF Book, Known

LEMMA BookKnownNext ==
  \A o \in Orders :
    /\ Book'[o] = IF Placed(o)' THEN exchange'[o] ELSE "none"
    /\ Known'[o] = IF ledger'.latest[o] = NoRow
                   THEN IF Placed(o)' /\ ~InFlight(o)' THEN "lost" ELSE "none"
                   ELSE IF IsTerminal(ledger'.latest[o]) THEN ledger'.latest[o].word ELSE "open"
BY DEF Book, Known, IsTerminal

(* An order whose row, state and flight a step leaves alone has not moved. *)
LEMMA Unmoved ==
  ASSUME NEW o \in Orders, exchange'[o] = exchange[o], ledger'.latest[o] = ledger.latest[o],
         InFlight(o)' <=> InFlight(o)
  PROVE  Same(o)
BY BookKnown, BookKnownNext DEF Same, Placed

LEMMA QuietTrack ==
  ASSUME UNCHANGED <<exchange, ledger>>,
         \/ ~At("save_order") /\ ~At("save_order")'
         \/ UNCHANGED <<pc, task>>
  PROVE  UNCHANGED Tracking!vars
BY Unmoved, NothingMoved DEF InFlight, At

-----------------------------------------------------------------------------
(* PostOrder places the order, or it changes nothing that anyone can see.  *)
LEMMA PostTracked ==
  ASSUME IInv, NEW outcome \in {"none", "live", "matched", "refused"},
         NEW named \in BOOLEAN, NEW status, Post(outcome, named, status)
  PROVE  [Tracking!Next]_(Tracking!vars)
<1>1. At("post") /\ pc' = "save_order" /\ ledger' = ledger
  BY DEF Post, GoTo, tables
<1>2. PICK o \in Orders : o = task.signal
  BY <1>1 DEF At, IInv, ArrivedFirst, TypeOK, Holding, Before
<1>3. exchange[o] = "none" /\ ledger.latest[o] = NoRow
  BY <1>1, <1>2 DEF At, IInv, TaskInStep, Untouched, Before
<1>4. /\ exchange'[o] = outcome
      /\ \A p \in Orders \ {o} : exchange'[p] = exchange[p]
  BY <1>2 DEF Post, IInv, TypeOK
<1>5. task'.signal = o /\ task'.named = named
  BY <1>2 DEF Post, IInv, TypeOK, Task
<1>6. /\ \A p \in Orders : ~InFlight(p)
      /\ \A p \in Orders \ {o} : ~InFlight(p)'
      /\ InFlight(o)' <=> named
  BY <1>1, <1>5 DEF InFlight, At
<1>7. \A p \in Orders \ {o} : Same(p)
  BY <1>1, <1>4, <1>6, Unmoved
<1>8. Book[o] = "none" /\ Known[o] = "none"
  BY <1>3, BookKnown DEF Placed
<1>9. CASE outcome \in {"live", "matched"}
  <2>1. Book'[o] = outcome /\ Known'[o] \in {"none", "lost"}
    BY <1>1, <1>3, <1>4, <1>6, <1>9, BookKnownNext DEF Placed
  <2> QED
    BY <1>7, <1>8, <1>9, <2>1, OneMoved DEF Tracking!Next, Tracking!Place, Tracking!Resting
<1>10. CASE outcome \in {"none", "refused"}
  <2>1. Same(o)
    BY <1>1, <1>3, <1>4, <1>8, <1>10, BookKnownNext DEF Placed, Same
  <2> QED
    BY <1>7, <2>1, NothingMoved
<1> QED
  BY <1>9, <1>10

(* A row of an order that is asked about leaves it open, or closes it with *)
(* the state the exchange reported.                                        *)
LEMMA AskingRowTracked ==
  ASSUME IInv, pc \in {"save_status", "save_error", "save_pending"}, WriteRow,
         UNCHANGED exchange, ~At("save_order")'
  PROVE  [Tracking!Next]_(Tracking!vars)
<1>1. PICK o \in Orders : o = task.signal
  BY AskedIsPlaced DEF Asking
<1>2. Placed(o) /\ ledger.latest[o] # NoRow /\ ~IsTerminal(ledger.latest[o])
  BY <1>1, AskedIsPlaced DEF IInv, TaskInStep, Asking
<1>3. \A p \in Orders : ~InFlight(p) /\ ~InFlight(p)'
  BY DEF InFlight, At
<1>4. \A p \in Orders \ {o} : ledger'.latest[p] = ledger.latest[p]
  <2>1. ledger \in Ledger
    BY DEF IInv, TypeOK
  <2> QED
    BY <1>1, <2>1, WriteRowEffect, InsertRowFacts
<1>5. \A p \in Orders \ {o} : Same(p)
  BY <1>3, <1>4, Unmoved
<1>6. Book[o] = exchange[o] /\ Book'[o] = exchange[o] /\ Known[o] = "open"
  BY <1>2, BookKnown, BookKnownNext DEF Placed
<1>7. ledger'.latest[o] # NoRow
  BY <1>1, SavedRow, StatusIsRow
<1>8. CASE ~IsTerminal(ledger'.latest[o])
  <2>1. Same(o)
    BY <1>6, <1>7, <1>8, BookKnownNext DEF Same
  <2> QED
    BY <1>5, <2>1, NothingMoved
<1>9. CASE IsTerminal(ledger'.latest[o])
  <2>1. At("save_status") /\ ledger'.latest[o] = task.seen /\ Agrees(o, task.seen)
    BY <1>1, <1>9, SavedRow DEF IInv, TaskInStep
  <2>2. task.seen.word = exchange[o] /\ exchange[o] \in {"matched", "canceled"}
    BY <1>2, <1>9, <2>1 DEF Agrees, Placed
  <2>3. Known'[o] = exchange[o]
    BY <1>7, <1>9, <2>1, <2>2, BookKnownNext
  <2>4. Book' = Book
    BY <1>5, <1>6, EqualEverywhere DEF Same
  <2> QED
    BY <1>5, <1>6, <2>2, <2>3, <2>4, OneMoved DEF Tracking!Next, Tracking!Learn, Tracking!Outcomes
<1> QED
  BY <1>8, <1>9

(* The first row of an order; or the worker ends before it is written.     *)
LEMMA OrderRowTracked ==
  ASSUME IInv, At("save_order"), WriteRow \/ UNCHANGED tables,
         UNCHANGED exchange, ~At("save_order")'
  PROVE  [Tracking!Next]_(Tracking!vars)
<1>1. PICK o \in Orders : o = task.signal
  BY DEF At, IInv, ArrivedFirst, TypeOK, Holding
<1>2. ledger.latest[o] = NoRow /\ (task.named => Agrees(o, task.status))
  BY <1>1 DEF IInv, TaskInStep
<1>3. /\ \A p \in Orders : ~InFlight(p)'
      /\ \A p \in Orders \ {o} : ~InFlight(p)
      /\ InFlight(o) <=> task.named
  BY <1>1 DEF InFlight, At
<1>4. ledger \in Ledger /\ task \in Task
  BY DEF IInv, TypeOK
<1>5. \A p \in Orders \ {o} : ledger'.latest[p] = ledger.latest[p]
  <2>1. CASE WriteRow
    BY <1>1, <1>4, <2>1, WriteRowEffect, InsertRowFacts
  <2>2. CASE UNCHANGED tables
    BY <2>2 DEF tables
  <2> QED
    BY <2>1, <2>2
<1>6. \A p \in Orders \ {o} : Same(p)
  BY <1>3, <1>5, Unmoved
<1>7. CASE ledger' = ledger
  <2>1. CASE task.named /\ Placed(o)
    <3>1. Book[o] # "none" /\ Known[o] = "none" /\ Book'[o] = Book[o] /\ Known'[o] = "lost"
      BY <1>2, <1>3, <1>7, <2>1, BookKnown, BookKnownNext DEF Placed
    <3>2. Book' = Book
      BY <1>6, <3>1, EqualEverywhere DEF Same
    <3> QED
      BY <1>6, <3>1, <3>2, OneMoved DEF Tracking!Next, Tracking!Lose
  <2>2. CASE ~task.named \/ ~Placed(o)
    <3>1. Same(o)
      BY <1>2, <1>3, <1>7, <2>2, BookKnown, BookKnownNext DEF Placed, Same
    <3> QED
      BY <1>6, <3>1, NothingMoved
  <2> QED
    BY <2>1, <2>2
<1>8. CASE ledger' # ledger
  <2>1. WriteRow /\ task.named /\ task.status \in Status
    BY <1>4, <1>8 DEF WriteRow, At, tables, Task
  <2>2. ledger'.latest[o] = task.status /\ task.status # NoRow
    BY <1>1, <1>4, <2>1, InsertRowFacts, StatusIsRow DEF WriteRow, At
  <2>3. Known[o] = "none" /\ Book'[o] = Book[o]
    BY <1>2, <1>3, <2>1, BookKnown, BookKnownNext DEF Placed
  <2>4. Book' = Book
    BY <1>6, <2>3, EqualEverywhere DEF Same
  <2>5. CASE Placed(o)
    <3>1. Book[o] = exchange[o] /\ exchange[o] \notin {"none", "refused"}
      BY <2>5, BookKnown DEF Placed
    <3>2. Known'[o] = IF IsTerminal(task.status) THEN task.status.word ELSE "open"
      BY <2>2, BookKnownNext
    <3>3. IsTerminal(task.status) =>
            task.status.word = exchange[o] /\ exchange[o] \in {"matched", "canceled"}
      BY <1>2, <2>1, <3>1 DEF Agrees
    <3>4. Known'[o] \in {"open"} \cup ({exchange[o]} \cap {"matched", "canceled"})
      BY <3>2, <3>3
    <3> QED
      BY <1>6, <2>3, <2>4, <3>1, <3>4, OneMoved DEF Tracking!Next, Tracking!Record, Tracking!Outcomes
  <2>6. CASE ~Placed(o)
    <3>1. Book[o] = "none" /\ Known'[o] = "failed"
      <4>1. Book[o] = "none"
        BY <2>6, BookKnown
      <4>2. Known'[o] = IF IsTerminal(task.status) THEN task.status.word ELSE "open"
        BY <2>2, BookKnownNext
      <4>3. IsTerminal(task.status) /\ task.status.word = "failed"
        BY <1>2, <2>1, <2>6 DEF Agrees, Placed
      <4> QED
        BY <4>1, <4>2, <4>3
    <3> QED
      BY <1>6, <2>3, <2>4, <3>1, OneMoved DEF Tracking!Next, Tracking!Refuse
  <2> QED
    BY <2>5, <2>6
<1> QED
  BY <1>7, <1>8

LEMMA ExchangeClosesTracked ==
  ASSUME IInv, NEW o \in Orders, ExchangeCloses(o)
  PROVE  [Tracking!Next]_(Tracking!vars)
<1>1. exchange[o] = "live" /\ UNCHANGED <<ledger, pc, task>>
  BY DEF ExchangeCloses, tables, process
<1>2. /\ exchange'[o] \in {"matched", "canceled"}
      /\ \A p \in Orders \ {o} : exchange'[p] = exchange[p]
  BY DEF ExchangeCloses, IInv, TypeOK
<1>3. \A p \in Orders : InFlight(p)' <=> InFlight(p)
  BY <1>1 DEF InFlight, At
<1>4. \A p \in Orders \ {o} : Same(p)
  BY <1>1, <1>2, <1>3, Unmoved
<1>5. Book[o] = "live" /\ Book'[o] \in {"matched", "canceled"} /\ Known'[o] = Known[o]
  BY <1>1, <1>2, <1>3, BookKnown, BookKnownNext DEF Placed
<1>6. Known' = Known
  BY <1>4, <1>5, EqualEverywhere DEF Same
<1> QED
  BY <1>4, <1>5, <1>6, OneMoved DEF Tracking!Next, Tracking!Close, Tracking!Resting, Tracking!Outcomes

LEMMA StepTracked ==
  ASSUME IInv, [Next]_vars
  PROVE  [Tracking!Next]_(Tracking!vars)
<1>1. CASE \E status \in PostStatuses : PostSucceeds(status)
  <2>1. PICK status \in PostStatuses : PostSucceeds(status)
    BY <1>1
  <2> DEFINE outcome == IF status.word = "matched" THEN "matched" ELSE "live"
             written == IF status.word = "" THEN Spelled("submitted") ELSE status
  <2>2. outcome \in {"none", "live", "matched", "refused"} /\ Post(outcome, TRUE, written)
    BY <2>1 DEF PostSucceeds
  <2> HIDE DEF outcome, written
  <2> QED
    BY <2>2, PostTracked
<1>2. CASE (\E named \in BOOLEAN : PostRefused(named)) \/ PostAnswerLost \/ PostNotSent
  BY <1>2, PostTracked DEF PostRefused, PostAnswerLost, PostNotSent
<1>3. CASE SaveSignal \/ SaveBlocked
  BY <1>3, WriteRowEffect, QuietTrack DEF SaveSignal, SaveBlocked, WriteRow, At, GoTo
<1>4. CASE SaveOrder
  <2>1. ~At("save_order")' /\ exchange' = exchange /\ At("save_order") /\ WriteRow
    BY <1>4 DEF SaveOrder, Reconcile, GoTo, At
  <2> QED
    BY <2>1, OrderRowTracked
<1>5. CASE SaveStatus \/ SaveVerdict
  <2>1. pc \in {"save_status", "save_error", "save_pending"} /\ WriteRow /\ exchange' = exchange
    BY <1>5 DEF SaveStatus, SaveVerdict, At
  <2>2. ~At("save_order")'
    BY <1>5 DEF SaveStatus, SaveVerdict, AfterStatus, GoTo, At
  <2> QED
    BY <2>1, <2>2, AskingRowTracked
<1>6. CASE SubmitAccepts \/ SubmitBlocks \/ GetFailsRetryably \/ GetFails \/ WaitElapses \/ WaitCancelled
           \/ SweepEnds \/ SweepTick \/ Restart \/ Stop \/ WriteRawFails \/ BuildFails
  BY <1>6, QuietTrack
     DEF SubmitAccepts, SubmitBlocks, GetFailsRetryably, GetFails, WaitElapses, WaitCancelled,
         SweepEnds, SweepTick, Restart, Running, Stop, WriteRawFails, BuildFails, Leave, GoTo, At, tables
<1>7. CASE NextEntry
  BY <1>7, QuietTrack DEF NextEntry, Reconcile, GoTo, At, tables
<1>8. CASE \E o \in Orders : GetAnswers(o)
  BY <1>8, QuietTrack DEF GetAnswers, Answers, AfterStatus, GoTo, At, tables
<1>9. CASE \E s \in Signals : HandleUpdate(s)
  BY <1>9, QuietTrack DEF HandleUpdate, GoTo, At, tables
<1>10. CASE \E o \in Orders : ExchangeCloses(o)
  BY <1>10, ExchangeClosesTracked
<1>11. CASE Cancel \/ UNCHANGED vars
  BY <1>11, QuietTrack DEF Cancel, vars, tables, process
<1>12. CASE SaveFails \/ Crash
  <2>1. ~At("save_order")' /\ exchange' = exchange
    BY <1>12 DEF SaveFails, Crash, Leave, GoTo, At
  <2>2. WriteRow \/ UNCHANGED tables
    BY <1>12 DEF SaveFails, Crash
  <2>3. CASE At("save_order")
    BY <2>1, <2>2, <2>3, OrderRowTracked
  <2>4. CASE ~At("save_order") /\ ledger' = ledger
    BY <2>1, <2>4, QuietTrack
  <2>5. CASE ~At("save_order") /\ ledger' # ledger
    <3>1. pc \in {"save_status", "save_error", "save_pending"} /\ WriteRow
      BY <2>2, <2>5 DEF WriteRow, At, tables
    <3> QED
      BY <2>1, <3>1, AskingRowTracked
  <2> QED
    BY <2>3, <2>4, <2>5
<1> QED
  BY <1>1, <1>2, <1>3, <1>4, <1>5, <1>6, <1>7, <1>8, <1>9, <1>10, <1>11, <1>12
     DEF Next, Worker, Failure

(* Every step of the worker, its crashes and its restarts is one that the  *)
(* ledger's promise allows or changes nothing in it: a closed order was    *)
(* closed on the exchange with the same outcome, is never reopened, and an *)
(* order is lost only with its id in flight (lines 284-330, 338-425).      *)
THEOREM ImplementsTracking == Spec => TracksOrders
<1>1. Init => Tracking!Init
  BY DEF Init, Tracking!Init, Book, Known, Placed, InFlight, At, EmptyLedger
<1>2. IInv /\ [Next]_vars => [Tracking!Next]_(Tracking!vars)
  BY StepTracked
<1> QED
  BY <1>1, <1>2, Inductive, PTL DEF Spec, TracksOrders, Tracking!Spec

-----------------------------------------------------------------------------
(* What this process has on the exchange in a market, and the order it has *)
(* booked and is about to send there.                                      *)
OnExchange(m) == {s \in posted : OrderFor[s].market = m /\ Placed(s)}

AboutToSend(m) ==
  IF At("post") /\ OrderFor[task.signal].market = m THEN OrderFor[task.signal].notional ELSE 0

(* Submit books before PostOrder sends, and nothing is booked out again.   *)
Booked ==
  /\ IsFiniteSet(posted)
  /\ At("post") => OrderFor[task.signal].notional > 0
  /\ \A m \in Markets : TotalNotional(OrderFor, OnExchange(m)) + AboutToSend(m) <= router.exposure[m]

LEMMA OnExchangeType ==
  ASSUME IInv, Booked, NEW m \in Markets
  PROVE  /\ IsFiniteSet(OnExchange(m)) /\ OnExchange(m) \subseteq Signals
         /\ \A s \in Signals : OrderFor[s] \in LiveOrder /\ OrderFor[s].notional \in Int
         /\ TotalNotional(OrderFor, OnExchange(m)) \in Int
         /\ router.exposure[m] \in Int
<1>1. IsFiniteSet(OnExchange(m)) /\ OnExchange(m) \subseteq Signals
  BY FS_Subset DEF Booked, OnExchange, IInv, TypeOK
<1>2. \A s \in Signals : OrderFor[s] \in LiveOrder /\ OrderFor[s].notional \in Int
  BY DEF LiveOrder
<1>3. TotalNotional(OrderFor, OnExchange(m)) \in Int
  BY <1>1, <1>2, TotalType
<1>4. router.exposure[m] \in Int
  BY DEF IInv, TypeOK, Router
<1> QED
  BY <1>1, <1>2, <1>3, <1>4

(* A step that leaves the books and the exchange alone keeps it; the order *)
(* that was about to be sent may be given up.                              *)
LEMMA BookedQuiet ==
  ASSUME IInv, Booked, posted' = posted, router' = router,
         \A s \in posted : Placed(s)' <=> Placed(s),
         pc' # "post" \/ UNCHANGED <<pc, task>>
  PROVE  Booked'
<1>1. \A m : OnExchange(m)' = OnExchange(m)
  BY DEF OnExchange
<1>2. CASE UNCHANGED <<pc, task>>
  BY <1>1, <1>2 DEF Booked, AboutToSend, At
<1>3. CASE pc' # "post"
  <2>1. \A m \in Markets : AboutToSend(m)' = 0
    BY <1>3 DEF AboutToSend, At
  <2>2. pc = "post" => task.signal \in Signals
    BY DEF IInv, TypeOK, ArrivedFirst, Holding, Before
  <2>3. ASSUME NEW m \in Markets
        PROVE  TotalNotional(OrderFor, OnExchange(m)) <= router.exposure[m]
    <3>1. AboutToSend(m) \in Int /\ AboutToSend(m) >= 0
      BY <2>2, OnExchangeType DEF AboutToSend, Booked, At
    <3> QED
      BY <3>1, OnExchangeType DEF Booked
  <2> QED
    BY <1>1, <1>3, <2>1, <2>3, OnExchangeType DEF Booked, At
<1> QED
  BY <1>2, <1>3

LEMMA BookedSubmit ==
  ASSUME IInv, Booked, SubmitAccepts
  PROVE  Booked'
<1> DEFINE o == OrderFor[task.signal]
<1>1. /\ pc = "submit" /\ pc' = "post" /\ task' = task /\ posted' = posted /\ exchange' = exchange
      /\ Admits(router, o, 0)
      /\ router' = Commit(router, o, NextExposure(router, o), NextClusterExposure(router, o))
  BY DEF SubmitAccepts, GoTo, At, tally
<1>2. task.signal \in Signals
  BY <1>1 DEF IInv, TypeOK, ArrivedFirst, Holding, Before
<1>3. o \in LiveOrder /\ router \in Router
  BY <1>2 DEF IInv, TypeOK
<1>4. o.market # Empty /\ o.notional \in Int /\ o.notional > 0
  <2>1. o.notional \in Int
    BY <1>3 DEF LiveOrder
  <2>2. o.market # Empty /\ ~Fails(router, o, 0).invalid_live_order
    BY <1>1, AdmitsFacts, AdmitsEach
  <2>3. ~(o.notional <= 0)
    BY <2>2 DEF Fails
  <2> HIDE DEF o
  <2> QED
    BY <2>1, <2>2, <2>3
<1>5. o.market \in Markets
  BY <1>3, <1>4 DEF LiveOrder
<1>6. \A m \in Markets :
        router'.exposure[m] = router.exposure[m] + (IF o.market = m THEN o.notional ELSE 0)
  BY <1>1, <1>3, <1>4, <1>5 DEF Commit, NextExposure, Router
<1>7. \A m \in Markets : AboutToSend(m) = 0 /\ AboutToSend(m)' = IF o.market = m THEN o.notional ELSE 0
  BY <1>1 DEF AboutToSend, At
<1>8. \A m : OnExchange(m)' = OnExchange(m)
  BY <1>1 DEF OnExchange, Placed
<1>9. o' = o
  BY <1>1
<1> HIDE DEF o
<1>10. ASSUME NEW m \in Markets
       PROVE  TotalNotional(OrderFor, OnExchange(m)') + AboutToSend(m)' <= router'.exposure[m]
  <2>1. TotalNotional(OrderFor, OnExchange(m)) <= router.exposure[m]
    BY <1>7, OnExchangeType DEF Booked
  <2> QED
    BY <1>4, <1>6, <1>7, <1>8, <2>1, OnExchangeType
<1> QED
  BY <1>1, <1>4, <1>9, <1>10 DEF Booked, o

LEMMA BookedPost ==
  ASSUME IInv, Booked, NEW outcome, NEW named, NEW status, Post(outcome, named, status)
  PROVE  Booked'
<1>1. PICK s \in Signals : s = task.signal
  BY DEF Post, At, IInv, TypeOK, ArrivedFirst, Holding, Before
<1>2. /\ pc = "post" /\ pc' = "save_order" /\ posted' = posted \cup {s} /\ router' = router
      /\ exchange' = [exchange EXCEPT ![s] = outcome]
  BY <1>1 DEF Post, At, GoTo
<1>3. exchange[s] = "none" /\ ~Placed(s)
  BY <1>1, <1>2 DEF IInv, TaskInStep, Untouched, Before, Placed
<1>4. \A p \in posted \ {s} : Placed(p)' <=> Placed(p)
  BY <1>2 DEF Placed, IInv, TypeOK
<1>5. IsFiniteSet(posted')
  BY <1>2, FS_AddElement DEF Booked
<1> DEFINE o == OrderFor[s]
<1>6. o.notional \in Int /\ o.notional > 0
  BY <1>1, <1>2 DEF Booked, At, LiveOrder
<1>7. ASSUME NEW m \in Markets
      PROVE  TotalNotional(OrderFor, OnExchange(m)') <= router.exposure[m]
  <2>1. s \notin OnExchange(m)
    BY <1>3 DEF OnExchange
  <2>2. OnExchange(m)' = OnExchange(m) \/ (o.market = m /\ OnExchange(m)' = OnExchange(m) \cup {s})
    BY <1>2, <1>3, <1>4 DEF OnExchange
  <2>3. TotalNotional(OrderFor, OnExchange(m)) + (IF o.market = m THEN o.notional ELSE 0) <= router.exposure[m]
    BY <1>1, <1>2 DEF Booked, AboutToSend, At
  <2>4. TotalNotional(OrderFor, OnExchange(m) \cup {s}) = TotalNotional(OrderFor, OnExchange(m)) + o.notional
    BY <2>1, OnExchangeType, TotalWithOneMore
  <2>5. TotalNotional(OrderFor, OnExchange(m)) \in Int /\ router.exposure[m] \in Int
    BY OnExchangeType
  <2> HIDE DEF o
  <2>6. CASE OnExchange(m)' = OnExchange(m)
    <3>1. TotalNotional(OrderFor, OnExchange(m)) <= router.exposure[m]
      BY <1>6, <2>3, <2>5
    <3> QED
      BY <2>6, <3>1
  <2>7. CASE o.market = m /\ OnExchange(m)' = OnExchange(m) \cup {s}
    <3>1. TotalNotional(OrderFor, OnExchange(m) \cup {s}) <= router.exposure[m]
      BY <2>3, <2>4, <2>7
    <3> QED
      BY <2>7, <3>1
  <2> QED
    BY <2>2, <2>6, <2>7
<1>8. \A m \in Markets : AboutToSend(m)' = 0
  BY <1>2 DEF AboutToSend, At
<1>9. ASSUME NEW m \in Markets
      PROVE  TotalNotional(OrderFor, OnExchange(m)') \in Int
  <2>1. OnExchange(m)' \subseteq posted' /\ posted' \subseteq Signals
    BY <1>2 DEF OnExchange, IInv, TypeOK
  <2>2. IsFiniteSet(OnExchange(m)')
    BY <1>5, <2>1, FS_Subset
  <2> QED
    BY <2>1, <2>2, OnExchangeType, TotalType
<1> QED
  BY <1>2, <1>5, <1>7, <1>8, <1>9 DEF Booked, At

LEMMA BookedRestart ==
  ASSUME IInv, Restart
  PROVE  Booked'
<1>1. pc' = "select" /\ posted' = {} /\ router' = NewLiveRouter
  BY DEF Restart, GoTo
<1>2. \A m : OnExchange(m)' = {}
  BY <1>1 DEF OnExchange
<1>3. \A m \in Markets : router'.exposure[m] = 0 /\ AboutToSend(m)' = 0
  BY <1>1 DEF NewLiveRouter, AboutToSend, At
<1> QED
  BY <1>1, <1>2, <1>3, FS_EmptySet, TotalOfNone DEF Booked, At

LEMMA BookedStep ==
  ASSUME IInv, Booked, [Next]_vars
  PROVE  Booked'
<1>1. CASE SubmitAccepts
  BY <1>1, BookedSubmit
<1>2. CASE \/ \E status \in PostStatuses : PostSucceeds(status)
           \/ \E named \in BOOLEAN : PostRefused(named)
           \/ PostAnswerLost \/ PostNotSent
  BY <1>2, BookedPost DEF PostSucceeds, PostRefused, PostAnswerLost, PostNotSent
<1>3. CASE Restart
  BY <1>3, BookedRestart
<1>4. CASE \E o \in Orders : ExchangeCloses(o)
  <2>1. UNCHANGED <<pc, task, router, posted>>
    BY <1>4 DEF ExchangeCloses, process, tally
  <2>2. \A s \in posted : Placed(s)' <=> Placed(s)
    BY <1>4 DEF ExchangeCloses, IInv, TypeOK, Placed
  <2> QED
    BY <2>1, <2>2, BookedQuiet
<1>5. CASE \/ \E s \in Signals : HandleUpdate(s)
           \/ SaveSignal \/ SubmitBlocks \/ SaveBlocked \/ SaveOrder \/ \E o \in Orders : GetAnswers(o)
           \/ GetFailsRetryably \/ GetFails \/ SaveStatus \/ SaveVerdict \/ WaitElapses
           \/ WaitCancelled \/ NextEntry \/ SweepEnds \/ Stop \/ SweepTick
           \/ WriteRawFails \/ BuildFails \/ SaveFails \/ Crash
  <2>1. UNCHANGED <<exchange, posted, router>> /\ pc' # "post"
    BY <1>5
       DEF HandleUpdate, SaveSignal, SubmitBlocks, SaveBlocked, SaveOrder, GetAnswers, Answers, GetFailsRetryably,
           GetFails, SaveStatus, SaveVerdict, WaitElapses, WaitCancelled, NextEntry, SweepEnds, Stop,
           SweepTick, WriteRawFails, BuildFails, SaveFails, Crash, Leave, Reconcile, AfterStatus, GoTo,
           process, tally
  <2> QED
    BY <2>1, BookedQuiet DEF Placed
<1>6. CASE Cancel \/ UNCHANGED vars
  <2>1. UNCHANGED <<exchange, posted, router, pc, task>>
    BY <1>6 DEF Cancel, vars, process, tally
  <2> QED
    BY <2>1, BookedQuiet DEF Placed
<1> QED
  BY <1>1, <1>2, <1>3, <1>4, <1>5, <1>6 DEF Next, Worker, Failure

(* Within the life of a process, what it has sent to the exchange in a     *)
(* market never exceeds what the router has booked there, whatever answer  *)
(* was lost, refused or never sent (Submit before PostOrder).              *)
THEOREM ExposureIsCovered == Spec => []ExposureCoversExchange
<1>1. Init => Booked
  <2> SUFFICES ASSUME Init PROVE Booked
    OBVIOUS
  <2>1. \A m : OnExchange(m) = {}
    BY DEF Init, OnExchange
  <2>2. \A m \in Markets : router.exposure[m] = 0 /\ AboutToSend(m) = 0
    BY DEF Init, NewLiveRouter, AboutToSend, At
  <2> QED
    BY <2>1, <2>2, FS_EmptySet, TotalOfNone DEF Booked, At, Init
<1>2. IInv /\ Booked /\ [Next]_vars => Booked'
  BY BookedStep
<1>3. IInv /\ Booked => ExposureCoversExchange
  <2> SUFFICES ASSUME IInv, Booked, NEW m \in Markets
               PROVE  TotalNotional(OrderFor, OnExchange(m)) <= router.exposure[m]
    BY DEF ExposureCoversExchange, OnExchange
  <2>1. AboutToSend(m) \in Int /\ AboutToSend(m) >= 0
    <3>1. pc = "post" => task.signal \in Signals
      BY DEF IInv, TypeOK, ArrivedFirst, Holding, Before
    <3> QED
      BY <3>1, OnExchangeType DEF AboutToSend, Booked, At
  <2> QED
    BY <2>1, OnExchangeType DEF Booked
<1> QED
  BY <1>1, <1>2, <1>3, Inductive, PTL DEF Spec
=============================================================================
