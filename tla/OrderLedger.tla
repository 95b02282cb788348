---------------------------- MODULE OrderLedger ----------------------------
(***************************************************************************)
(* The order_attempts table (internal/persistence/store.go) and the order  *)
(* statuses written to it (internal/runtime/autopilot.go).                 *)
(*                                                                         *)
(* The table is append-only and its only reader is selectPendingOrders,    *)
(* which looks at the newest row of each order id and at the order of      *)
(* those rows in time.  A ledger is therefore a record of                  *)
(*   latest : the status of the newest row of each order id (or NoRow),    *)
(*   newer  : <<p, q>> when the newest row of p is newer than that of q.   *)
(*                                                                         *)
(* A status is a word and whether it is spelled exactly as the code's      *)
(* tables spell it: in lower case and without blanks around it.            *)
(***************************************************************************)
EXTENDS Integers, FiniteSets

CONSTANT Orders     \* the order ids the exchange assigns

(* The words the Go switch and the SQL list call terminal, spelled alike.  *)
TerminalWords == {"filled", "cancelled", "canceled", "expired", "failed", "matched"}

OpenWords == {"blocked", "live", "delayed", "submitted", "unknown",
              "reconcile_pending", "reconcile_error"}

Status == [word : TerminalWords \cup OpenWords \cup {""}, exact : BOOLEAN]

Spelled(word) == [word |-> word, exact |-> TRUE]

(* normalizeOrderStatus: strings.ToLower(strings.TrimSpace(status)). *)
Normalize(status) == Spelled(status.word)

(* isTerminalOrderStatus normalises its argument ...                       *)
IsTerminal(status) == status.word \in TerminalWords

(* Mutant: an order whose reconciliation failed is not scanned again. *)
SqlTerminalOrError(status) ==
  status.exact /\ status.word \in TerminalWords \cup {"reconcile_error"}

(* ... the query's NOT IN compares the stored text as it is.               *)
SqlTerminal(status) == status.exact /\ status.word \in TerminalWords

NoRow == [word |-> "no_row", exact |-> TRUE]

Ledger == [latest : [Orders -> Status \cup {NoRow}],
           newer : SUBSET (Orders \X Orders)]

EmptyLedger == [latest |-> [o \in Orders |-> NoRow], newer |-> {}]

Recorded(ledger) == {o \in Orders : ledger.latest[o] # NoRow}

(* SaveOrder with a non-empty order id: the row becomes the newest of all. *)
InsertRow(ledger, o, status) ==
  [latest |-> [ledger.latest EXCEPT ![o] = status],
   newer  |-> {pair \in ledger.newer : o \notin {pair[1], pair[2]}}
                \cup ({o} \X (Recorded(ledger) \ {o}))]

(* ListPendingOrderReconciliations: the default of a missing limit. *)
RowLimit(limit) == IF limit <= 0 THEN 50 ELSE limit

(* The rows it returns: the `limit' newest of the orders whose newest row  *)
(* the query does not take for terminal, each with the status of that row. *)
PendingOrders(ledger, limit) ==
  LET pending == {o \in Recorded(ledger) : ~SqlTerminal(ledger.latest[o])}
      rank(o) == Cardinality({p \in pending : <<p, o>> \in ledger.newer})
  IN  [o \in {p \in pending : rank(p) < RowLimit(limit)} |-> ledger.latest[o]]

(* The first of a set of recorded orders in the order the query lists them. *)
Newest(ledger, S) ==
  CHOOSE o \in S : \A p \in S : <<p, o>> \notin ledger.newer
=============================================================================
