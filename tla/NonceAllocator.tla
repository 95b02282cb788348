--------------------------- MODULE NonceAllocator ---------------------------
(***************************************************************************)
(* Order nonces: AllocateRuntimeNonce (internal/persistence/store.go) and  *)
(* the provider that calls it (cmd/worker/main.go).  Several workers trade *)
(* for the same address on one database; each may end and be started again *)
(* with another POLY_ORDER_NONCE.  The statement that allocates is atomic, *)
(* its answer is not: the row has moved on when the answer is on its way.  *)
(***************************************************************************)
EXTENDS Integers, Sequences

CONSTANTS
  Workers,
  Addresses,        \* POLY_TRADER_ADDRESS as <<trader, spelling>>
  AddressOf,        \* the address in each worker's environment
  Seeds,            \* values of POLY_ORDER_NONCE
  MaxInt4, MaxInt8, \* the largest integer and bigint of Postgres
  MaxEdits          \* bound: how often somebody edits a row by hand

Number(n) == [kind |-> "number", value |-> n]
Absent == [kind |-> "absent", value |-> 0]
Text == [kind |-> "text", value |-> 0]

ASSUME NonceAssumption ==
  /\ AddressOf \in [Workers -> Addresses]
  /\ \A address \in Addresses : DOMAIN address = 1..2
  /\ Seeds \subseteq Int
  /\ MaxInt4 \in Nat
  /\ MaxInt8 \in Nat
  /\ MaxInt4 <= MaxInt8
  /\ MaxEdits \in Nat

(* Mutant: the address is used as it is spelled. *)
StateKeyAsSpelled(address) == address

(* "nonce:" with strings.ToLower(creds.Address). *)
StateKey(address) == <<address[1], "lower">>

StateKeys == {StateKey(a) : a \in Addresses} \cup Addresses

VARIABLES
  rows,     \* runtime_state: a row per key
  pc,       \* "down", "ready", or "answer": a nonce is on its way
  seed,     \* the worker's POLY_ORDER_NONCE
  answer,   \* what the statement returned to each worker
  given,    \* history: <<trader, nonce>> of the orders signed, in order
  edits     \* how often a row was edited by hand

vars == <<rows, pc, seed, answer, given, edits>>

Key(w) == StateKey(AddressOf[w])
Trader(w) == AddressOf[w][1]

Init ==
  /\ rows = [k \in StateKeys |-> Absent]
  /\ pc = [w \in Workers |-> "down"]
  /\ seed = [w \in Workers |-> 0]
  /\ answer = [w \in Workers |-> 0]
  /\ given = <<>>
  /\ edits = 0

(* A new process; newDBAtomicNonceProvider refuses a negative seed.        *)
Start(w) ==
  /\ pc[w] = "down"
  /\ \E s \in Seeds :
       /\ s >= 0
       /\ seed' = [seed EXCEPT ![w] = s]
  /\ pc' = [pc EXCEPT ![w] = "ready"]
  /\ UNCHANGED <<rows, answer, given, edits>>

(* The new value: of an absent row and of one that is not a number it is   *)
(* the seed's successor.  The statement returns the new value less one.    *)
Allocated(row, s) == IF row.kind = "number" THEN row.value + 1 ELSE s + 1

(* $2 + 1 is computed as an integer whether or not the row exists, the     *)
(* row's successor as a bigint.                                            *)
Overflows(row, s) ==
  \/ s + 1 > MaxInt4
  \/ row.kind = "number" /\ row.value + 1 > MaxInt8

Allocate(w) ==
  /\ pc[w] = "ready"
  /\ ~Overflows(rows[Key(w)], seed[w])
  /\ LET value == Allocated(rows[Key(w)], seed[w])
     IN  /\ rows' = [rows EXCEPT ![Key(w)] = Number(value)]
         /\ answer' = [answer EXCEPT ![w] = value - 1]
  /\ pc' = [pc EXCEPT ![w] = "answer"]
  /\ UNCHANGED <<seed, given, edits>>

(* Mutant: a negative answer is used. *)
ReceiveAny(w) ==
  /\ pc[w] = "answer"
  /\ given' = Append(given, <<Trader(w), answer[w]>>)
  /\ pc' = [pc EXCEPT ![w] = "ready"]
  /\ answer' = [answer EXCEPT ![w] = 0]
  /\ UNCHANGED <<rows, seed, edits>>

(* The answer arrives and an order is signed with it. *)
Receive(w) ==
  /\ pc[w] = "answer"
  /\ answer[w] >= 0
  /\ given' = Append(given, <<Trader(w), answer[w]>>)
  /\ pc' = [pc EXCEPT ![w] = "ready"]
  /\ answer' = [answer EXCEPT ![w] = 0]
  /\ UNCHANGED <<rows, seed, edits>>

(* The process ends and its memory is gone. *)
Down(w) ==
  /\ pc' = [pc EXCEPT ![w] = "down"]
  /\ seed' = [seed EXCEPT ![w] = 0]
  /\ answer' = [answer EXCEPT ![w] = 0]
  /\ UNCHANGED <<rows, given, edits>>

(* The statement fails, or its answer is negative: Run returns the error.  *)
AllocateFails(w) ==
  /\ \/ pc[w] = "ready" /\ Overflows(rows[Key(w)], seed[w])
     \/ pc[w] = "answer" /\ answer[w] < 0
  /\ Down(w)

(* The process dies, or the connection does and the answer is lost.        *)
Crash(w) ==
  /\ pc[w] # "down"
  /\ Down(w)

(* Somebody writes something that is not a number, or a negative one.      *)
Edit(w) ==
  /\ edits < MaxEdits
  /\ \E row \in {Text, Number(-1)} : rows' = [rows EXCEPT ![Key(w)] = row]
  /\ edits' = edits + 1
  /\ UNCHANGED <<pc, seed, answer, given>>

Worker(w) == Start(w) \/ Allocate(w) \/ Receive(w) \/ AllocateFails(w) \/ Crash(w)

Next == \E w \in Workers : Worker(w) \/ Edit(w)

Spec == Init /\ [][Next]_vars

-----------------------------------------------------------------------------
(* Every variable has its type. *)
TypeOK ==
  /\ rows \in [StateKeys -> [kind : {"absent", "number", "text"}, value : Int]]
  /\ pc \in [Workers -> {"down", "ready", "answer"}]
  /\ seed \in [Workers -> Nat]
  /\ answer \in [Workers -> Int]
  /\ given \in Seq({a[1] : a \in Addresses} \X Nat)
  /\ edits \in Nat

(* No two orders of a trader are signed with the same nonce, whatever the  *)
(* workers, their seeds, crashes and lost answers, as long as nobody edits *)
(* the row.                                                                *)
NoncesUnique ==
  edits = 0 => \A i, j \in DOMAIN given : given[i] = given[j] => i = j
=============================================================================
