---------------------------- MODULE OrderTracking ----------------------------
(***************************************************************************)
(* What the order ledger promises about the exchange, without saying how   *)
(* the worker goes about it.                                               *)
(*                                                                         *)
(* book[o] is the truth: where the order is on the exchange.  known[o] is  *)
(* what a reader of the ledger concludes: nothing yet ("none"), that it is *)
(* open, or its terminal status.  An order that is on the exchange without *)
(* a row and that nobody will ever write one for is "lost".                *)
(***************************************************************************)
CONSTANT Orders

VARIABLES book, known
vars == <<book, known>>

Resting == "live"
Outcomes == {"matched", "canceled"}
Books == {"none", Resting} \cup Outcomes
Knowledge == {"none", "lost", "open", "failed"} \cup Outcomes

Init ==
  /\ book = [o \in Orders |-> "none"]
  /\ known = [o \in Orders |-> "none"]

(* The order reaches the exchange; its id may be lost on the way back. *)
Place(o) ==
  /\ book[o] = "none" /\ known[o] = "none"
  /\ \E where \in {Resting, "matched"} : book' = [book EXCEPT ![o] = where]
  /\ \E k \in {"none", "lost"} : known' = [known EXCEPT ![o] = k]

(* The exchange turns the order down and the ledger says so. *)
Refuse(o) ==
  /\ book[o] = "none" /\ known[o] = "none"
  /\ known' = [known EXCEPT ![o] = "failed"]
  /\ UNCHANGED book

Close(o) ==
  /\ book[o] = Resting
  /\ \E outcome \in Outcomes : book' = [book EXCEPT ![o] = outcome]
  /\ UNCHANGED known

(* The first row of a placed order. *)
Record(o) ==
  /\ book[o] # "none" /\ known[o] = "none"
  /\ \E k \in {"open"} \cup ({book[o]} \cap Outcomes) : known' = [known EXCEPT ![o] = k]
  /\ UNCHANGED book

Lose(o) ==
  /\ book[o] # "none" /\ known[o] = "none"
  /\ known' = [known EXCEPT ![o] = "lost"]
  /\ UNCHANGED book

(* A later row closes the order, and only with what really happened. *)
Learn(o) ==
  /\ known[o] = "open" /\ book[o] \in Outcomes
  /\ known' = [known EXCEPT ![o] = book[o]]
  /\ UNCHANGED book

Next == \E o \in Orders :
  Place(o) \/ Refuse(o) \/ Close(o) \/ Record(o) \/ Lose(o) \/ Learn(o)

Spec == Init /\ [][Next]_vars

(* Nobody owes the worker a fill, but it owes its reader the outcome. *)
FairSpec == Spec /\ \A o \in Orders : WF_vars(Learn(o))
=============================================================================
