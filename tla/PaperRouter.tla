----------------------------- MODULE PaperRouter -----------------------------
(***************************************************************************)
(* PaperRouter (internal/execution/paper_router.go) beside the LiveRouter  *)
(* it stands in for: the same orders and the same PnL go to both, one      *)
(* after the other, under the same market cap and daily loss cap.          *)
(***************************************************************************)
EXTENDS RiskGate

CONSTANTS
  Orders,      \* orders that are submitted
  PnLs,        \* amounts that are recorded
  MaxPnL       \* bound: the day's PnL stays within it on both sides

ASSUME PaperAssumption == Orders \subseteq LiveOrder /\ PnLs \subseteq Int /\ MaxPnL \in Nat

VARIABLES
  paper,       \* the PaperRouter
  live,        \* the LiveRouter
  killed,      \* its kill switch
  verdicts,    \* what the two answered to the last order
  parted       \* history: an order was refused by a check only LiveRouter
               \* has, or an operator set or cleared the kill switch

vars == <<paper, live, killed, verdicts, parted>>

Init ==
  /\ paper = [exposure |-> [m \in Markets \cup {Empty} |-> 0], dayPnL |-> 0, halted |-> FALSE]
  /\ live = NewLiveRouter
  /\ killed = FALSE
  /\ verdicts = [paper |-> FALSE, live |-> FALSE]
  /\ parted = FALSE

PaperNextExposure(o) == paper.exposure[o.market] + o.notional

(* Mutants: an order need not have a positive notional; the exposure that  *)
(* is compared is the one before the order.                                *)
PaperTakesAnyNotional(o) ==
  /\ ~paper.halted
  /\ Empty \notin {o.key, o.market}
  /\ ~Exceeds(PaperNextExposure(o), PerMarketExposureCap)

PaperTakesBelowCap(o) ==
  /\ ~paper.halted
  /\ Empty \notin {o.key, o.market} /\ o.notional > 0
  /\ ~Exceeds(paper.exposure[o.market], PerMarketExposureCap)

(* PaperRouter.Submit: neither keys nor countries are looked at twice.     *)
PaperTakes(o) ==
  /\ ~paper.halted
  /\ Empty \notin {o.key, o.market} /\ o.notional > 0
  /\ ~Exceeds(PaperNextExposure(o), PerMarketExposureCap)

LiveTakes(o) == ~killed /\ Admits(live, o, 0)

(* The checks that PaperRouter does not have. *)
OnlyLiveRefuses(o) ==
  \/ o.country = Empty
  \/ \E check \in {"market_not_whitelisted", "geoblock_compliance", "compliance_failed",
                   "stale_data_cutoff", "duplicate_order_key", "cluster_exposure_cap"} :
       Fails(live, o, 0)[check]

Submit(o) ==
  /\ paper' = IF PaperTakes(o)
              THEN [paper EXCEPT !.exposure[o.market] = PaperNextExposure(o)]
              ELSE paper
  /\ live' = IF LiveTakes(o)
             THEN Commit(live, o, NextExposure(live, o), NextClusterExposure(live, o))
             ELSE live
  /\ verdicts' = [paper |-> PaperTakes(o), live |-> LiveTakes(o)]
  /\ parted' = (parted \/ OnlyLiveRefuses(o))
  /\ UNCHANGED killed

(* Mutant: the halt is lifted when the loss is made good. *)
HaltedNow(dayPnL) == Exceeds(-dayPnL, DailyLossCap)

(* PaperRouter.halted after a PnL: never cleared. *)
Halted(dayPnL) == paper.halted \/ Exceeds(-dayPnL, DailyLossCap)

RecordPnL(pnl) ==
  LET dayPnL == paper.dayPnL + pnl IN
  /\ dayPnL \in -MaxPnL..MaxPnL
  /\ paper' = [paper EXCEPT !.dayPnL = dayPnL, !.halted = Halted(dayPnL)]
  /\ live' = [live EXCEPT !.dayPnL = @ + pnl]
  /\ killed' = (killed \/ LossCapExceeded(live'))
  /\ UNCHANGED <<verdicts, parted>>

(* An operator stops or clears the live side; the paper side has neither   *)
(* method.                                                                 *)
OperatorTrigger ==
  /\ killed' = TRUE
  /\ parted' = (parted \/ ~killed)
  /\ UNCHANGED <<paper, live, verdicts>>

Reset ==
  /\ killed' = FALSE
  /\ parted' = (parted \/ killed)
  /\ UNCHANGED <<paper, live, verdicts>>

Next ==
  \/ \E o \in Orders : Submit(o)
  \/ \E pnl \in PnLs : RecordPnL(pnl)
  \/ OperatorTrigger \/ Reset

Spec == Init /\ [][Next]_vars

-----------------------------------------------------------------------------
(* The routers keep their types, and an exposure is never negative.        *)
TypeOK ==
  /\ paper \in [exposure : [Markets \cup {Empty} -> Nat], dayPnL : Int, halted : BOOLEAN]
  /\ live \in Router
  /\ killed \in BOOLEAN
  /\ verdicts \in [paper : BOOLEAN, live : BOOLEAN]
  /\ parted \in BOOLEAN

(* No sequence of orders takes a market of the paper router over its cap.  *)
PaperCapHolds ==
  PerMarketExposureCap > 0 =>
    \A m \in Markets : paper.exposure[m] <= PerMarketExposureCap

(* Paper/live parity, where it exists: while no check that only the live   *)
(* router has refused an order and no operator has set or cleared the kill *)
(* switch, the two hold the same exposure, stop for the same losses and    *)
(* give every order the same verdict.                                      *)
Parity ==
  ~parted =>
    /\ paper.exposure = live.exposure
    /\ paper.dayPnL = live.dayPnL
    /\ paper.halted = killed
    /\ verdicts.paper = verdicts.live

=============================================================================
