---------------------------- MODULE MCWorkerParts ----------------------------
(***************************************************************************)
(* Instances for TLC of four parts of the worker that share no variable:   *)
(* nonces, order building, the strategy and alerting.  A behaviour picks   *)
(* one part and stays with it, so that one run checks them all and the     *)
(* states of the parts add up instead of multiplying.                      *)
(***************************************************************************)
EXTENDS NonceAllocator, OrderBuilding, RankShift, Alerting, TLC

CONSTANTS w1, w2

(* Two workers for one trader, whose address they spell differently. *)
MCAddresses == {<<"trader", "lower">>, <<"trader", "Mixed">>}
MCAddressOf == (w1 :> <<"trader", "lower">>) @@ (w2 :> <<"trader", "Mixed">>)
MCSeeds == {-1, 0, 1, 2}

(* Prices in tenths, offsets in tenths; the default range is 0.01 to 0.99. *)
T(n) == 20 * n
MCPrices == {T(-1), T(0), T(3), T(9)}
MCMins == {T(0), T(2), T(6)}
MCMaxs == {T(5), T(8), T(10)}
MCOffsets == {-1, 1, 4}
MCBooks ==
  [bids : {{}, {T(4)}, {T(2), T(7)}, {T(0), T(12)}},
   asks : {{}, {T(5)}, {T(3), T(9)}, {T(10)}}]

(* NaN is -1, an infinity 1000000 and an unreadable payload -2. *)
MCPayloads == {-2, -1, 0, 2, 3, 1000000}

(* The cfg gives Alerting the thresholds 2 and 4, after NewAutoPilot's     *)
(* correction, and signals that are severe, so that one cooldown of each   *)
(* kind is in play.                                                        *)

VARIABLE part

others == <<part, vars, builderVars, strategyVars>>
allVars == <<others, alertingVars>>

AnEnvironment ==
  [wellFormed |-> TRUE, privateKey |-> TRUE, dynamic |-> TRUE, price |-> T(3), min |-> T(2),
   max |-> T(8), offset |-> 1, side |-> "BUY", notional |-> 30, token |-> "t"]

PartsInit ==
  /\ part \in {"nonces", "orders", "strategy", "alerts"}
  /\ IF part = "orders" THEN BuilderInit
     ELSE /\ env = AnEnvironment /\ builder = "startup"
          /\ nonce = 0 /\ request = NoRequest /\ built = 0 /\ burnt = 0
  /\ Init /\ StrategyInit /\ AlertingInit

PartsNext ==
  \/ part = "nonces" /\ Next /\ UNCHANGED <<part, builderVars, strategyVars, alertingVars>>
  \/ part = "orders" /\ BuilderNext /\ UNCHANGED <<part, vars, strategyVars, alertingVars>>
  \/ part = "strategy" /\ StrategyNext /\ UNCHANGED <<part, vars, builderVars, alertingVars>>
  \/ part = "alerts" /\ AlertingNext /\ UNCHANGED others

(* The fairness of Alerting. *)
PartsSpec ==
  /\ PartsInit /\ [][PartsNext]_allVars
  /\ WF_allVars(part = "alerts" /\ Step /\ UNCHANGED others)
  /\ WF_allVars(part = "alerts" /\ TimePasses /\ sender # "idle" /\ UNCHANGED others)

-----------------------------------------------------------------------------
(* Every part keeps the types of its variables; the other properties of    *)
(* the run are those of the modules.                                       *)
TypesOK == TypeOK /\ BuilderTypeOK /\ StrategyTypeOK /\ AlertingTypeOK
=============================================================================
