--------------------------- MODULE MCOfflineParts ---------------------------
(***************************************************************************)
(* Instances for TLC of three parts that run apart from the worker and     *)
(* share no variable: the paper router beside the live one, the ledger of  *)
(* raw events, and the asset picker.  As in MCWorkerParts, a behaviour     *)
(* picks one part and stays with it.                                       *)
(***************************************************************************)
EXTENDS PaperRouter, RawLedger, AssetPicker, TLC

MCCluster == "m1" :> "c1" @@ "m2" :> "c1"
MCClusterCaps == "c1" :> 5
MCOrder(k, m, c, n) == [key |-> k, market |-> m, country |-> c, notional |-> n]
MCOrders ==
  {MCOrder(k, m, "US", n) : k \in {"k1", "k2", "k3"}, m \in {"m1", "m2"}, n \in {-1, 2, 3}}
    \cup {MCOrder("", "m1", "US", 1), MCOrder("k1", "", "US", 1), MCOrder("k1", "m1", "", 1),
          MCOrder("k1", "m1", "IR", 1), MCOrder("k1", "m3", "US", 1)}
MCPnLs == {-2, 1}

(* Two events of one sequence number, one without a number, and a gap of   *)
(* two, which the second of them lies in.                                  *)
Event(id, seq) == [id |-> id, seq |-> seq, at |-> 0]
MCStream == {Event(11, 1), Event(12, 1), Event(14, 4), Event(10, 0), Event(13, 3)}

(* Pages of two of five markets, one of which is closed and one idle.      *)
AMarket(id, tag, event, volume, liquidity, open) ==
  [id |-> id, tag |-> tag, event |-> event, volume |-> volume, liquidity |-> liquidity,
   tokens |-> <<2 * id, 2 * id + 1>>, open |-> open]
MCVenue ==
  {AMarket(1, "sports", "sports", 9, 9, TRUE), AMarket(2, "unknown", "sports", 9, 8, TRUE),
   AMarket(3, "crypto", "crypto", 8, 9, TRUE), AMarket(4, "unknown", "crypto", 7, 0, TRUE),
   AMarket(5, "sports", "sports", 6, 6, FALSE)}

VARIABLE part

PartsInit ==
  /\ part \in {"routers", "ledger", "picker"}
  /\ Init /\ LedgerInit
  /\ IF part = "picker" THEN PickerInit
     ELSE /\ pc = "events" /\ listing = <<>> /\ changes = 0 /\ categories = FALSE
          /\ offset = 0 /\ fetched = <<>> /\ output = NoOutput

PartsNext ==
  \/ part = "routers" /\ Next /\ UNCHANGED <<part, ledgerVars, pickerVars>>
  \/ part = "ledger" /\ LedgerNext /\ UNCHANGED <<part, vars, pickerVars>>
  \/ part = "picker" /\ PickerNext /\ UNCHANGED <<part, vars, ledgerVars>>

PartsSpec == PartsInit /\ [][PartsNext]_<<part, vars, ledgerVars, pickerVars>>

-----------------------------------------------------------------------------
(* Every part keeps the types of its variables; the other properties of    *)
(* the run are those of the modules.                                       *)
TypesOK == TypeOK /\ LedgerTypeOK /\ PickerTypeOK
=============================================================================
