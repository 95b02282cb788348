---------------------------- MODULE MCLiveRouter ----------------------------
(***************************************************************************)
(* Instances of LiveRouter for TLC.  Both markets of the first instance    *)
(* are in one cluster, as in tests/e2e/live_guardrails_test.go; the caps   *)
(* are such that each of them refuses something, and every check of Submit *)
(* is failed by some order.                                                *)
(***************************************************************************)
EXTENDS LiveRouter

Order(k, m, c, n) == [key |-> k, market |-> m, country |-> c, notional |-> n]

MCMarkets == {"m1", "m2", "m3"}
MCKeys == {"k1", "k2", "k3"}
MCWhitelist == {"m1", "m2"}
MCCountries == {"US"}
MCCluster == [m \in {"m1", "m2"} |-> "c"]
MCClusterCap == [c \in {"c"} |-> 3]
Refused == Order("k2", "m1", "US", 3)
MCComplianceRejects == {Refused}
MCPnLs == {-2, 1}
MCPnLRange == -2..1

(* Retries, both caps, and one order for each of the other refusals. *)
MCLiveOrders ==
  {Order("k1", "m1", "US", 2), Order("k2", "m2", "US", 2), Order("k3", "m1", "US", 1),
   Order("k3", "m3", "US", 1), Order("k3", "m2", "IR", 1), Refused,
   Order("", "m1", "US", 1)}
=============================================================================
