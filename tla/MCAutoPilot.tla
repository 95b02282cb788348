----------------------------- MODULE MCAutoPilot -----------------------------
(***************************************************************************)
(* Instances of AutoPilot for TLC: every signal is about the one market m, *)
(* whose cap has room for two of the orders.                               *)
(***************************************************************************)
EXTENDS AutoPilot, TLC

OneMarket == {"m"}
OneCountry == {"US"}
NoClusters == [x \in {} |-> ""]
NoClusterCaps == [x \in {} |-> 0]
Nothing == {}

MCOrderFor == [s \in Signals |-> [key |-> s, market |-> "m", country |-> "US", notional |-> 1]]

SignalSymmetry == Permutations(Signals)

(* What a successful PostOrder may answer: "live", no status, "matched",   *)
(* and "matched" in capitals.                                              *)
Spellings == {Spelled("live"), Spelled(""), Spelled("matched"),
              [word |-> "matched", exact |-> FALSE]}
JustLive == {Spelled("live")}
=============================================================================
