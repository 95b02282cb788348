------------------------------ MODULE RiskGate ------------------------------
(***************************************************************************)
(* The decision part of LiveRouter.Submit (internal/execution/             *)
(* live_router.go): which checks an order must pass, in which order they   *)
(* are reported, and what an accepted order changes in the router's        *)
(* memory.  The module has no variables: LiveRouter runs the checks inside *)
(* a critical section shared by threads, AutoPilot runs them from the      *)
(* worker's single event loop.                                             *)
(*                                                                         *)
(* `router' is a record with the fields seenKeys, exposure,                *)
(* clusterExposure and dayPnL of the Go struct.  The kill switch is        *)
(* another object, with a lock of its own, and is not part of it.          *)
(* Money is an integer: the properties compare sums, they do not round.    *)
(***************************************************************************)
EXTENDS Integers, Sequences, FiniteSetsExt

CONSTANTS
  Markets,                \* market identifiers orders may name
  Keys,                   \* order keys
  Countries,              \* country codes
  WhitelistMarkets,       \* LiveConfig.WhitelistMarkets
  AllowedCountries,       \* LiveConfig.AllowedCountries; {} turns the check off
  MarketCluster,          \* LiveConfig.MarketCluster, a function on some markets
  PerMarketExposureCap,   \* <= 0 turns the check off
  PerClusterExposureCap,  \* a function on some clusters; <= 0 turns it off
  DailyLossCap,           \* <= 0 turns the check off
  StaleCutoff,            \* <= 0 turns the check off
  ComplianceRejects       \* the orders LiveConfig.ComplianceHook fails

(* The empty Go string: a missing field of an order, a missing reason. *)
Empty == ""

LiveOrder == [key : Keys \cup {Empty}, market : Markets \cup {Empty},
              country : Countries \cup {Empty}, notional : Int]

(* LiveOrder{}, the zero value. *)
NoOrder == [key |-> Empty, market |-> Empty, country |-> Empty, notional |-> 0]

ClusterNames == Markets \cup {Empty}
                  \cup {MarketCluster[m] : m \in DOMAIN MarketCluster}

(* A market that is mapped to no cluster, or to "", is its own cluster. *)
ClusterOf(m) ==
  IF m \in DOMAIN MarketCluster /\ MarketCluster[m] # Empty
  THEN MarketCluster[m]
  ELSE m

ASSUME RiskGateAssumption ==
  /\ Empty \notin Markets \cup Keys \cup Countries
  /\ WhitelistMarkets \subseteq Markets
  /\ DOMAIN MarketCluster \subseteq Markets
  /\ PerMarketExposureCap \in Int
  /\ DailyLossCap \in Int
  /\ StaleCutoff \in Int
  /\ \A c \in DOMAIN PerClusterExposureCap : PerClusterExposureCap[c] \in Int

Router == [seenKeys : SUBSET Keys,
           exposure : [Markets \cup {Empty} -> Int],
           clusterExposure : [ClusterNames -> Int],
           dayPnL : Int]

(* NewLiveRouter: reading an absent key of a Go map gives 0. *)
NewLiveRouter ==
  [seenKeys |-> {},
   exposure |-> [m \in Markets \cup {Empty} |-> 0],
   clusterExposure |-> [c \in ClusterNames |-> 0],
   dayPnL |-> 0]

(* What the orders with the indices S are worth together. *)
TotalNotional(orders, S) == MapThenSumSet(LAMBDA i : orders[i].notional, S)

Exceeds(value, cap) == cap > 0 /\ value > cap

LossCapExceeded(router) == Exceeds(-router.dayPnL, DailyLossCap)

NextExposure(router, o) == router.exposure[o.market] + o.notional

NextClusterExposure(router, o) ==
  router.clusterExposure[ClusterOf(o.market)] + o.notional

ClusterCapExceeded(cluster, value) ==
  /\ cluster \in DOMAIN PerClusterExposureCap
  /\ Exceeds(value, PerClusterExposureCap[cluster])

(* Each check of Submit after the kill switch, by the reason it returns. *)
Fails(router, o, dataAge) ==
  [daily_loss_cap         |-> LossCapExceeded(router),
   invalid_live_order     |-> Empty \in {o.key, o.market, o.country} \/ o.notional <= 0,
   market_not_whitelisted |-> o.market \notin WhitelistMarkets,
   geoblock_compliance    |-> AllowedCountries # {} /\ o.country \notin AllowedCountries,
   compliance_failed      |-> o \in ComplianceRejects,
   stale_data_cutoff      |-> Exceeds(dataAge, StaleCutoff),
   duplicate_order_key    |-> o.key \in router.seenKeys,
   market_exposure_cap    |-> Exceeds(NextExposure(router, o), PerMarketExposureCap),
   cluster_exposure_cap   |-> ClusterCapExceeded(ClusterOf(o.market),
                                                 NextClusterExposure(router, o))]

(* The order in which Submit makes the checks. *)
CheckOrder ==
  <<"daily_loss_cap", "invalid_live_order", "market_not_whitelisted",
    "geoblock_compliance", "compliance_failed", "stale_data_cutoff",
    "duplicate_order_key", "market_exposure_cap", "cluster_exposure_cap">>

RefusalReasons == {CheckOrder[i] : i \in DOMAIN CheckOrder}

(* Mutant: an order is not validated. *)
AdmitsUnvalidated(router, o, dataAge) ==
  \A i \in DOMAIN CheckOrder \ {2} : ~Fails(router, o, dataAge)[CheckOrder[i]]

(* Submit returns true when no check fails ...                             *)
Admits(router, o, dataAge) ==
  \A i \in DOMAIN CheckOrder : ~Fails(router, o, dataAge)[CheckOrder[i]]

(* ... and otherwise names the first check, in code order, that fails.     *)
Refusal(router, o, dataAge) ==
  LET failing == {i \in DOMAIN CheckOrder : Fails(router, o, dataAge)[CheckOrder[i]]}
  IN  CheckOrder[CHOOSE i \in failing : \A j \in failing : i <= j]

(* Mutant: the key of an accepted order is not remembered. *)
CommitForgetsKey(router, o, nextExposure, nextClusterExposure) ==
  [router EXCEPT
     !.exposure[o.market] = nextExposure,
     !.clusterExposure[ClusterOf(o.market)] = nextClusterExposure]

(* What an accepted order writes, given the two sums Submit computed.      *)
Commit(router, o, nextExposure, nextClusterExposure) ==
  [router EXCEPT
     !.exposure[o.market] = nextExposure,
     !.clusterExposure[ClusterOf(o.market)] = nextClusterExposure,
     !.seenKeys = @ \cup {o.key}]
=============================================================================
