-------------------------- MODULE RankShiftProofs --------------------------
(***************************************************************************)
(* Proofs about RankShift, for any prices, spread and cooldown.            *)
(***************************************************************************)
EXTENDS RankShift, TLAPS

Pair == {AssetA, AssetB}
OtherOf(asset) == IF asset = AssetA THEN AssetB ELSE AssetA

-----------------------------------------------------------------------------
(* The inductive invariant, beside StrategyTypeOK. *)

Counted == unsignalled \in Nat

(* The leader is that of the prices at hand, once both are known. *)
LeaderOfPrices == leader # "" => leader = Leader(prices)

(* The cooldown is counted from the last signal. *)
SinceTheSignal == signal # NoSignal => signal.at = lastSignalAt /\ lastSignalAt # NoTime

(* After a signal the other asset leads; every later flip, signalled or    *)
(* not, passes the lead on.                                                *)
LeadAlternates ==
  signal # NoSignal =>
    leader = IF unsignalled % 2 = 0 THEN OtherOf(signal.asset) ELSE signal.asset

IInv == StrategyTypeOK /\ Counted /\ LeaderOfPrices /\ SinceTheSignal /\ LeadAlternates

-----------------------------------------------------------------------------
LEMMA Parity ==
  ASSUME NEW n \in Nat
  PROVE  /\ n % 2 \in {0, 1}
         /\ n % 2 = 0 <=> (n + 1) % 2 = 1
BY SMT

LEMMA Encoding ==
  /\ Inf \in Nat /\ NaN \in Int /\ Unreadable \in Int
  /\ NaN \notin Nat /\ Unreadable \notin Nat /\ NoTime \notin Nat
BY SMT DEF Inf, NaN, Unreadable, NoTime

LEMMA PricesAreIntegers ==
  ASSUME NEW p \in Payloads
  PROVE  p \in Int
<1>1. p \in 0..Inf \/ p = NaN \/ p = Unreadable
  BY RankShiftAssumption
<1> QED
  BY <1>1, Encoding

(* A price that parses keeps the leader known where it was. *)
LEMMA PriceKept ==
  ASSUME StrategyTypeOK, NEW asset \in Pair, NEW price \in Payloads
  PROVE  [prices EXCEPT ![asset] = price] \in [Pair -> Payloads]
BY RankShiftAssumption DEF StrategyTypeOK, Pair

LEMMA LeaderIsOfPair ==
  ASSUME NEW ps
  PROVE  Leader(ps) \in Pair /\ Leader(ps) # ""
BY RankShiftAssumption DEF Leader, Pair

LEMMA LeaderIs ==
  ASSUME NEW ps
  PROVE  /\ Leader(ps) = AssetB => Greater(ps[AssetB], ps[AssetA])
         /\ Leader(ps) = AssetA => ~Greater(ps[AssetB], ps[AssetA])
BY RankShiftAssumption DEF Leader

(* What an update for one of the pair may do, at the level of IInv.        *)
LEMMA FirstPricesStep ==
  ASSUME IInv, NEW asset \in Pair, NEW price \in Payloads, FirstPrices(asset, price)
  PROVE  IInv'
<1> DEFINE ps == [prices EXCEPT ![asset] = price]
<1>1. /\ leader = "" /\ prices' = ps /\ leader' = (IF Known(ps) THEN Leader(ps) ELSE "")
      /\ UNCHANGED <<clock, lastSignalAt, signal, repeats, unsignalled>>
  BY DEF FirstPrices
<1>2. ps \in [Pair -> Payloads] /\ Leader(ps) \in Pair /\ Leader(ps) # ""
  BY PriceKept, LeaderIsOfPair DEF IInv
<1> HIDE DEF ps
<1>3. leader' # "" <=> \A a \in Pair : prices'[a] # Unknown
  BY <1>1, <1>2 DEF Known, Pair
<1>4. StrategyTypeOK'
  BY <1>1, <1>2, <1>3 DEF IInv, StrategyTypeOK, Pair
<1>5. signal = NoSignal
  BY <1>1, Parity, RankShiftAssumption DEF IInv, LeadAlternates, StrategyTypeOK, Counted, OtherOf
<1> QED
  BY <1>1, <1>4, <1>5 DEF IInv, Counted, LeaderOfPrices, SinceTheSignal, LeadAlternates

LEMMA QuietStep ==
  ASSUME IInv, NEW asset \in Pair, NEW price \in Payloads, price # Unreadable,
         Quiet(asset, price)
  PROVE  IInv'
<1> DEFINE ps == [prices EXCEPT ![asset] = price]
<1>1. /\ leader # "" /\ prices' = ps /\ leader' = Leader(ps)
      /\ unsignalled' = IF Flipped(ps) THEN unsignalled + 1 ELSE unsignalled
      /\ UNCHANGED <<clock, lastSignalAt, signal, repeats>>
  BY DEF Quiet, NextLeader
<1>2. ps \in [Pair -> Payloads] /\ Leader(ps) \in Pair /\ Leader(ps) # ""
  BY PriceKept, LeaderIsOfPair DEF IInv
<1>3. \A a \in Pair : ps[a] # Unknown
  BY <1>1 DEF IInv, StrategyTypeOK, Pair, Unknown
<1> HIDE DEF ps
<1>4. StrategyTypeOK'
  BY <1>1, <1>2, <1>3 DEF IInv, StrategyTypeOK, Pair
<1>5. Flipped(ps) <=> leader' # leader
  BY <1>1 DEF IInv, StrategyTypeOK, LeaderOfPrices, Flipped, Known
<1>6. LeadAlternates'
  <2> SUFFICES ASSUME signal # NoSignal
               PROVE  leader' = IF unsignalled' % 2 = 0 THEN OtherOf(signal.asset) ELSE signal.asset
    BY <1>1 DEF LeadAlternates
  <2>1. /\ signal.asset \in Pair /\ unsignalled \in Nat /\ leader \in Pair
        /\ leader = IF unsignalled % 2 = 0 THEN OtherOf(signal.asset) ELSE signal.asset
    BY <1>1 DEF IInv, StrategyTypeOK, Pair, Counted, LeadAlternates
  <2>2. CASE leader' = leader
    BY <1>1, <1>5, <2>1, <2>2
  <2>3. CASE leader' # leader
    <3>1. unsignalled' = unsignalled + 1
      BY <1>1, <1>5, <2>3
    <3>2. unsignalled % 2 \in {0, 1} /\ unsignalled' % 2 \in {0, 1}
          /\ (unsignalled % 2 = 0 <=> unsignalled' % 2 = 1)
      BY <2>1, <3>1, Parity
    <3>3. AssetA # AssetB /\ leader' \in Pair
      BY <1>1, <1>2, RankShiftAssumption
    <3>4. CASE unsignalled % 2 = 0
      BY <2>1, <2>3, <3>2, <3>3, <3>4 DEF OtherOf, Pair
    <3>5. CASE unsignalled % 2 = 1
      BY <2>1, <2>3, <3>2, <3>3, <3>5 DEF OtherOf, Pair
    <3> QED
      BY <3>2, <3>4, <3>5
  <2> QED
    BY <2>2, <2>3
<1>7. Counted'
  <2>1. unsignalled' = unsignalled \/ unsignalled' = unsignalled + 1
    BY <1>1
  <2> QED
    BY <2>1 DEF IInv, Counted
<1> QED
  BY <1>1, <1>4, <1>6, <1>7 DEF IInv, LeaderOfPrices, SinceTheSignal

(* A signal names the leader that was overtaken; the cooldown has elapsed, *)
(* and the spread was wide enough.                                         *)
LEMMA EmitsFacts ==
  ASSUME IInv, NEW asset \in Pair, NEW price \in Payloads, Emits(asset, price)
  PROVE  /\ prices' = [prices EXCEPT ![asset] = price] /\ prices' \in [Pair -> Payloads]
         /\ leader \in Pair /\ leader' = OtherOf(leader)
         /\ leader = Leader(prices) /\ leader' = Leader(prices')
         /\ signal' = [asset |-> leader, spread |-> Diff(prices'), at |-> clock]
         /\ ~Greater(FlipSpread, Diff(prices'))
         /\ lastSignalAt = NoTime \/ clock - lastSignalAt >= Cooldown
         /\ signal # NoSignal => (repeats' <=> signal.asset = leader)
         /\ unsignalled' = 0 /\ lastSignalAt' = clock /\ clock' = clock
<1> DEFINE ps == [prices EXCEPT ![asset] = price]
<1>1. ps \in [Pair -> Payloads] /\ Leader(ps) \in Pair
  BY PriceKept, LeaderIsOfPair DEF IInv
<1>2. /\ leader # "" /\ Leader(ps) # leader /\ leader' = Leader(ps)
      /\ ~Greater(FlipSpread, Diff(ps)) /\ prices' = ps
      /\ lastSignalAt = NoTime \/ clock - lastSignalAt >= Cooldown
      /\ signal' = [asset |-> leader, spread |-> Diff(ps), at |-> clock]
      /\ signal # NoSignal => (repeats' <=> signal.asset = leader)
      /\ unsignalled' = 0 /\ lastSignalAt' = clock /\ clock' = clock
  BY DEF Emits, Signals, NextLeader, WideEnough, CooledDown
<1> HIDE DEF ps
<1>3. leader \in Pair /\ leader = Leader(prices)
  BY <1>2 DEF IInv, StrategyTypeOK, Pair, LeaderOfPrices
<1>4. leader' = OtherOf(leader)
  BY <1>1, <1>2, <1>3 DEF OtherOf, Pair
<1> QED
  BY <1>1, <1>2, <1>3, <1>4 DEF ps

LEMMA EmitsStep ==
  ASSUME IInv, NEW asset \in Pair, NEW price \in Payloads, price # Unreadable,
         Emits(asset, price)
  PROVE  IInv'
<1> DEFINE ps == [prices EXCEPT ![asset] = price]
<1>1. /\ ps \in [Pair -> Payloads] /\ prices' = ps /\ leader \in Pair
      /\ leader' = OtherOf(leader) /\ leader' = Leader(prices')
      /\ signal' = [asset |-> leader, spread |-> Diff(prices'), at |-> clock]
      /\ unsignalled' = 0 /\ lastSignalAt' = clock /\ clock' = clock
  BY EmitsFacts
<1>2. \A a \in Pair : ps[a] # Unknown
  BY <1>1, RankShiftAssumption DEF IInv, StrategyTypeOK, Pair, Unknown
<1> HIDE DEF ps
<1>3. clock \in 0..MaxTime /\ clock \in Nat /\ clock # NoTime
  <2>1. clock \in 0..MaxTime /\ MaxTime \in Nat
    BY RankShiftAssumption DEF IInv, StrategyTypeOK
  <2> QED
    BY <2>1, Encoding
<1>4. leader' \in Pair /\ leader' # ""
  BY <1>1, RankShiftAssumption DEF OtherOf, Pair
<1>5. signal'.asset = leader /\ signal'.at = clock
  BY <1>1
<1>6. StrategyTypeOK'
  <2>1. clock' \in 0..MaxTime /\ lastSignalAt' \in {NoTime} \cup 0..clock'
    BY <1>1, <1>3
  <2>2. leader' # "" <=> \A a \in Pair : prices'[a] # Unknown
    BY <1>1, <1>2, <1>4
  <2> QED
    BY <1>1, <1>4, <1>5, <2>1, <2>2 DEF StrategyTypeOK, Pair
<1>7. Counted' /\ LeaderOfPrices' /\ SinceTheSignal'
  BY <1>1, <1>3, <1>5 DEF Counted, LeaderOfPrices, SinceTheSignal
<1>8. LeadAlternates'
  <2>1. 0 % 2 = 0
    BY SMT
  <2> QED
    BY <1>1, <1>5, <2>1 DEF LeadAlternates
<1> QED
  BY <1>6, <1>7, <1>8 DEF IInv

-----------------------------------------------------------------------------
LEMMA Initially == StrategyInit => IInv
<1> SUFFICES ASSUME StrategyInit PROVE IInv
  OBVIOUS
<1>1. prices \in [Pair -> Payloads] /\ \A a \in Pair : prices[a] = Unknown
  BY RankShiftAssumption DEF StrategyInit, Fresh, Unknown, Pair
<1>2. /\ clock = 0 /\ lastSignalAt = NoTime /\ leader = "" /\ signal = NoSignal
      /\ MaxTime \in Nat
  BY RankShiftAssumption DEF StrategyInit, Fresh
<1>3. \E a \in Pair : prices[a] = Unknown
  BY <1>1 DEF Pair
<1>4. StrategyTypeOK
  <2>1. 0 \in 0..MaxTime /\ NoTime \in {NoTime} \cup 0..clock
    <3>1. MaxTime \in Nat
      BY <1>2
    <3> QED
      BY <3>1
  <2>2. leader \in {"", AssetA, AssetB} /\ (leader # "" <=> \A a \in Pair : prices[a] # Unknown)
    BY <1>2, <1>3
  <2> QED
    BY <1>1, <1>2, <2>1, <2>2 DEF StrategyTypeOK, Pair
<1> QED
  BY <1>4 DEF StrategyInit, Fresh, IInv, Counted, LeaderOfPrices, SinceTheSignal, LeadAlternates

LEMMA RestartStep ==
  ASSUME IInv, Restart
  PROVE  IInv'
<1>1. /\ prices' \in [Pair -> Payloads] /\ \A a \in Pair : prices'[a] = Unknown
      /\ leader' = "" /\ lastSignalAt' = NoTime /\ signal' = NoSignal /\ unsignalled' = 0 /\ clock' = clock
  BY RankShiftAssumption DEF Restart, Fresh, Unknown, Pair
<1>2. StrategyTypeOK'
  BY <1>1 DEF IInv, StrategyTypeOK, Pair
<1> QED
  BY <1>1, <1>2 DEF IInv, Counted, LeaderOfPrices, SinceTheSignal, LeadAlternates

LEMMA TickStep ==
  ASSUME IInv, ClockTicks
  PROVE  IInv'
<1>1. /\ clock < MaxTime /\ clock' = clock + 1
      /\ UNCHANGED <<prices, leader, lastSignalAt, signal, repeats, unsignalled>>
  BY DEF ClockTicks
<1>2. StrategyTypeOK'
  <2>1. clock \in 0..MaxTime /\ lastSignalAt \in {NoTime} \cup 0..clock /\ MaxTime \in Nat
    BY RankShiftAssumption DEF IInv, StrategyTypeOK
  <2>2. clock' \in 0..MaxTime /\ lastSignalAt' \in {NoTime} \cup 0..clock'
    BY <1>1, <2>1
  <2> QED
    BY <1>1, <2>2 DEF IInv, StrategyTypeOK
<1> QED
  BY <1>1, <1>2 DEF IInv, Counted, LeaderOfPrices, SinceTheSignal, LeadAlternates

LEMMA StutterStep ==
  ASSUME IInv, UNCHANGED strategyVars
  PROVE  IInv'
BY DEF strategyVars, IInv, StrategyTypeOK, Counted, LeaderOfPrices, SinceTheSignal, LeadAlternates

(* Every step is one of these. *)
LEMMA StepKinds ==
  ASSUME StrategyNext
  PROVE  \/ UNCHANGED strategyVars \/ ClockTicks \/ Restart
         \/ \E asset \in Pair, price \in Payloads \ {Unreadable} :
              FirstPrices(asset, price) \/ Quiet(asset, price) \/ Emits(asset, price)
BY DEF StrategyNext, OnUpdate, Ignored, Pair

LEMMA NextStep ==
  IInv /\ [StrategyNext]_strategyVars => IInv'
<1> SUFFICES ASSUME IInv, [StrategyNext]_strategyVars PROVE IInv'
  OBVIOUS
<1>1. CASE UNCHANGED strategyVars
  BY <1>1, StutterStep
<1>2. CASE StrategyNext
  BY <1>1, <1>2, StepKinds, FirstPricesStep, QuietStep, EmitsStep, RestartStep, TickStep
<1> QED
  BY <1>1, <1>2

LEMMA Inductive == StrategySpec => []IInv
BY Initially, NextStep, PTL DEF StrategySpec

(* A step after which there is another signal is one that emits it.        *)
LEMMA SignalsAreEmitted ==
  ASSUME [StrategyNext]_strategyVars, signal' # signal, signal' # NoSignal
  PROVE  \E asset \in Pair, price \in Payloads : Emits(asset, price)
<1>1. StrategyNext /\ ~UNCHANGED strategyVars
  BY DEF strategyVars
<1> QED
  BY <1>1, StepKinds DEF ClockTicks, Restart, FirstPrices, Quiet

-----------------------------------------------------------------------------
(* Every variable keeps its type, and there is a leader exactly when both  *)
(* prices are known.                                                       *)
THEOREM TypeCorrect == StrategySpec => []StrategyTypeOK
<1>1. IInv => StrategyTypeOK
  BY DEF IInv
<1> QED
  BY <1>1, Inductive, PTL

(* Two signals of one process are at least the cooldown apart.             *)
THEOREM CooldownKept == StrategySpec => SignalsApart
<1> DEFINE Apart == signal # NoSignal /\ signal' # signal /\ signal' # NoSignal
                      => signal'.at - signal.at >= Cooldown
<1>1. IInv /\ [StrategyNext]_strategyVars => Apart
  <2> SUFFICES ASSUME IInv, [StrategyNext]_strategyVars, signal # NoSignal, signal' # signal, signal' # NoSignal
               PROVE  signal'.at - signal.at >= Cooldown
    OBVIOUS
  <2> PICK asset \in Pair, price \in Payloads : Emits(asset, price)
    BY SignalsAreEmitted
  <2>1. /\ signal' = [asset |-> leader, spread |-> Diff(prices'), at |-> clock]
        /\ lastSignalAt = NoTime \/ clock - lastSignalAt >= Cooldown
    BY EmitsFacts
  <2>2. signal.at = lastSignalAt /\ lastSignalAt # NoTime
    BY DEF IInv, SinceTheSignal
  <2> QED
    BY <2>1, <2>2
<1> QED
  BY <1>1, Inductive, PTL DEF StrategySpec, SignalsApart

(* A signal is about an asset that was at least as dear as the other and   *)
(* is now the cheaper one by the spread, unless no spread can be computed. *)
THEOREM SignalsAreReal == StrategySpec => SignalIsReal
<1>1. ASSUME IInv, [StrategyNext]_strategyVars, signal' # signal, signal' # NoSignal
      PROVE  LET loser == signal'.asset
                 winner == IF loser = AssetA THEN AssetB ELSE AssetA
             IN  /\ ~Greater(prices[winner], prices[loser])
                 /\ \/ NaN = Diff(prices')
                    \/ prices'[winner] >= prices'[loser] /\ Diff(prices') >= FlipSpread
  <2> PICK asset \in Pair, price \in Payloads : Emits(asset, price)
    BY <1>1, SignalsAreEmitted
  <2>1. /\ signal'.asset = leader /\ leader \in Pair
        /\ leader = Leader(prices) /\ leader' = OtherOf(leader) /\ leader' = Leader(prices')
        /\ prices' \in [Pair -> Payloads] /\ ~Greater(FlipSpread, Diff(prices'))
    BY <1>1, EmitsFacts
  <2>2. /\ prices[AssetA] \in Int /\ prices[AssetB] \in Int
        /\ prices'[AssetA] \in Int /\ prices'[AssetB] \in Int
    BY <1>1, <2>1, PricesAreIntegers DEF IInv, StrategyTypeOK, Pair
  <2>3. ~Greater(prices[OtherOf(leader)], prices[leader])
    <3>1. CASE leader = AssetB
      <4>1. Greater(prices[AssetB], prices[AssetA]) /\ OtherOf(AssetB) = AssetA
        BY <2>1, <3>1, LeaderIs, RankShiftAssumption DEF OtherOf
      <4> QED
        BY <2>2, <3>1, <4>1 DEF Greater
    <3>2. CASE leader = AssetA
      BY <2>1, <2>2, <3>2, LeaderIs DEF OtherOf
    <3> QED
      BY <2>1, <3>1, <3>2 DEF Pair
  <2>4. NaN = Diff(prices') \/ Diff(prices') >= FlipSpread
    <3>1. FlipSpread # NaN /\ FlipSpread \in Int
      <4>1. FlipSpread \in 1..Inf-1
        BY RankShiftAssumption
      <4> QED
        BY <4>1, Encoding
    <3>2. Diff(prices') \in Int
      BY <2>2, Encoding DEF Diff, AbsDiff
    <3> QED
      BY <2>1, <3>1, <3>2 DEF Greater
  <2>5. NaN = Diff(prices') \/ prices'[OtherOf(leader)] >= prices'[leader]
    <3>1. CASE leader = AssetA
      <4>1. Greater(prices'[AssetB], prices'[AssetA]) /\ OtherOf(AssetA) = AssetB
        BY <2>1, <3>1, LeaderIs, RankShiftAssumption DEF OtherOf
      <4> QED
        BY <2>2, <3>1, <4>1 DEF Greater
    <3>2. CASE leader = AssetB
      <4>1. ~Greater(prices'[AssetB], prices'[AssetA])
        BY <2>1, <3>2, LeaderIs, RankShiftAssumption DEF OtherOf
      <4>2. NaN = Diff(prices') \/ (prices'[AssetB] # NaN /\ prices'[AssetA] # NaN)
        BY DEF Diff, AbsDiff
      <4> QED
        BY <2>2, <3>2, <4>1, <4>2 DEF Greater, OtherOf
    <3> QED
      BY <2>1, <3>1, <3>2 DEF Pair
  <2> QED
    BY <2>1, <2>3, <2>4, <2>5 DEF OtherOf
<1> QED
  BY <1>1, Inductive, PTL DEF StrategySpec, SignalIsReal

(* A signal names the asset of the last one again exactly if an odd number *)
(* of flips went by without a signal.                                      *)
THEOREM LostFlipsAreSeen == StrategySpec => LostFlipsShow
<1> DEFINE Shown == signal # NoSignal /\ signal' # NoSignal /\ signal' # signal
                      => (repeats' <=> unsignalled % 2 = 1)
<1>1. IInv /\ [StrategyNext]_strategyVars => Shown
  <2> SUFFICES ASSUME IInv, [StrategyNext]_strategyVars, signal # NoSignal, signal' # NoSignal, signal' # signal
               PROVE  repeats' <=> unsignalled % 2 = 1
    OBVIOUS
  <2> PICK asset \in Pair, price \in Payloads : Emits(asset, price)
    BY SignalsAreEmitted
  <2>1. repeats' <=> signal.asset = leader
    BY EmitsFacts
  <2>2. /\ signal.asset \in Pair /\ unsignalled % 2 \in {0, 1}
        /\ leader = IF unsignalled % 2 = 0 THEN OtherOf(signal.asset) ELSE signal.asset
    BY Parity DEF IInv, StrategyTypeOK, Counted, LeadAlternates, Pair
  <2>3. OtherOf(signal.asset) # signal.asset
    BY <2>2, RankShiftAssumption DEF Pair, OtherOf
  <2>4. CASE unsignalled % 2 = 0
    BY <2>1, <2>2, <2>3, <2>4
  <2>5. CASE unsignalled % 2 = 1
    BY <2>1, <2>2, <2>5
  <2> QED
    BY <2>2, <2>4, <2>5
<1> QED
  BY <1>1, Inductive, PTL DEF StrategySpec, LostFlipsShow
=============================================================================
