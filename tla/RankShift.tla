----------------------------- MODULE RankShift -----------------------------
(***************************************************************************)
(* RankShiftStrategy.OnUpdate (internal/strategy/rank_shift.go): it keeps  *)
(* the last price of two assets and signals when the dearer one changes.   *)
(* A price is what strconv.ParseFloat or JSON gives: a number, an infinity *)
(* or not a number; no comparison with NaN is true.  The clock is the wall *)
(* clock of the process and does not go back here.                         *)
(***************************************************************************)
EXTENDS Integers

CONSTANTS
  AssetA, AssetB, OtherAsset,   \* the two assets, and one that is neither
  Payloads,        \* prices payloads carry, Unreadable, NaN and Inf among them
  FlipSpread, Cooldown,
  MaxTime, MaxFlips             \* bounds

NaN == -1
Inf == 1000000
Unreadable == -2    \* a payload without a price that parses
NoTime == -1
NoSignal == [asset |-> "", spread |-> 0, at |-> NoTime]

ASSUME RankShiftAssumption ==
  /\ AssetA # AssetB /\ OtherAsset \notin {AssetA, AssetB} /\ "" \notin {AssetA, AssetB}
  /\ {NaN, Inf, Unreadable} \subseteq Payloads
  /\ \A p \in Payloads : p \in 0..Inf \/ p \in {NaN, Unreadable}
  /\ FlipSpread \in 1..Inf-1 /\ Cooldown \in Nat \ {0}
  /\ MaxTime \in Nat /\ MaxFlips \in Nat

VARIABLES
  clock, prices, leader, lastSignalAt,
  signal,      \* the last signal of this process
  repeats,     \* history: it names the same asset as the signal before it
  unsignalled  \* history: changes of the dearer asset since the last signal

strategyVars == <<clock, prices, leader, lastSignalAt, signal, repeats, unsignalled>>

Unknown == Unreadable

(* NewRankShiftStrategy, at every start of the worker. *)
Fresh ==
  [prices |-> [a \in {AssetA, AssetB} |-> Unknown], leader |-> "", at |-> NoTime]

StrategyInit ==
  /\ clock = 0
  /\ prices = Fresh.prices
  /\ leader = Fresh.leader
  /\ lastSignalAt = Fresh.at
  /\ signal = NoSignal
  /\ repeats = FALSE
  /\ unsignalled = 0

Greater(p, q) == p # NaN /\ q # NaN /\ p > q

AbsDiff(p, q) ==
  IF NaN \in {p, q} \/ (p = Inf /\ q = Inf) THEN NaN
  ELSE IF Inf \in {p, q} THEN Inf
  ELSE IF p > q THEN p - q ELSE q - p

Leader(ps) == IF Greater(ps[AssetB], ps[AssetA]) THEN AssetB ELSE AssetA

Diff(ps) == AbsDiff(ps[AssetA], ps[AssetB])

(* Mutant: a spread that is too small still signals. *)
WideEnoughAnyway(spread) == TRUE

(* The negation of diff < FlipSpread, true of NaN. *)
WideEnough(spread) == ~Greater(FlipSpread, spread)

(* Mutant: the age of the last signal is not looked at. *)
CooledDownAlways == TRUE

CooledDown == lastSignalAt = NoTime \/ clock - lastSignalAt >= Cooldown

(* Mutant: a flip that is not signalled leaves the leader as it was. *)
KeepsLeader(ps) ==
  IF leader = "" \/ (WideEnough(Diff(ps)) /\ CooledDown) THEN Leader(ps) ELSE leader

(* s.leader after the update. *)
NextLeader(ps) == Leader(ps)

Signals(ps) ==
  /\ leader # ""
  /\ NextLeader(ps) # leader
  /\ WideEnough(Diff(ps))
  /\ CooledDown

Known(ps) == Unknown \notin {ps[AssetA], ps[AssetB]}

(* History: the dearer asset has changed. *)
Flipped(ps) == Known(prices) /\ Leader(prices) # Leader(ps)

(* An update that is not about the two assets, or has no price.            *)
Ignored(asset, price) ==
  /\ asset = OtherAsset \/ price = Unreadable
  /\ UNCHANGED strategyVars

(* The first price of an asset: there is no leader to compare with.        *)
FirstPrices(asset, price) ==
  LET ps == [prices EXCEPT ![asset] = price] IN
  /\ leader = ""
  /\ prices' = ps
  /\ leader' = IF Known(ps) THEN Leader(ps) ELSE ""
  /\ UNCHANGED <<clock, lastSignalAt, signal, repeats, unsignalled>>

Quiet(asset, price) ==
  LET ps == [prices EXCEPT ![asset] = price] IN
  /\ leader # "" /\ ~Signals(ps)
  /\ prices' = ps
  /\ leader' = NextLeader(ps)
  /\ unsignalled' = IF Flipped(ps) THEN unsignalled + 1 ELSE unsignalled
  /\ UNCHANGED <<clock, lastSignalAt, signal, repeats>>

(* The signal is about the asset that was overtaken. *)
Emits(asset, price) ==
  LET ps == [prices EXCEPT ![asset] = price] IN
  /\ Signals(ps)
  /\ prices' = ps
  /\ leader' = NextLeader(ps)
  /\ lastSignalAt' = clock
  /\ signal' = [asset |-> leader, spread |-> Diff(ps), at |-> clock]
  /\ repeats' = (signal # NoSignal /\ signal.asset = leader)
  /\ unsignalled' = 0
  /\ UNCHANGED clock

OnUpdate(asset, price) ==
  \/ Ignored(asset, price)
  \/ /\ asset # OtherAsset /\ price # Unreadable /\ unsignalled < MaxFlips
     /\ FirstPrices(asset, price) \/ Quiet(asset, price) \/ Emits(asset, price)

ClockTicks ==
  /\ clock < MaxTime
  /\ clock' = clock + 1
  /\ UNCHANGED <<prices, leader, lastSignalAt, signal, repeats, unsignalled>>

(* The worker ends and is started again. *)
Restart ==
  /\ prices' = Fresh.prices
  /\ leader' = Fresh.leader
  /\ lastSignalAt' = Fresh.at
  /\ signal' = NoSignal
  /\ repeats' = FALSE
  /\ unsignalled' = 0
  /\ UNCHANGED clock

StrategyNext ==
  \/ \E asset \in {AssetA, AssetB, OtherAsset}, price \in Payloads : OnUpdate(asset, price)
  \/ ClockTicks
  \/ Restart

StrategySpec == StrategyInit /\ [][StrategyNext]_strategyVars

-----------------------------------------------------------------------------
(* Every variable has its type; the leader is known when both prices are.  *)
StrategyTypeOK ==
  /\ clock \in 0..MaxTime /\ lastSignalAt \in {NoTime} \cup 0..clock
  /\ prices \in [{AssetA, AssetB} -> Payloads]
  /\ leader \in {"", AssetA, AssetB} /\ (leader # "" <=> \A a \in {AssetA, AssetB} : prices[a] # Unknown)
  /\ signal = NoSignal \/ signal.asset \in {AssetA, AssetB}

(* Between restarts two signals are at least the cooldown apart, whatever  *)
(* flips lie between them: within it no order is built twice for one pair. *)
SignalsApart ==
  [][signal # NoSignal /\ signal' # signal /\ signal' # NoSignal
       => signal'.at - signal.at >= Cooldown]_strategyVars

(* A signal is about an asset that was dearer before the update and is now *)
(* cheaper by the spread: only NaN or two infinite prices can fake one.    *)
SignalIsReal ==
  [][signal' # signal /\ signal' # NoSignal =>
       LET loser == signal'.asset
           winner == IF loser = AssetA THEN AssetB ELSE AssetA
       IN  /\ ~Greater(prices[winner], prices[loser])
           /\ \/ NaN = Diff(prices')
              \/ prices'[winner] >= prices'[loser] /\ Diff(prices') >= FlipSpread]_strategyVars

(* Every flip replaces the leader, signalled or not.  So a signal repeats  *)
(* the asset of the last one exactly if an odd number of flips between     *)
(* them went by without a signal: such a flip is lost, not delayed.        *)
LostFlipsShow ==
  [][signal # NoSignal /\ signal' # NoSignal /\ signal' # signal
       => (repeats' <=> unsignalled % 2 = 1)]_strategyVars
=============================================================================
