------------------------ MODULE OrderBuildingProofs ------------------------
(***************************************************************************)
(* Proofs about orders before they are posted: OrderBuilding and Pricing,  *)
(* for any environment, any books and any resolution of the prices; and    *)
(* NonceAllocator, for any workers, spellings of their addresses, seeds    *)
(* and integer limits.                                                     *)
(***************************************************************************)
EXTENDS OrderBuilding, NonceAllocator, FiniteSetTheorems, TLAPS

-----------------------------------------------------------------------------
(* Arithmetic. *)

LEMMA UnitFacts ==
  Unit \in Nat /\ Unit > 1 /\ OffsetScale \in Nat \ {0}
<1>1. Ticks \in Nat \ {0} /\ OffsetScale \in Nat \ {0}
  BY PricingAssumption
<1>2. Ticks * OffsetScale \in Nat /\ Ticks * OffsetScale >= 1
  BY <1>1
<1>3. Unit = 2 * (Ticks * OffsetScale)
  BY <1>1 DEF Unit
<1> QED
  BY <1>1, <1>2, <1>3

LEMMA SmallerOfTwo ==
  ASSUME NEW a \in Int, NEW b \in Int
  PROVE  Min({a, b}) = IF a <= b THEN a ELSE b
<1> DEFINE m == IF a <= b THEN a ELSE b
<1>1. m \in {a, b} /\ \A y \in {a, b} : m <= y
  OBVIOUS
<1>2. \A x \in {a, b} : (\A y \in {a, b} : x <= y) => x = m
  OBVIOUS
<1> QED
  BY <1>1, <1>2 DEF Min

LEMMA GreaterOfTwo ==
  ASSUME NEW a \in Int, NEW b \in Int
  PROVE  Max({a, b}) = IF a >= b THEN a ELSE b
<1> DEFINE m == IF a >= b THEN a ELSE b
<1>1. m \in {a, b} /\ \A y \in {a, b} : m >= y
  OBVIOUS
<1>2. \A x \in {a, b} : (\A y \in {a, b} : x >= y) => x = m
  OBVIOUS
<1> QED
  BY <1>1, <1>2 DEF Max

LEMMA SmallestSet ==
  ASSUME NEW S, IsFiniteSet(S), NEW C, C # {}, C \subseteq SUBSET S
  PROVE  \E s \in C : \A t \in C : t \subseteq s => t = s
<1>1. IsWellFoundedOn(StrictSubsetOrdering(S), FiniteSubsetsOf(S)) /\ C \subseteq FiniteSubsetsOf(S)
  BY FS_StrictSubsetOrderingWellFounded, FS_FiniteSubsetsOfFinite
<1>2. PICK s \in C : \A t \in C : <<t, s>> \notin StrictSubsetOrdering(S)
  BY <1>1, WFMin
<1> QED
  BY <1>2 DEF StrictSubsetOrdering

(* A set of prices has a greatest and a least one, by a smallest set       *)
(* that had not.                                                           *)
Extreme(S) ==
  /\ \E x \in S : \A y \in S : x >= y
  /\ \E x \in S : \A y \in S : x <= y

LEMMA Extremes ==
  ASSUME NEW S, IsFiniteSet(S), S # {}, \A x \in S : x \in Int
  PROVE  Max(S) \in S /\ Min(S) \in S
<1> DEFINE C == {s \in SUBSET S : s # {} /\ ~Extreme(s)}
<1>1. ASSUME C # {} PROVE FALSE
  <2>1. PICK s \in C : \A t \in C : t \subseteq s => t = s
    <3>1. C \subseteq SUBSET S
      OBVIOUS
    <3> HIDE DEF C
    <3> QED
      BY <1>1, <3>1, SmallestSet
  <2>2. PICK x \in s : TRUE
    OBVIOUS
  <2>3. s \in SUBSET S /\ x \in Int /\ ~Extreme(s) /\ \A y \in s : y \in Int
    OBVIOUS
  <2>4. CASE s \ {x} = {}
    BY <2>2, <2>3, <2>4 DEF Extreme
  <2>5. CASE s \ {x} # {}
    <3>1. s \ {x} \notin C
      BY <2>1, <2>2
    <3>2. Extreme(s \ {x})
      BY <2>3, <2>5, <3>1
    <3>3. PICK g \in s \ {x} : \A y \in s \ {x} : g >= y
      BY <3>2 DEF Extreme
    <3>4. PICK l \in s \ {x} : \A y \in s \ {x} : l <= y
      BY <3>2 DEF Extreme
    <3>5. \E z \in {g, x} : \A y \in s : z >= y
      BY <2>3, <3>3
    <3>6. \E z \in {l, x} : \A y \in s : z <= y
      BY <2>3, <3>4
    <3> QED
      BY <2>2, <2>3, <3>3, <3>4, <3>5, <3>6 DEF Extreme
  <2> QED
    BY <2>4, <2>5
<1>2. Extreme(S)
  BY <1>1
<1> QED
  BY <1>2 DEF Extreme, Max, Min

-----------------------------------------------------------------------------
(* Limit prices. *)

(* A clamped price lies in the range, as far as the range is a range.      *)
LEMMA ClampFacts ==
  ASSUME NEW p \in Int, NEW minPrice \in Int, NEW maxPrice \in Int
  PROVE  /\ Clamp(p, minPrice, maxPrice) \in Int
         /\ Clamp(p, minPrice, maxPrice) # NoPrice =>
              /\ IsFiniteProbability(minPrice) => Clamp(p, minPrice, maxPrice) >= minPrice
              /\ IsFiniteProbability(maxPrice) => Clamp(p, minPrice, maxPrice) <= maxPrice
<1> DEFINE lo == IF IsFiniteProbability(minPrice) THEN minPrice ELSE DefaultMin
           hi == IF IsFiniteProbability(maxPrice) THEN maxPrice ELSE DefaultMax
<1>1. Unit \in Int
  BY UnitFacts
<1>2. DefaultMin \in Int /\ DefaultMax \in Int
  BY <1>1 DEF DefaultMin, DefaultMax
<1>3. lo \in Int /\ hi \in Int
  BY <1>2
<1>4. Clamp(p, minPrice, maxPrice) =
        IF IsFiniteProbability(p) /\ lo < hi THEN Min({Max({lo, p}), hi}) ELSE NoPrice
  BY DEF Clamp
<1>5. CASE IsFiniteProbability(p) /\ lo < hi
  <2> DEFINE m == Max({lo, p})
  <2> HIDE DEF lo, hi
  <2>1. m \in Int /\ m >= lo
    BY <1>3, GreaterOfTwo
  <2> HIDE DEF m
  <2>2. Min({m, hi}) = IF m <= hi THEN m ELSE hi
    BY <1>3, <2>1, SmallerOfTwo
  <2>3. Min({m, hi}) \in Int /\ Min({m, hi}) >= lo /\ Min({m, hi}) <= hi
    BY <1>3, <1>5, <2>1, <2>2
  <2>4. Clamp(p, minPrice, maxPrice) = Min({m, hi})
    BY <1>4, <1>5 DEF m
  <2> QED
    BY <2>3, <2>4 DEF lo, hi
<1>6. CASE ~(IsFiniteProbability(p) /\ lo < hi)
  <2>1. Clamp(p, minPrice, maxPrice) = NoPrice
    BY <1>4, <1>6
  <2> QED
    BY <2>1 DEF NoPrice
<1> QED
  BY <1>5, <1>6

LEMMA UsableLevels ==
  ASSUME NEW levels \in SUBSET Int
  PROVE  (\A p \in Usable(levels) : p \in Int) /\ IsFiniteSet(Usable(levels))
<1>1. Unit \in Int /\ IsFiniteSet(1 .. Unit)
  BY UnitFacts, FS_Interval
<1>2. Usable(levels) \subseteq 1 .. Unit
  <2> SUFFICES ASSUME NEW p \in Usable(levels) PROVE p \in 1 .. Unit
    OBVIOUS
  <2>1. p \in Int /\ 0 < p /\ p < Unit
    BY DEF Usable, IsFiniteProbability
  <2> QED
    BY <1>1, <2>1
<1>3. IsFiniteSet(Usable(levels))
  BY <1>1, <1>2, FS_Subset
<1>4. \A p \in 1 .. Unit : p \in Int
  BY <1>1
<1> QED
  BY <1>2, <1>3, <1>4

(* With a usable level there is a price to compute. *)
LEMMA ComputedType ==
  ASSUME NEW book, book.bids \in SUBSET Int, book.asks \in SUBSET Int,
         NEW side, NEW offset \in Int, HasBid(book) \/ HasAsk(book)
  PROVE  Computed(book, side, offset) \in Int
<1>1. Unit \in Nat /\ OffsetScale \in Nat \ {0}
  BY UnitFacts
<1>2. HasBid(book) => BestBid(book) \in Int
  <2>1. (\A p \in Usable(book.bids) : p \in Int) /\ IsFiniteSet(Usable(book.bids))
    BY UsableLevels
  <2> QED
    BY <2>1, Extremes DEF HasBid, BestBid
<1>3. HasAsk(book) => BestAsk(book) \in Int
  <2>1. (\A p \in Usable(book.asks) : p \in Int) /\ IsFiniteSet(Usable(book.asks))
    BY UsableLevels
  <2> QED
    BY <2>1, Extremes DEF HasAsk, BestAsk
<1>4. Mid(book) \in Int
  BY <1>2, <1>3 DEF Mid
<1>5. Mid(book) \div OffsetScale \in Int
  BY <1>1, <1>4
<1>6. OffsetScale - offset \in Int /\ OffsetScale + offset \in Int
  BY <1>1
<1> QED
  BY <1>5, <1>6 DEF Computed

(* What a builder sends is clamped, whatever the book.                     *)
LEMMA ChoiceFacts ==
  ASSUME NEW book, book.bids \in SUBSET Int, book.asks \in SUBSET Int,
         NEW side, NEW fallback \in Int, NEW offset \in Int, NEW minPrice \in Int, NEW maxPrice \in Int,
         NEW choice, choice = ChooseLimitPrice(book, side, fallback, offset, minPrice, maxPrice)
  PROVE  /\ choice.price \in Int /\ choice.mode \in {"error", "fallback", "dynamic"}
         /\ choice.price # NoPrice =>
              /\ IsFiniteProbability(minPrice) => choice.price >= minPrice
              /\ IsFiniteProbability(maxPrice) => choice.price <= maxPrice
<1> DEFINE safe == Clamp(fallback, minPrice, maxPrice)
           dynamic == Clamp(Computed(book, side, offset), minPrice, maxPrice)
<1>1. \/ choice = [price |-> NoPrice, mode |-> "error"]
      \/ choice = [price |-> safe, mode |-> "fallback"]
      \/ choice = [price |-> dynamic, mode |-> "dynamic"] /\ (HasBid(book) \/ HasAsk(book))
  BY DEF ChooseLimitPrice
<1>2. CASE choice = [price |-> NoPrice, mode |-> "error"]
  BY <1>2 DEF NoPrice
<1>3. CASE choice = [price |-> safe, mode |-> "fallback"]
  <2>1. choice.price = safe /\ choice.mode = "fallback"
    BY <1>3
  <2> HIDE DEF safe
  <2> QED
    BY <2>1, ClampFacts DEF safe
<1>4. CASE choice = [price |-> dynamic, mode |-> "dynamic"] /\ (HasBid(book) \/ HasAsk(book))
  <2>1. choice.price = dynamic /\ choice.mode = "dynamic"
    BY <1>4
  <2>2. Computed(book, side, offset) \in Int
    BY <1>4, ComputedType
  <2>3. /\ dynamic \in Int
        /\ dynamic # NoPrice =>
             /\ IsFiniteProbability(minPrice) => dynamic >= minPrice
             /\ IsFiniteProbability(maxPrice) => dynamic <= maxPrice
    <3> DEFINE p == Computed(book, side, offset)
    <3> HIDE DEF p
    <3>1. p \in Int
      BY <2>2 DEF p
    <3>2. /\ Clamp(p, minPrice, maxPrice) \in Int
          /\ Clamp(p, minPrice, maxPrice) # NoPrice =>
               /\ IsFiniteProbability(minPrice) => Clamp(p, minPrice, maxPrice) >= minPrice
               /\ IsFiniteProbability(maxPrice) => Clamp(p, minPrice, maxPrice) <= maxPrice
      BY <3>1, ClampFacts
    <3> QED
      BY <3>2 DEF p
  <2> HIDE DEF dynamic
  <2> QED
    BY <2>1, <2>3
<1> QED
  BY <1>1, <1>2, <1>3, <1>4

-----------------------------------------------------------------------------
(* Amounts. *)

LEMMA Quotient ==
  ASSUME NEW a \in Nat, NEW b \in Nat \ {0}
  PROVE  /\ RoundedQuotient(a, b) \in Int
         /\ 2 * (b * RoundedQuotient(a, b)) <= 2 * a + b
         /\ 2 * a - b < 2 * (b * RoundedQuotient(a, b))
<1> DEFINE d == 2 * b
           n == 2 * a + b
           q == n \div d
<1>1. d \in Int /\ d > 0 /\ n \in Int
  OBVIOUS
<1> HIDE DEF d, n
<1>2. q \in Int /\ d * q <= n /\ n < d * q + d
  BY <1>1
<1> HIDE DEF q
<1>3. d * q = 2 * (b * q)
  BY <1>2 DEF d
<1>4. RoundedQuotient(a, b) = q
  BY DEF RoundedQuotient, q, d, n
<1> QED
  BY <1>2, <1>3, <1>4 DEF d, n

LEMMA TimesUnit ==
  ASSUME NEW x \in Int, NEW y \in Int, NEW u \in Nat, x <= y
  PROVE  x * u <= y * u
OBVIOUS

(* The amounts of an order of some money: both are positive, and each is   *)
(* within its rounding of what was asked for.                              *)
LEMMA AmountFacts ==
  ASSUME NEW n \in Int, n > 0, NEW price \in Int, IsFiniteProbability(price),
         NotionalUnits(n) > 0
  PROVE  /\ NotionalUnits(n) \in Int /\ SizeUnits(n, price) \in Int /\ SizeUnits(n, price) > 0
         /\ 2 * (4 * NotionalUnits(n) - n) \in -4 .. 4
         /\ -(Unit + price) <= 2 * (NotionalUnits(n) * Unit - SizeUnits(n, price) * price)
         /\ 2 * (NotionalUnits(n) * Unit - SizeUnits(n, price) * price) <= Unit + price
<1> DEFINE m == NotionalUnits(n)
           s == SizeUnits(n, price)
<1>1. Unit \in Nat /\ price > 0 /\ price < Unit /\ n \in Nat
  BY UnitFacts DEF IsFiniteProbability
<1>2. m \in Int /\ 8 * m <= 2 * n + 4 /\ 2 * n - 4 < 8 * m /\ m > 0
  <2>1. m = RoundedQuotient(n, 4) /\ 4 \in Nat \ {0}
    BY DEF NotionalUnits
  <2>2. m \in Int /\ 2 * (4 * m) <= 2 * n + 4 /\ 2 * n - 4 < 2 * (4 * m)
    BY <1>1, <2>1, Quotient
  <2> HIDE DEF m
  <2>3. m > 0
    BY DEF m
  <2> QED
    BY <2>2, <2>3
<1>3. n * Unit \in Nat /\ 4 * price \in Nat \ {0}
  BY <1>1
<1>4. /\ s \in Int
      /\ 2 * ((4 * price) * s) <= 2 * (n * Unit) + 4 * price
      /\ 2 * (n * Unit) - 4 * price < 2 * ((4 * price) * s)
  BY <1>3, Quotient DEF SizeUnits
<1> HIDE DEF m, s
<1> DEFINE A == m * Unit
           B == n * Unit
           P == price * s
<1>5. A \in Int /\ B \in Int /\ P \in Int /\ (4 * price) * s = 4 * P
  BY <1>1, <1>2, <1>4
<1>6. 8 * A <= 2 * B + 4 * Unit /\ 2 * B - 4 * Unit <= 8 * A /\ 2 * Unit <= B
  <2>1. (8 * m) * Unit <= (2 * n + 4) * Unit
    BY <1>1, <1>2, TimesUnit
  <2>2. (2 * n - 4) * Unit <= (8 * m) * Unit
    BY <1>1, <1>2, TimesUnit
  <2>3. 2 * Unit <= n * Unit
    BY <1>1, <1>2, TimesUnit
  <2>4. /\ (8 * m) * Unit = 8 * A /\ (2 * n + 4) * Unit = 2 * B + 4 * Unit
        /\ (2 * n - 4) * Unit = 2 * B - 4 * Unit
    BY <1>1, <1>2
  <2> QED
    BY <2>1, <2>2, <2>3, <2>4
<1>7. 8 * P <= 2 * B + 4 * price /\ 2 * B - 4 * price < 8 * P
  BY <1>1, <1>4, <1>5
<1>8. s > 0
  <2> HIDE DEF B
  <2>1. P > 0
    BY <1>1, <1>5, <1>6, <1>7
  <2> QED
    BY <1>1, <1>4, <2>1
<1>9. m * Unit = A /\ s * price = P
  BY <1>1, <1>2, <1>4
<1> HIDE DEF A, B, P
<1>10. -(Unit + price) <= 2 * (A - P) /\ 2 * (A - P) <= Unit + price
  BY <1>1, <1>5, <1>6, <1>7
<1>11. 2 * (4 * m - n) \in -4 .. 4
  BY <1>1, <1>2
<1> QED
  BY <1>2, <1>4, <1>8, <1>9, <1>10, <1>11 DEF m, s

-----------------------------------------------------------------------------
(* The inductive invariant, beside PriceInRange and GateSeesTheOrder. *)

Configured == env \in Environments

(* BuilderTypeOK, with the bound that the counters keep together. *)
OrdersCounted ==
  /\ nonce \in Nat /\ built \in Nat /\ burnt \in Nat
  /\ built + burnt <= MaxBuilds
  /\ nonce <= built + burnt

BuilderIInv ==
  /\ BuilderTypeOK /\ Configured /\ OrdersCounted /\ NoncesAccounted
  /\ PriceInRange /\ GateSeesTheOrder

(* What the environment may give. *)
LEMMA EnvironmentFacts ==
  ASSUME Configured
  PROVE  /\ env.price \in Int /\ env.min \in Int /\ env.max \in Int
         /\ env.offset \in Int /\ env.notional \in Int
BY OrderBuildingAssumption DEF Configured, Environments

(* The price a builder asks for. *)
Choosable(choice) ==
  /\ choice.price \in Int
  /\ \/ choice.mode = "static"
     \/ /\ choice.mode \in {"error", "fallback", "dynamic"}
        /\ choice.price # NoPrice =>
             /\ IsFiniteProbability(env.min) => choice.price >= env.min
             /\ IsFiniteProbability(env.max) => choice.price <= env.max

LEMMA PricedChoice ==
  ASSUME Configured, NEW book \in Books, NEW choice,
         choice = ChooseLimitPrice(book, env.side, env.price, env.offset, env.min, env.max)
  PROVE  Choosable(choice)
<1>1. book.bids \in SUBSET Int /\ book.asks \in SUBSET Int
  BY OrderBuildingAssumption
<1> DEFINE side == env.side
           fallback == env.price
           offset == env.offset
           lo == env.min
           hi == env.max
<1>2. fallback \in Int /\ offset \in Int /\ lo \in Int /\ hi \in Int
  BY EnvironmentFacts
<1>3. choice = ChooseLimitPrice(book, side, fallback, offset, lo, hi)
  OBVIOUS
<1> HIDE DEF side, fallback, offset, lo, hi
<1>4. /\ choice.price \in Int /\ choice.mode \in {"error", "fallback", "dynamic"}
      /\ choice.price # NoPrice =>
           /\ IsFiniteProbability(lo) => choice.price >= lo
           /\ IsFiniteProbability(hi) => choice.price <= hi
  BY <1>1, <1>2, <1>3, ChoiceFacts
<1> QED
  BY <1>4 DEF Choosable, lo, hi

LEMMA StaticChoice ==
  ASSUME Configured, NEW choice,
         choice = [price |-> ConfigPrice, mode |-> "static"]
  PROVE  Choosable(choice)
<1>1. Unit \in Nat /\ env.price \in Int
  BY UnitFacts, EnvironmentFacts, OrderBuildingAssumption
<1>2. ConfigPrice \in Int
  BY <1>1 DEF ConfigPrice
<1> QED
  BY <1>2 DEF Choosable

(* A signed request has the amounts of an order of the notional. *)
LEMMA SignedRequest ==
  ASSUME Configured, NEW asset, NEW choice, Choosable(choice),
         env.notional > 0, IsFiniteProbability(choice.price), NotionalUnits(env.notional) > 0,
         UNCHANGED env,
         request' = [mode |-> choice.mode, price |-> choice.price,
                     maker |-> Amounts(choice.price).maker, taker |-> Amounts(choice.price).taker,
                     token |-> asset, market |-> asset]
  PROVE  /\ request'.maker > 0 /\ request'.taker > 0 /\ request'.price \in 1 .. Unit-1
         /\ PriceInRange' /\ GateSeesTheOrder'
<1> DEFINE price == choice.price
           n == env.notional
           money == NotionalUnits(n)
           shares == SizeUnits(n, price)
<1>1. price \in Int /\ n \in Int /\ Unit \in Nat
  BY EnvironmentFacts, UnitFacts, OrderBuildingAssumption DEF Choosable
<1>2. /\ money \in Int /\ money > 0 /\ shares \in Int /\ shares > 0
      /\ 2 * (4 * money - n) \in -4 .. 4
      /\ -(Unit + price) <= 2 * (money * Unit - shares * price)
      /\ 2 * (money * Unit - shares * price) <= Unit + price
  <2>1. n > 0 /\ IsFiniteProbability(price) /\ NotionalUnits(n) > 0
    OBVIOUS
  <2> HIDE DEF n, price
  <2> QED
    BY <1>1, <2>1, AmountFacts
<1>3. /\ request'.mode = choice.mode /\ request'.price = price
      /\ request'.token = asset /\ request'.market = asset
      /\ request'.maker = (IF SideLabel = "BUY" THEN money ELSE shares)
      /\ request'.taker = (IF SideLabel = "BUY" THEN shares ELSE money)
  BY DEF Amounts
<1>4. SideLabel' = SideLabel
  BY DEF SideLabel
<1>5. price \in 1 .. Unit-1 /\ price # NoPrice
  BY <1>1 DEF IsFiniteProbability, NoPrice
<1>6. PriceInRange'
  BY <1>3, <1>5 DEF Choosable, PriceInRange, Dynamic
<1>7. GateSeesTheOrder'
  <2>1. CASE SideLabel = "BUY"
    BY <1>2, <1>3, <1>4, <2>1 DEF GateSeesTheOrder
  <2>2. CASE SideLabel # "BUY"
    BY <1>2, <1>3, <1>4, <2>2 DEF GateSeesTheOrder
  <2> QED
    BY <2>1, <2>2
<1> HIDE DEF money, shares
<1> QED
  BY <1>2, <1>3, <1>5, <1>6, <1>7

LEMMA BuildStep ==
  ASSUME BuilderIInv, Calls, env.privateKey, NEW asset, NEW choice,
         Choosable(choice), BuildRequest(asset, choice)
  PROVE  BuilderIInv'
<1>1. builder = "ready" /\ built + burnt < MaxBuilds /\ MaxBuilds \in Nat
  BY OrderBuildingAssumption DEF Calls
<1>2. /\ nonce \in Nat /\ built \in Nat /\ burnt \in Nat /\ nonce = built + burnt
  BY DEF BuilderIInv, OrdersCounted, NoncesAccounted
<1>3. CASE Allocates(choice) /\ NotionalUnits(env.notional) > 0
  <2>1. /\ env.notional > 0 /\ IsFiniteProbability(choice.price)
        /\ nonce' = nonce + 1 /\ built' = built + 1 /\ UNCHANGED <<env, builder, burnt>>
        /\ request' = [mode |-> choice.mode, price |-> choice.price,
                       maker |-> Amounts(choice.price).maker, taker |-> Amounts(choice.price).taker,
                       token |-> asset, market |-> asset]
    BY <1>3 DEF BuildRequest, Allocates
  <2>2. /\ request'.maker > 0 /\ request'.taker > 0 /\ request'.price \in 1 .. Unit-1
        /\ PriceInRange' /\ GateSeesTheOrder'
    BY <1>3, <2>1, SignedRequest DEF BuilderIInv
  <2>3. OrdersCounted' /\ NoncesAccounted' /\ {nonce', built', burnt'} \subseteq 0 .. MaxBuilds
    BY <1>1, <1>2, <2>1 DEF OrdersCounted, NoncesAccounted
  <2>4. BuilderTypeOK' /\ Configured'
    BY <1>1, <2>1, <2>2, <2>3 DEF BuilderTypeOK, BuilderIInv, Configured
  <2> QED
    BY <2>2, <2>3, <2>4 DEF BuilderIInv
<1>4. CASE ~(Allocates(choice) /\ NotionalUnits(env.notional) > 0)
  <2>1. /\ UNCHANGED <<env, request, built>> /\ builder' = "exited"
        /\ \/ nonce' = nonce + 1 /\ burnt' = burnt + 1
           \/ nonce' = nonce /\ burnt' = burnt
    BY <1>4 DEF BuildRequest, Allocates
  <2>2. OrdersCounted' /\ NoncesAccounted' /\ {nonce', built', burnt'} \subseteq 0 .. MaxBuilds
    BY <1>1, <1>2, <2>1 DEF OrdersCounted, NoncesAccounted
  <2>3. BuilderTypeOK' /\ Configured'
    BY <2>1, <2>2 DEF BuilderIInv, BuilderTypeOK, Configured, Signed, Dynamic
  <2>4. PriceInRange' /\ GateSeesTheOrder'
    BY <2>1 DEF BuilderIInv, PriceInRange, GateSeesTheOrder, Signed, Dynamic, SideLabel
  <2> QED
    BY <2>2, <2>3, <2>4 DEF BuilderIInv
<1> QED
  BY <1>3, <1>4

LEMMA TemplateStep ==
  ASSUME BuilderIInv, NEW asset, BuildFromTemplate(asset)
  PROVE  BuilderIInv'
<1>1. /\ builder = "ready" /\ built + burnt < MaxBuilds /\ MaxBuilds \in Nat /\ ~env.privateKey
      /\ request' = [mode |-> "template", token |-> env.token, market |-> TemplateMarket(asset)]
      /\ built' = built + 1 /\ UNCHANGED <<env, builder, nonce, burnt>>
  BY OrderBuildingAssumption DEF BuildFromTemplate, Calls
<1>2. /\ request'.mode = "template" /\ request'.token = env.token
      /\ env.token # Untold => request'.market = request'.token
  BY <1>1 DEF TemplateMarket
<1>3. ~Signed' /\ ~Dynamic'
  BY <1>2 DEF Signed, Dynamic
<1>4. OrdersCounted' /\ NoncesAccounted' /\ {nonce', built', burnt'} \subseteq 0 .. MaxBuilds
  BY <1>1 DEF BuilderIInv, OrdersCounted, NoncesAccounted
<1>5. BuilderTypeOK' /\ Configured'
  BY <1>1, <1>3, <1>4 DEF BuilderIInv, BuilderTypeOK, Configured
<1>6. PriceInRange' /\ GateSeesTheOrder'
  BY <1>2, <1>3 DEF PriceInRange, GateSeesTheOrder
<1> QED
  BY <1>4, <1>5, <1>6 DEF BuilderIInv

LEMMA StartupStep ==
  ASSUME BuilderIInv, Startup \/ UNCHANGED builderVars
  PROVE  BuilderIInv'
<1>1. UNCHANGED <<env, nonce, request, built, burnt>> /\ builder' \in {"startup", "ready", "exited"}
  BY DEF Startup, builderVars, BuilderIInv, BuilderTypeOK
<1>2. BuilderTypeOK' /\ Configured' /\ OrdersCounted' /\ NoncesAccounted'
  BY <1>1 DEF BuilderIInv, BuilderTypeOK, Configured, OrdersCounted, NoncesAccounted, Signed, Dynamic
<1>3. PriceInRange' /\ GateSeesTheOrder'
  BY <1>1 DEF BuilderIInv, PriceInRange, GateSeesTheOrder, Signed, Dynamic, SideLabel
<1> QED
  BY <1>2, <1>3 DEF BuilderIInv

LEMMA BuilderInitially ==
  ASSUME BuilderInit
  PROVE  BuilderIInv
<1>1. /\ env \in Environments /\ builder = "startup" /\ nonce = 0 /\ built = 0 /\ burnt = 0
      /\ request = NoRequest /\ MaxBuilds \in Nat
  BY OrderBuildingAssumption DEF BuilderInit
<1>2. ~Signed /\ ~Dynamic
  BY <1>1 DEF Signed, Dynamic, NoRequest
<1>3. OrdersCounted /\ NoncesAccounted /\ {nonce, built, burnt} \subseteq 0 .. MaxBuilds
  BY <1>1 DEF OrdersCounted, NoncesAccounted
<1>4. BuilderTypeOK /\ Configured
  BY <1>1, <1>2, <1>3 DEF BuilderTypeOK, Configured
<1>5. PriceInRange /\ GateSeesTheOrder
  BY <1>1, <1>2 DEF PriceInRange, GateSeesTheOrder
<1> QED
  BY <1>3, <1>4, <1>5 DEF BuilderIInv

LEMMA BuilderStep ==
  BuilderIInv /\ [BuilderNext]_builderVars => BuilderIInv'
<1> SUFFICES ASSUME BuilderIInv, [BuilderNext]_builderVars PROVE BuilderIInv'
  OBVIOUS
<1>1. CASE Startup \/ UNCHANGED builderVars
  BY <1>1, StartupStep
<1>2. ASSUME NEW asset \in Assets, Build(asset) PROVE BuilderIInv'
  <2>1. ASSUME NEW book \in Books, BuildPriced(asset, book) PROVE BuilderIInv'
    <3> DEFINE choice == ChooseLimitPrice(book, env.side, env.price, env.offset, env.min, env.max)
    <3>1. Calls /\ env.privateKey /\ BuildRequest(asset, choice)
      BY <2>1 DEF BuildPriced
    <3>2. Choosable(choice)
      BY PricedChoice DEF BuilderIInv
    <3> HIDE DEF choice
    <3> QED
      BY <3>1, <3>2, BuildStep
  <2>2. CASE BuildStatic(asset)
    <3> DEFINE choice == [price |-> ConfigPrice, mode |-> "static"]
    <3>1. Calls /\ env.privateKey /\ BuildRequest(asset, choice)
      BY <2>2 DEF BuildStatic
    <3>2. Choosable(choice)
      BY StaticChoice DEF BuilderIInv
    <3> HIDE DEF choice
    <3> QED
      BY <3>1, <3>2, BuildStep
  <2>3. CASE BuildFromTemplate(asset)
    BY <2>3, TemplateStep
  <2> QED
    BY <1>2, <2>1, <2>2, <2>3 DEF Build
<1> QED
  BY <1>1, <1>2 DEF BuilderNext

LEMMA BuilderInductive == BuilderSpec => []BuilderIInv
<1>1. BuilderInit => BuilderIInv
  BY BuilderInitially
<1> QED
  BY <1>1, BuilderStep, PTL DEF BuilderSpec

-----------------------------------------------------------------------------
(* Every variable keeps its type, and a signed request is for a price      *)
(* between 0 and 1 and for positive amounts.                               *)
THEOREM BuilderTypeCorrect == BuilderSpec => []BuilderTypeOK
<1>1. BuilderIInv => BuilderTypeOK
  BY DEF BuilderIInv
<1> QED
  BY <1>1, BuilderInductive, PTL

(* No book, offset, fallback or mistyped bound leads to a price outside    *)
(* the configured range.                                                   *)
THEOREM PricesInRange == BuilderSpec => []PriceInRange
<1>1. BuilderIInv => PriceInRange
  BY DEF BuilderIInv
<1> QED
  BY <1>1, BuilderInductive, PTL

(* The risk gate is asked about the token, the money and the shares of the *)
(* request, up to the rounding of the amounts.                             *)
THEOREM GateIsAsked == BuilderSpec => []GateSeesTheOrder
<1>1. BuilderIInv => GateSeesTheOrder
  BY DEF BuilderIInv
<1> QED
  BY <1>1, BuilderInductive, PTL

(* Every nonce is spent on a signed request or on one whose amounts round  *)
(* to zero.                                                                *)
THEOREM NoncesAreAccounted == BuilderSpec => []NoncesAccounted
<1>1. BuilderIInv => NoncesAccounted
  BY DEF BuilderIInv
<1> QED
  BY <1>1, BuilderInductive, PTL

-----------------------------------------------------------------------------
(* Nonces. *)

USE NonceAssumption

Traders == {a[1] : a \in Addresses}
KeyOf(trader) == <<trader, "lower">>

(* A worker's row depends on its trader, not on how it spells the address. *)
LEMMA KeyFacts ==
  ASSUME NEW w \in Workers
  PROVE  Key(w) = KeyOf(Trader(w)) /\ Key(w) \in StateKeys /\ Trader(w) \in Traders
BY DEF Key, Trader, KeyOf, StateKey, StateKeys, Traders

LEMMA KeysDiffer ==
  ASSUME NEW s, NEW t
  PROVE  KeyOf(s) = KeyOf(t) <=> s = t
BY DEF KeyOf

-----------------------------------------------------------------------------
(* The inductive invariant.  A nonce that was given or is on its way is    *)
(* below its trader's row, is on its way to one worker only, and was not   *)
(* given before.                                                           *)
Below(trader, n) ==
  rows[KeyOf(trader)].kind = "number" /\ n < rows[KeyOf(trader)].value

NoText == \A k \in StateKeys : rows[k].kind # "text"

GivenBelow == \A i \in DOMAIN given : Below(given[i][1], given[i][2])

AnswersBelow == \A w \in Workers : pc[w] = "answer" => Below(Trader(w), answer[w])

AnswersFresh ==
  \A w \in Workers : pc[w] = "answer" =>
    \A i \in DOMAIN given : given[i] # <<Trader(w), answer[w]>>

AnswersApart ==
  \A v, w \in Workers :
    v # w /\ pc[v] = "answer" /\ pc[w] = "answer" /\ Trader(v) = Trader(w)
      => answer[v] # answer[w]

Distinct == \A i, j \in DOMAIN given : given[i] = given[j] => i = j

NoncesCounted == NoText /\ GivenBelow /\ AnswersBelow /\ AnswersFresh /\ AnswersApart /\ Distinct

NonceIInv == TypeOK /\ (edits = 0 => NoncesCounted)

LEMMA NonceInitially == Init => NonceIInv
<1> SUFFICES ASSUME Init PROVE NonceIInv
  OBVIOUS
<1>1. TypeOK
  BY DEF Init, TypeOK, Absent
<1>2. NoncesCounted
  BY DEF Init, NoncesCounted, NoText, GivenBelow, AnswersBelow, AnswersFresh, AnswersApart, Distinct, Absent
<1> QED
  BY <1>1, <1>2 DEF NonceIInv

(* Steps that leave the rows and the orders alone, and send no answer.     *)
LEMMA RowsKept ==
  ASSUME NoncesCounted, rows' = rows, given' = given,
         \A w \in Workers : pc'[w] = "answer" => pc[w] = "answer" /\ answer'[w] = answer[w]
  PROVE  NoncesCounted'
<1>1. NoText' /\ GivenBelow' /\ Distinct'
  BY DEF NoncesCounted, NoText, GivenBelow, Distinct, Below
<1>2. AnswersBelow'
  BY DEF NoncesCounted, AnswersBelow, Below, Trader
<1>3. AnswersFresh'
  BY DEF NoncesCounted, AnswersFresh, Trader
<1>4. AnswersApart'
  BY DEF NoncesCounted, AnswersApart, Trader
<1> QED
  BY <1>1, <1>2, <1>3, <1>4 DEF NoncesCounted

LEMMA AllocateStep ==
  ASSUME TypeOK, NoncesCounted, NEW w \in Workers, Allocate(w)
  PROVE  NoncesCounted'
<1> DEFINE k == Key(w)
           value == Allocated(rows[k], seed[w])
<1>1. k = KeyOf(Trader(w)) /\ k \in StateKeys /\ Trader(w) \in Traders
  BY KeyFacts
<1>2. /\ rows' = [rows EXCEPT ![k] = Number(value)]
      /\ answer' = [answer EXCEPT ![w] = value - 1]
      /\ pc' = [pc EXCEPT ![w] = "answer"]
      /\ given' = given
  BY DEF Allocate
<1>3. /\ value \in Int
      /\ rows[k].kind = "number" => rows[k].value \in Int /\ value = rows[k].value + 1
  BY <1>1 DEF TypeOK, Allocated
<1>4. rows'[k] = Number(value) /\ \A l \in StateKeys : l # k => rows'[l] = rows[l]
  BY <1>1, <1>2 DEF TypeOK
<1>5. rows'[k].kind = "number" /\ rows'[k].value = value
  BY <1>4 DEF Number
<1>6. /\ answer'[w] = value - 1 /\ \A v \in Workers : v # w => answer'[v] = answer[v]
      /\ \A v \in Workers : v # w => pc'[v] = pc[v]
  BY <1>2 DEF TypeOK
<1> HIDE DEF k, value
<1>7. ASSUME NEW t \in Traders, NEW n \in Int, Below(t, n)
      PROVE  Below(t, n)' /\ (t = Trader(w) => n # value - 1)
  <2>1. KeyOf(t) \in StateKeys
    BY DEF StateKeys, StateKey, KeyOf, Traders
  <2>2. CASE t = Trader(w)
    <3>1. KeyOf(t) = k /\ rows[k].kind = "number" /\ n < rows[k].value
      BY <1>1, <1>7, <2>2 DEF Below
    <3>2. n < value /\ n # value - 1
      BY <1>3, <3>1
    <3> QED
      BY <1>5, <3>1, <3>2 DEF Below
  <2>3. CASE t # Trader(w)
    <3>1. KeyOf(t) # k
      BY <1>1, <2>3, KeysDiffer
    <3> QED
      BY <1>4, <1>7, <2>1, <2>3, <3>1 DEF Below
  <2> QED
    BY <2>2, <2>3
<1>8. \A i \in DOMAIN given : /\ given[i][1] \in Traders /\ given[i][2] \in Int
                              /\ given[i] = <<given[i][1], given[i][2]>>
                              /\ Below(given[i][1], given[i][2])
  BY DEF TypeOK, Traders, NoncesCounted, GivenBelow
<1>9. \A v \in Workers : v # w /\ pc[v] = "answer" =>
        answer[v] \in Int /\ Trader(v) \in Traders /\ Below(Trader(v), answer[v])
  BY KeyFacts DEF TypeOK, NoncesCounted, AnswersBelow
<1>10. NoText'
  <2>1. \A l \in StateKeys : rows'[l].kind # "text"
    BY <1>4, <1>5 DEF NoncesCounted, NoText
  <2> QED
    BY <2>1 DEF NoText
<1>11. GivenBelow'
  <2>1. \A i \in DOMAIN given : Below(given[i][1], given[i][2])'
    BY <1>2, <1>7, <1>8
  <2> QED
    BY <1>2, <2>1 DEF GivenBelow, Below
<1>12. AnswersBelow'
  <2> SUFFICES ASSUME NEW v \in Workers, pc'[v] = "answer"
               PROVE  /\ rows'[KeyOf(Trader(v))].kind = "number"
                      /\ answer'[v] < rows'[KeyOf(Trader(v))].value
    BY DEF AnswersBelow, Below, Trader
  <2>1. CASE v = w
    BY <1>1, <1>3, <1>5, <1>6, <2>1
  <2>2. CASE v # w
    <3>1. pc[v] = "answer" /\ answer'[v] = answer[v]
      BY <1>6, <2>2
    <3>2. Below(Trader(v), answer[v])'
      BY <1>7, <1>9, <2>2, <3>1
    <3> QED
      BY <3>1, <3>2 DEF Below, Trader
  <2> QED
    BY <2>1, <2>2
<1>13. AnswersFresh'
  <2> SUFFICES ASSUME NEW v \in Workers, pc'[v] = "answer", NEW i \in DOMAIN given
               PROVE  given[i] # <<Trader(v), answer'[v]>>
    BY <1>2 DEF AnswersFresh, Trader
  <2>1. CASE v = w
    BY <1>6, <1>7, <1>8, <2>1
  <2>2. CASE v # w
    BY <1>6, <2>2 DEF NoncesCounted, AnswersFresh
  <2> QED
    BY <2>1, <2>2
<1>14. AnswersApart'
  <2>1. \A v \in Workers :
          v # w /\ pc[v] = "answer" /\ Trader(v) = Trader(w) => answer[v] # value - 1
    BY <1>7, <1>9
  <2>2. \A u, v \in Workers :
          u # v /\ pc'[u] = "answer" /\ pc'[v] = "answer" /\ Trader(u) = Trader(v)
            => answer'[u] # answer'[v]
    BY <1>6, <2>1 DEF NoncesCounted, AnswersApart
  <2> QED
    BY <2>2 DEF AnswersApart, Trader
<1>15. Distinct'
  BY <1>2 DEF NoncesCounted, Distinct
<1> QED
  BY <1>10, <1>11, <1>12, <1>13, <1>14, <1>15 DEF NoncesCounted

LEMMA ReceiveStep ==
  ASSUME TypeOK, NoncesCounted, NEW w \in Workers, Receive(w)
  PROVE  NoncesCounted'
<1> DEFINE taken == <<Trader(w), answer[w]>>
<1>1. /\ pc[w] = "answer" /\ given' = Append(given, taken) /\ rows' = rows
      /\ \A v \in Workers : pc'[v] = "answer" =>
           v # w /\ pc[v] = "answer" /\ answer'[v] = answer[v]
  BY DEF Receive, TypeOK
<1>2. Trader(w) \in Traders /\ answer[w] \in Nat
  BY KeyFacts DEF Receive, TypeOK
<1>3. given \in Seq(Traders \X Nat)
  BY DEF TypeOK, Traders
<1>4. /\ DOMAIN given = 1..Len(given) /\ Len(given) \in Nat
      /\ DOMAIN given' = 1..Len(given) + 1
      /\ \A i \in DOMAIN given : given'[i] = given[i]
      /\ given'[Len(given) + 1] = taken
  BY <1>1, <1>2, <1>3
<1>5. taken[1] = Trader(w) /\ taken[2] = answer[w]
  OBVIOUS
<1> HIDE DEF taken
<1>6. Below(Trader(w), answer[w]) /\ \A i \in DOMAIN given : given[i] # taken
  BY <1>1 DEF NoncesCounted, AnswersBelow, AnswersFresh, taken
<1>7. NoText'
  BY <1>1 DEF NoncesCounted, NoText
<1>8. GivenBelow'
  <2> SUFFICES ASSUME NEW i \in DOMAIN given' PROVE Below(given'[i][1], given'[i][2])
    BY <1>1 DEF GivenBelow, Below
  <2>1. CASE i \in DOMAIN given
    BY <1>4, <2>1 DEF NoncesCounted, GivenBelow
  <2>2. CASE i = Len(given) + 1
    BY <1>4, <1>5, <1>6, <2>2
  <2> QED
    BY <1>4, <2>1, <2>2
<1>9. AnswersBelow'
  BY <1>1 DEF NoncesCounted, AnswersBelow, Below, Trader
<1>10. AnswersFresh'
  <2> SUFFICES ASSUME NEW v \in Workers, pc'[v] = "answer", NEW i \in DOMAIN given'
               PROVE  given'[i] # <<Trader(v), answer'[v]>>
    BY DEF AnswersFresh, Trader
  <2>1. v # w /\ pc[v] = "answer" /\ answer'[v] = answer[v]
    BY <1>1
  <2>2. CASE i \in DOMAIN given
    BY <1>4, <2>1, <2>2 DEF NoncesCounted, AnswersFresh
  <2>3. CASE i = Len(given) + 1
    <3>1. Trader(v) = Trader(w) => answer[v] # answer[w]
      BY <1>1, <2>1 DEF NoncesCounted, AnswersApart
    <3> QED
      BY <1>4, <2>1, <2>3, <3>1 DEF taken
  <2> QED
    BY <1>4, <2>2, <2>3
<1>11. AnswersApart'
  BY <1>1 DEF NoncesCounted, AnswersApart, Trader
<1>12. Distinct'
  <2> SUFFICES ASSUME NEW i \in DOMAIN given', NEW j \in DOMAIN given', given'[i] = given'[j]
               PROVE  i = j
    BY DEF Distinct
  <2>1. CASE i \in DOMAIN given /\ j \in DOMAIN given
    BY <1>4, <2>1 DEF NoncesCounted, Distinct
  <2>2. CASE i = Len(given) + 1 \/ j = Len(given) + 1
    BY <1>4, <1>6, <2>2
  <2> QED
    BY <1>4, <2>1, <2>2
<1> QED
  BY <1>7, <1>8, <1>9, <1>10, <1>11, <1>12 DEF NoncesCounted

(* Each step keeps the types. *)
LEMMA NonceTypeStep == TypeOK /\ [Next]_vars => TypeOK'
<1> SUFFICES ASSUME TypeOK, [Next]_vars PROVE TypeOK'
  OBVIOUS
<1> USE DEF TypeOK
<1>1. ASSUME NEW w \in Workers, Start(w) PROVE TypeOK'
  BY <1>1 DEF Start
<1>2. ASSUME NEW w \in Workers, Allocate(w) PROVE TypeOK'
  <2>1. Allocated(rows[Key(w)], seed[w]) \in Int
    BY KeyFacts DEF Allocated
  <2>2. rows' \in [StateKeys -> [kind : {"absent", "number", "text"}, value : Int]]
    BY <1>2, <2>1 DEF Allocate, Number
  <2> QED
    BY <1>2, <2>1, <2>2 DEF Allocate
<1>3. ASSUME NEW w \in Workers, Receive(w) PROVE TypeOK'
  <2>1. <<Trader(w), answer[w]>> \in Traders \X Nat
    BY <1>3, KeyFacts DEF Receive
  <2>2. given' \in Seq({a[1] : a \in Addresses} \X Nat)
    BY <1>3, <2>1 DEF Receive, Traders
  <2> QED
    BY <1>3, <2>2 DEF Receive
<1>4. ASSUME NEW w \in Workers, Down(w) PROVE TypeOK'
  BY <1>4 DEF Down
<1>5. ASSUME NEW w \in Workers, Edit(w) PROVE TypeOK'
  <2>1. PICK row \in {Text, Number(-1)} : rows' = [rows EXCEPT ![Key(w)] = row]
    BY <1>5 DEF Edit
  <2>2. row \in [kind : {"absent", "number", "text"}, value : Int]
    BY <2>1 DEF Text, Number
  <2>3. rows' \in [StateKeys -> [kind : {"absent", "number", "text"}, value : Int]]
    BY <2>1, <2>2
  <2> QED
    BY <1>5, <2>3 DEF Edit
<1>6. CASE UNCHANGED vars
  BY <1>6 DEF vars
<1> QED
  BY <1>1, <1>2, <1>3, <1>4, <1>5, <1>6 DEF Next, Worker, AllocateFails, Crash

(* Each step of a worker keeps the nonces counted; an edit ends the claim. *)
LEMMA NonceStep == NonceIInv /\ [Next]_vars => NonceIInv'
<1> SUFFICES ASSUME NonceIInv, [Next]_vars, edits' = 0 PROVE NoncesCounted'
  BY NonceTypeStep DEF NonceIInv
<1>1. TypeOK
  BY DEF NonceIInv
<1>2. ASSUME NEW w \in Workers, Edit(w) PROVE FALSE
  BY <1>1, <1>2 DEF Edit, TypeOK
<1>3. ASSUME NEW w \in Workers, Worker(w) PROVE edits = 0
  BY <1>3 DEF Worker, Start, Allocate, Receive, AllocateFails, Crash, Down
<1>4. edits = 0
  BY <1>2, <1>3 DEF Next, vars
<1>5. NoncesCounted
  BY <1>4 DEF NonceIInv
<1>6. ASSUME NEW w \in Workers, Start(w) PROVE NoncesCounted'
  BY <1>1, <1>5, <1>6, RowsKept DEF Start, TypeOK
<1>7. ASSUME NEW w \in Workers, Down(w) PROVE NoncesCounted'
  BY <1>1, <1>5, <1>7, RowsKept DEF Down, TypeOK
<1>8. CASE UNCHANGED vars
  BY <1>5, <1>8, RowsKept DEF vars
<1> QED
  BY <1>1, <1>2, <1>5, <1>6, <1>7, <1>8, AllocateStep, ReceiveStep
     DEF Next, Worker, AllocateFails, Crash

(* Every variable has its type, for any workers, seeds and limits.         *)
THEOREM NonceTypeCorrect == Spec => []TypeOK
<1>1. Init => TypeOK
  BY NonceInitially DEF NonceIInv
<1> QED
  BY <1>1, NonceTypeStep, PTL DEF Spec

(* No nonce is used twice for one trader, for any number of workers and    *)
(* any spellings of its address, as long as nobody edits its row.          *)
THEOREM NoncesAreUnique == Spec => []NoncesUnique
<1>1. NonceIInv => NoncesUnique
  BY DEF NonceIInv, NoncesCounted, Distinct, NoncesUnique
<1> QED
  BY <1>1, NonceInitially, NonceStep, PTL DEF Spec
=============================================================================
