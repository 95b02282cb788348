------------------------------ MODULE Pricing ------------------------------
(***************************************************************************)
(* Limit prices (cmd/worker/pricing.go) and order amounts (dynamic_order_  *)
(* builder.go) in exact arithmetic.  A price is a number of ticks of       *)
(* 1/Unit; every value that is no probability (zero, one, negative, above  *)
(* one, infinite, not a number) is an integer outside 1..Unit-1, as the    *)
(* code rejects them all by the same test before it computes with them.    *)
(* A notional is a number of quarters of a base unit.                      *)
(***************************************************************************)
EXTENDS Integers, FiniteSetsExt

CONSTANTS Ticks,        \* prices of the book are multiples of 1/Ticks
          OffsetScale   \* 10000 in the code: basis points

ASSUME PricingAssumption == Ticks \in Nat \ {0} /\ OffsetScale \in Nat \ {0}

Unit == Ticks * 2 * OffsetScale       \* the price 1
Tick == 2 * OffsetScale               \* the step of book prices

NoPrice == 0

IsFiniteProbability(p) == 0 < p /\ p < Unit

DefaultMin == Unit \div 100
DefaultMax == Unit - Unit \div 100

(* Mutant: a price is not pulled down to the maximum. *)
ClampBelow(p, minPrice, maxPrice) ==
  LET lo == IF IsFiniteProbability(minPrice) THEN minPrice ELSE DefaultMin
      hi == IF IsFiniteProbability(maxPrice) THEN maxPrice ELSE DefaultMax
  IN  IF IsFiniteProbability(p) /\ lo < hi THEN Max({lo, p}) ELSE NoPrice

(* clampProbabilityPrice; NoPrice stands for its error. *)
Clamp(p, minPrice, maxPrice) ==
  LET lo == IF IsFiniteProbability(minPrice) THEN minPrice ELSE DefaultMin
      hi == IF IsFiniteProbability(maxPrice) THEN maxPrice ELSE DefaultMax
  IN  IF IsFiniteProbability(p) /\ lo < hi THEN Min({Max({lo, p}), hi}) ELSE NoPrice

(* bestBidPrice, bestAskPrice: levels without a usable price are skipped.  *)
Usable(levels) == {p \in levels : IsFiniteProbability(p)}
BestBid(book) == Max(Usable(book.bids))
BestAsk(book) == Min(Usable(book.asks))
HasBid(book) == Usable(book.bids) # {}
HasAsk(book) == Usable(book.asks) # {}

Mid(book) ==
  IF HasBid(book) /\ HasAsk(book) THEN (BestBid(book) + BestAsk(book)) \div 2
  ELSE IF HasBid(book) THEN BestBid(book) ELSE BestAsk(book)

(* strings.EqualFold(strings.TrimSpace(side), "SELL") for the spellings of *)
(* POLY_ORDER_SIDE that are distinguished here.                            *)
IsSell(side) == side \in {"SELL", " sell"}

(* The mid price moved by the offset; exact, because Mid is a multiple of  *)
(* OffsetScale.                                                            *)
Computed(book, side, offset) ==
  (Mid(book) \div OffsetScale)
    * (IF IsSell(side) THEN OffsetScale - offset ELSE OffsetScale + offset)

(* A lookup that fails is priced like an empty book. *)
LookupFailed == [bids |-> {}, asks |-> {}]

(* chooseLimitPrice as the order builder calls it, with dynamic pricing on *)
(* (its static branch has no caller).                                      *)
ChooseLimitPrice(book, side, fallback, offset, minPrice, maxPrice) ==
  LET safe == Clamp(fallback, minPrice, maxPrice)
      dynamic == Clamp(Computed(book, side, offset), minPrice, maxPrice)
  IN  IF safe = NoPrice THEN [price |-> NoPrice, mode |-> "error"]
      ELSE IF ~(HasBid(book) \/ HasAsk(book)) \/ dynamic = NoPrice
           THEN [price |-> safe, mode |-> "fallback"]
           ELSE [price |-> dynamic, mode |-> "dynamic"]

(* math.Round of a quotient of positive numbers. *)
RoundedQuotient(a, b) == (2 * a + b) \div (2 * b)

(* toBaseUnits of the notional and of notional / price. *)
NotionalUnits(notional) == RoundedQuotient(notional, 4)
SizeUnits(notional, price) == RoundedQuotient(notional * Unit, 4 * price)
=============================================================================
