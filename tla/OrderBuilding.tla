---------------------------- MODULE OrderBuilding ----------------------------
(***************************************************************************)
(* From the environment to a request for the exchange: the part of         *)
(* loadExecutionDependenciesFromEnv (cmd/worker/main.go) that validates    *)
(* the configuration, the builders it returns, and DynamicOrderBuilder.    *)
(* One builder call runs from the lookup of the book to the signed request *)
(* without anything of this program in between, so it is one step.         *)
(***************************************************************************)
EXTENDS Pricing

CONSTANTS
  Prices, Mins, Maxs, Offsets, Sides, Notionals,   \* environment
  Books,        \* what GetOrderBook may return, LookupFailed among them
  Assets,       \* assets signals are about
  Tokens,       \* tokenId of the template, Untold if it is no string
  MaxBuilds     \* bound: builder calls

ASSUME OrderBuildingAssumption ==
  /\ Prices \subseteq Int /\ Mins \subseteq Int /\ Maxs \subseteq Int
  /\ Offsets \subseteq Int /\ Notionals \subseteq Int
  /\ \A book \in Books : book.bids \in SUBSET Int /\ book.asks \in SUBSET Int
  /\ MaxBuilds \in Nat

Untold == "no_token"
NoRequest == [mode |-> "none"]

(* The environment after parsing: wellFormed is FALSE when a variable does *)
(* not parse, a credential is missing, or the owner, key, signer address,  *)
(* order type, signature type or expiration is refused.  The price 0 means *)
(* "not set" to NewDynamicOrderBuilder, which takes 0.5.                   *)
Environments ==
  [wellFormed : BOOLEAN, privateKey : BOOLEAN, dynamic : BOOLEAN, price : Prices,
   min : Mins, max : Maxs, offset : Offsets, side : Sides, notional : Notionals,
   token : Tokens]

VARIABLES env, builder, nonce, request, built, burnt

builderVars == <<env, builder, nonce, request, built, burnt>>

BuilderInit ==
  /\ env \in Environments
  /\ builder = "startup"
  /\ nonce = 0
  /\ request = NoRequest
  /\ built = 0
  /\ burnt = 0

(* DynamicOrderBuilder.cfg.Price. *)
ConfigPrice == IF env.price = 0 THEN Unit \div 2 ELSE env.price

SideLabel == IF IsSell(env.side) THEN "SELL" ELSE "BUY"

StartupAccepts ==
  /\ env.wellFormed
  /\ env.privateKey => /\ IsFiniteProbability(ConfigPrice)
                       /\ env.side # "HOLD"

(* log.Fatalf, or the builder is ready. *)
Startup ==
  /\ builder = "startup"
  /\ builder' = IF StartupAccepts THEN "ready" ELSE "exited"
  /\ UNCHANGED <<env, nonce, request, built, burnt>>

Calls == builder = "ready" /\ built + burnt < MaxBuilds

(* Mutant: the side decides nothing. *)
AmountsOfBuy(price) ==
  [maker |-> NotionalUnits(env.notional), taker |-> SizeUnits(env.notional, price)]

(* computeAmounts: a buyer pays the notional, a seller the shares. *)
Amounts(price) ==
  IF SideLabel = "BUY"
  THEN [maker |-> NotionalUnits(env.notional), taker |-> SizeUnits(env.notional, price)]
  ELSE [maker |-> SizeUnits(env.notional, price), taker |-> NotionalUnits(env.notional)]

(* Mutant: the nonce is taken before the order is looked at. *)
AllocatesFirst(choice) == TRUE

(* buildRequest checks token, notional and price, then takes a nonce.      *)
Allocates(choice) == env.notional > 0 /\ IsFiniteProbability(choice.price)

(* The amounts come after it and may still round to zero.  An error makes  *)
(* Run return, and the process ends.                                       *)
BuildRequest(asset, choice) ==
  /\ nonce' = IF Allocates(choice) THEN nonce + 1 ELSE nonce
  /\ IF env.notional > 0 /\ IsFiniteProbability(choice.price)
     THEN IF NotionalUnits(env.notional) > 0
          THEN /\ request' = [mode |-> choice.mode, price |-> choice.price,
                              maker |-> Amounts(choice.price).maker,
                              taker |-> Amounts(choice.price).taker,
                              token |-> asset, market |-> asset]
               /\ built' = built + 1
               /\ UNCHANGED <<env, builder, burnt>>
          ELSE /\ burnt' = burnt + 1
               /\ builder' = "exited"
               /\ UNCHANGED <<env, request, built>>
     ELSE builder' = "exited" /\ UNCHANGED <<env, request, built, burnt>>

(* The dynamic builder prices from the book, or from POLY_ORDER_PRICE as   *)
(* it was parsed when there is none.                                       *)
BuildPriced(asset, book) ==
  /\ Calls /\ env.privateKey /\ env.dynamic
  /\ BuildRequest(asset,
       ChooseLimitPrice(book, env.side, env.price, env.offset, env.min, env.max))

(* Without dynamic pricing the configured price is taken, unclamped. *)
BuildStatic(asset) ==
  /\ Calls /\ env.privateKey /\ ~env.dynamic
  /\ BuildRequest(asset, [price |-> ConfigPrice, mode |-> "static"])

(* readTokenID: the market the risk gate sees. *)
TemplateMarket(asset) == IF env.token = Untold THEN asset ELSE env.token

(* Without a private key every signal gets a copy of one signed order. *)
BuildFromTemplate(asset) ==
  /\ Calls /\ ~env.privateKey
  /\ request' = [mode |-> "template", token |-> env.token, market |-> TemplateMarket(asset)]
  /\ built' = built + 1
  /\ UNCHANGED <<env, builder, nonce, burnt>>

Build(asset) ==
  \/ \E book \in Books : BuildPriced(asset, book)
  \/ BuildStatic(asset)
  \/ BuildFromTemplate(asset)

BuilderNext == Startup \/ \E asset \in Assets : Build(asset)

BuilderSpec == BuilderInit /\ [][BuilderNext]_builderVars

-----------------------------------------------------------------------------
Dynamic == request.mode \in {"dynamic", "fallback"}
Signed == Dynamic \/ request.mode = "static"

(* Every variable has its type, and a signed request valid amounts. *)
BuilderTypeOK ==
  /\ builder \in {"startup", "ready", "exited"}
  /\ {nonce, built, burnt} \subseteq 0..MaxBuilds
  /\ Signed => request.maker > 0 /\ request.taker > 0 /\ request.price \in 1..Unit-1

(* No book, offset, fallback or mistyped bound leads to a price outside    *)
(* the configured range.                                                   *)
PriceInRange ==
  Dynamic =>
    /\ IsFiniteProbability(env.min) => request.price >= env.min
    /\ IsFiniteProbability(env.max) => request.price <= env.max

(* What the risk gate is asked about is what the exchange gets: the market *)
(* is the token of the request, and of a signed request the money, which   *)
(* is the buyer's maker amount, is the notional and the shares times the   *)
(* price, up to the rounding of each.                                      *)
GateSeesTheOrder ==
  /\ request # NoRequest /\ request.token # Untold => request.market = request.token
  /\ Signed =>
       LET money  == IF SideLabel = "BUY" THEN request.maker ELSE request.taker
           shares == IF SideLabel = "BUY" THEN request.taker ELSE request.maker
           error  == 2 * (money * Unit - shares * request.price)
       IN  /\ 2 * (4 * money - env.notional) \in -4..4
           /\ -(Unit + request.price) <= error /\ error <= Unit + request.price

(* Nonces are spent on signed requests and on amounts that round to zero,  *)
(* never on an order whose price or notional is refused.                   *)
NoncesAccounted ==
  env.privateKey => nonce = built + burnt

=============================================================================
