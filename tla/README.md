# A TLA+ verification project for polymarket-signal-autopilot

The repository is a Go worker that listens to Polymarket market prices, turns
leader changes between two assets into signals, and, with `AUTO_EXECUTE` on,
turns signals into live orders that pass a risk gate, are posted to the
exchange, recorded in Postgres and reconciled until the exchange reports a
terminal status. This directory holds TLA+ modules translated from that code,
TLC configurations that check small instances of them, and proofs for instances
of any size. All line numbers are those of the files named with them.

## 1. Inventory

### Parts, their state and their operations

| part | source | state | operations |
|---|---|---|---|
| live router | `internal/execution/live_router.go` | `seenKeys`, `exposure`, `clusterExposure`, `dayPnL`, one mutex | `Submit`, `RecordPnL` |
| kill switch | `internal/execution/kill_switch.go` | `triggered`, `reason`, an RWMutex of its own | `Trigger`, `Reset`, `Active` |
| autopilot | `internal/runtime/autopilot.go` | the locals of one event loop, the notify cooldown map | `Run`, `handleUpdate`, `executeSignal`, `reconcileOrder`, `reconcilePendingOrders`, `notify` |
| store | `internal/persistence/store.go` | tables `raw_events`, `signals`, `order_attempts`, `notifications`, `runtime_state` | `Write`, `SaveSignal`, `SaveOrder`, `SaveNotification`, `ListPendingOrderReconciliations`, `Set/GetRuntimeState`, `AllocateRuntimeNonce` |
| exchange client | `connectors/polymarket/private_client.go` | none (credentials) | `PostOrder`, `GetOrder`, `CancelOrder` (no caller) |
| order builder, nonces, pricing | `connectors/polymarket/dynamic_order_builder.go`, `cmd/worker/main.go`, `cmd/worker/pricing.go` | the nonce counter, in memory or in `runtime_state` | `loadExecutionDependenciesFromEnv`, `chooseLimitPrice`, `BuildWithPrice`, `buildRequest`, `computeAmounts`, `newDBAtomicNonceProvider` |
| market stream | `connectors/polymarket/ws_market_client.go` | connection, attempt counter, two channels | `Stream`, `readLoop`, `pingLoop`, `NextBackoff`, `emitErr` |
| strategy | `internal/strategy/rank_shift.go` | prices, leader, last signal time | `OnUpdate` |
| telemetry and alerts | `internal/runtime/telemetry.go`, `anomaly.go`, `internal/notify/telegram.go` | counters, a ring of 200 anomalies, cooldown times | `Record*`, `Emit`, `Send` |
| paper router, backtest, validation | `internal/execution/*` | `exposure`, `dayPnL`, `halted` (not locked) | `Submit`, `RecordPnL`, `RunBacktest`, Benjamini-Hochberg, permutation test |
| ingestion, replay | `internal/ingestion/*`, `internal/ops/replay.go` | the events written, in order | `Write`, `List`, `DetectSequenceGaps`, `FillGaps`, `ReplayDeterministic` |
| asset picker | `internal/assetpicker/selector.go`, `cmd/assetpicker` | the page offset of one fetch | `fetchActiveMarkets`, `SelectCandidates`, `BuildPOLYAssetIDs`, `SuggestPair` |
| news, linking, features, rules | `connectors/news`, `internal/linking`, `features`, `signals`, `risk` | reliability and first-seen maps | short sequential functions |
| API server, legacy worker, configuration | `runtime/api_server.go`, `runtime/worker.go`, `config`, `cmd/api` | none | request handlers, environment parsing |

### How they interact

`main` builds everything and calls `AutoPilot.Run`. The stream's goroutine feeds
two channels; `Run` is one goroutine that selects among them, a reconciliation
ticker and the context. One market update runs to its end before the next
select: raw event to the store, strategy, signal to the store, notification,
order builder (which allocates a nonce), `LiveRouter.Submit`, `PostOrder`, order
row, reconciliation with its waits. An error that `Run` returns ends the process
(`log.Fatalf`) and docker-compose starts it again. The router is built for
callers in several goroutines and an operator, and the ops HTTP server reads
telemetry concurrently.

### What is hard

* **Concurrency**: the router's check and commit, `RecordPnL`'s trigger after
  its unlock, the kill switch's separate lock.
* **Failure between two effects**: order posted but not recorded, answer lost,
  write failed after its commit, context cancelled in a scan.
* **Restarts**: database and exchange survive, the router does not.
* **Convergence**: the ledger has to learn what the exchange did, by scans that
  are limited in size and that change the order in which they scan.
* **Timing and arithmetic**: cooldowns, exponential backoff, wall clocks.

### What makes each part correct

* *Router*: caps hold under overlap, each key once, a loss breach stops trading,
  a triggered switch stops trading up to one submission under way.
* *Autopilot with ledger*: a closed order in the ledger was closed on the
  exchange with that outcome and stays closed; every recorded order's outcome is
  learned eventually; no order without its signal's row; reconciliation ends.
* *Nonces*: never the same nonce twice for one trader, across workers, processes,
  crashes and lost answers.
* *Order building*: a limit price stays in the configured range whatever the book
  says; the risk gate is asked about the order the exchange gets; nonces are not
  spent on orders that are refused.
* *Stream*: reconnects for as long as the context lives, loses no update behind
  a slow consumer, leaks no connection or ping goroutine, waits between dials;
  a cancellation reaches it, and `Run` handles what it left in the channels.
* *Alerting*: notifications of one severity are a cooldown apart, a failed send
  silences no later alert, Telegram's retries end, and after a cancellation the
  event loop is held only by what takes no notice of it.
* *Strategy*: two signals are a cooldown apart, each is about a real overtaking,
  and a flip that is not signalled is lost, not delayed.
* *Paper router*: while only checks that both routers have decide, paper and live
  agree on every order.
* *Ledger of raw events*: a replay does not depend on arrival order, and a
  recovery closes the gaps it saw.
* *Asset picker*: the pair it suggests is one the worker subscribes to.

## 2. Modules

| module | models | kind |
|---|---|---|
| `RiskGate` | the decision and the commit of `Submit` | operators only |
| `LiveRouter` | `Submit`, `RecordPnL`, kill switch, with goroutines and locks | state machine |
| `LiveRouterProofs` | theorems about `LiveRouter` | proofs |
| `OrderLedger` | statuses, `SaveOrder`, the scan's SQL | operators only |
| `AutoPilot` | worker, database, exchange, crashes, restarts | state machine |
| `AutoPilotProofs` | theorems about `AutoPilot`, the refinement of `OrderTracking` among them | proofs |
| `OrderTracking` | what the ledger promises about the exchange | abstract specification |
| `Backoff` | `NextBackoff` in 64-bit arithmetic | operators only |
| `MarketStream` | `Stream` with its ping goroutines, both channels, the `select` of `Run` | state machine |
| `MarketStreamProofs` | theorems about `MarketStream` | proofs |
| `NonceAllocator` | nonces of several workers in `runtime_state` | state machine |
| `Pricing` | `chooseLimitPrice`, clamping, amounts, in exact arithmetic | operators only |
| `OrderBuilding` | configuration gate and the three order builders | state machine |
| `OrderBuildingProofs` | theorems about `OrderBuilding`, `Pricing` and `NonceAllocator` | proofs |
| `RankShift` | `OnUpdate` with its clock and restarts | state machine |
| `RankShiftProofs` | theorems about `RankShift` | proofs |
| `Alerting` | `Emit`, `notify`, `Send` and its retries in the event loop | state machine |
| `AlertingProofs` | theorems about `Alerting` | proofs |
| `PaperRouter` | `PaperRouter` beside `LiveRouter` on the same input | state machine |
| `RiskGateProofs` | lemmas about the decision and sums of notionals, for the proofs of its users | proofs |
| `RawLedger` | raw events, gap detection, backfill, replay | state machine |
| `AssetPicker` | pagination, selection, subscription and pair | state machine |
| `OfflineProofs` | theorems about `PaperRouter`, `RawLedger` and `AssetPicker` | proofs |
| `MCLiveRouter`, `MCAutoPilot`, `MCMarketStream` | instances of one module | model checking |
| `MCWorkerParts`, `MCOfflineParts` | instances of several modules | model checking |

`LiveRouter`, `AutoPilot` and `PaperRouter` EXTEND `RiskGate`: the first runs the
decision in a critical section with its read and its write in separate steps, the
others as one step, which is justified by the first (the mutex) and by there being
only one caller. Modules of parts that are checked or proved together have names
that do not clash (`BuilderInit`, `StrategySpec`, `LedgerNext`, `PickerTypeOK`). `AutoPilot` also EXTENDS `OrderLedger` and instantiates
`OrderTracking` with a refinement mapping.

### `LiveRouter`

`mu` is the Go mutex; a thread is `idle`, in one of the three places of `Submit`
(`kill_check`, `decide`, `commit`) or between `RecordPnL`'s unlock and its
`Trigger`. The sums `Submit` compares with the caps are locals
(`call[t].nextExposure`), stored in a later step, so an interleaving that the
mutex did not prevent would show. Operator actions are enabled in every state.
`accepted`, `leaked` and `breached` are history for the properties. Money is
integer. `Refusal` returns the first failing check in code order.

### `AutoPilot`

Each step of the worker ends with one call that leaves the process. `pc` is the
next such call:

```
select -> save_signal -> submit -> post -> save_order -> get -> save_status -> ...
                            \-> save_blocked               \-> wait, save_error, save_pending
select -> (scan) next -> get ... -> next -> select
```

* `exchange[o]` is the truth about the order; it may close at any time.
* `ledger` keeps what the scan's query can see of the append-only table: the
  newest row of each order id and which of two newest rows is newer. Rows with
  an empty order id are in `unnamed`.
* `PostAnswerLost` and `PostNotSent` are the two sides of an error of
  `PostOrder`; the worker cannot tell them apart.
* `SaveFails` lets a failing write have happened all the same.
* `Crash`, `Cancel` and failing writes or builders use up `MaxFaults`.
* A status is a word and whether it is spelled exactly as the tables have it.
* `GetOrder` may answer without a status, which counts as `unknown`, for an open
  order as for a closed one (`Reported`).

Left out of `AutoPilot`: telemetry, ops alerts and notifications, whose results
the loop does not read; a scan that fails (reported, changes nothing, a
stutter); a successful `PostOrder` answer without an order id; two rows with
the same `created_at`, and clocks that step back; a second worker on the same
database. Every signal becomes at most one order. An order the exchange takes rests
there or is matched at once: that no other terminal status comes with
`success=true` is an assumption about the exchange (`AutoPilotAssumption`).

### `OrderTracking`

Two functions over orders: `book` (the exchange) and `known` (what a reader of
the ledger concludes). Six actions: `Place`, `Refuse`, `Close`, `Record`,
`Lose`, `Learn`. `AutoPilot` implements `Spec` (`TracksOrders`), so a closed
order is never reopened, never closed with another outcome than the exchange's,
and an order is `lost` only if its id was lost in flight. With fairness it
implements `FairSpec` (`LearnsOutcomes`). The mapping is `Book` and `Known` in
`AutoPilot`; an order whose id the worker holds but has not written is not lost
yet (`InFlight`).

### `MarketStream` and `Backoff`

`pc` is the place of Stream's goroutine: the loop's head, `dial`, `subscribe`,
`read_top` (the context check before `ReadMessage`), `read` (inside it),
`deliver` (the sends of a decoded frame), `wait` (`sleepBackoff`) and `done`.
`conn` is its connection; `open`, `pingers` and `pingDone` are sets of
connections, so that what was forgotten stays visible, and an identity is reused
only when it is in none of the first two. The channels are sequences with
capacities. A send to `updates` waits for room or the context; a send to `errs`
never waits, and an error without room is dropped. `closed` stands for both
channels: Run receives from each alone, in either order.

The consumer is `runner` with its two local channel variables, which it sets to
`nil` one by one; `busy` and `reconcile` are the time inside `handleUpdate`, of
which `AutoPilot` is the detailed model (the ticker's case,
which also keeps Run busy, is only there). An update carries the time at which it
was read, for the age it has when an order is sent for it.

A frame is modelled by its effect: ignored, undecodable (one bad entry rejects
the whole frame), or some updates. Lines 118-121 are not reached: `readLoop`
returns `nil` only when the context is cancelled. An error of `handleUpdate`
ends the process and is part of `AutoPilot`.

`Backoff` keeps an int64 as the set of its 1 bits: a product with a power of two
is a shift that loses bits above 63, and two's complement order is decided by
the highest bit in which two numbers differ. So the overflow is exact and no
number is larger than TLC's integers.

### `NonceAllocator`

`rows` is `runtime_state`; `Key` lower-cases the trader's address, so workers
that spell it differently share a row. The `INSERT .. ON CONFLICT` is one step
(`Allocate`), its answer another (`Receive`): a worker may die, or its connection
break, between them, and the nonce is then lost. A row may be absent, a number or
a text; `$2 + 1` overflows as an `integer` and the row's successor as a `bigint`.
`Edit` is somebody with `psql`, the only way in which a row ceases to be a
number. `given` is history.

### `Pricing` and `OrderBuilding`

A price is an integer number of ticks, fine enough for halves of book prices and
for basis points of them; every value that `isFiniteProbability` refuses is an
integer outside the range. `Startup` is the configuration gate of
`loadExecutionDependenciesFromEnv`. `BuildPriced`, `BuildStatic` and
`BuildFromTemplate` are the three builders it may return, each one step: nothing
of the program runs between the look at the book and the signed request. The
nonce counter here is the one in memory; `NonceAllocator` has the one in the
database. `env` is the environment, `builder` whether the process has started, is
ready or has exited, `built` and `burnt` count the nonces that were signed and lost.

### `RankShift`

`prices`, `leader` and `lastSignalAt` are the fields of the strategy. Prices are
integers; NaN, infinity and an unreadable payload are values of their own,
compared as Go compares them. `signal`, `repeats` and `unsignalled` are history.

### `Alerting`

A handler of the event loop is the `queue` of what it still waits for (`Handler`):
its sends; its works, which are the database calls (`WriteRaw`, `SaveSignal`,
`Nonce`, `SaveOrder`) and the fetch of the book (`Book`); and the post of the order.
`sender` is where it is in the first of them: before it (`next`), in a work
(`work`), in a request of a send (`post`) or in the sleep before its next
attempt (`sleep`). `Begin` is the check of the cooldown, `Delivers`, `Refused`,
`Busy` and `StillBusy` are what becomes of a request, `Wake` ends a sleep.
`notify` writes a row after its send (`SaveNotification`), whatever became of it:
`Return` goes on to that work. `timer` is what is left of a work, a request or a
sleep, and `TimePasses` is the clock. `lastSent` and `lastSignalNotify` hold ages
instead of times. `Emit` unlocks between its check and its store; its only
callers are in the one event loop, so no other `Emit` runs in between.

What looks at the context is a request of a send, the fallback alert's excepted,
and `PostOrder`. What does not: a sleep between two attempts, the fallback alert
of the order builder (main.go:510), the fetch of the book, which has a timeout of
its own (main.go:486), the nonce (main.go:745), and every row, as the store's
methods take no context.

A handler ends here with the row of its order. Left out is what follows that row: the
`order_blocked` and `order_failed` alerts, the reconciliation (`AutoPilot` has
it, without times) and the notice of the order's status, which adds a row. So is
the handler of the ticker.

### `PaperRouter`

`paper` and `live` get the same orders and PnL. `OnlyLiveRefuses` lists the
checks that only `LiveRouter` has; `parted` remembers that one of them decided,
or that an operator triggered or reset the kill switch, after which the two may
differ.

### `RawLedger`

`Arrive` is a write from any source; `Recover` and `WriteMarker` are the steps of
`replay-backfill.md`, one marker at a time, by several operators. `Gaps` is
`DetectSequenceGaps`, `Filled` is `FillGaps`; the markers of a recovery that are
still to be written are the set `todo`, written in ascending order. `Replay` is the
order that `ReplayDeterministic` hashes, stated by what a stable sort returns: an
event's `Place` is the number of those that come no later than it.

### `AssetPicker`

`FetchPage` fetches one page of a listing that may change between two pages, so a
market may be fetched twice or never. `Select` is the rest of `main`. The floors
and ranks of `SelectCandidates` are exact here and floating point in the code.
Sorted slices are the members of `InOrder`: the sequences of a set in which what
comes first stands first. A market that was fetched is told by its index, a token
by its place (which market of the selection, which of its tokens), and a token is
printed where it stands first (`FirstPlaces`).

### `MCWorkerParts` and `MCOfflineParts`

Parts that share no variable are checked by one run each: `part` is picked in the
initial state and never changes, so the states of the parts add up. The modules
extend their parts, so TLC evaluates the parts' assumptions. The fairness of
`PartsSpec` is that of `Alerting`, the one part with a liveness property.

## 3. Runs

| run | configuration | shows |
|---|---|---|
| `live_router` | 2 goroutines, 7 orders over 3 markets, 3 keys, one cluster, PnL -2..1 | caps, sums, keys, kill switch and loss latch in every interleaving; about 387 000 states |
| `autopilot` | 3 signals (symmetric), cap for 2, 2 attempts, limit 2, 1 fault | type, audit trail, booked exposure, row bound, refinement of `OrderTracking!Spec`; about 711 000 states |
| `autopilot_live` | 2 signals, 2 attempts, limit 2, 2 faults | refinement of `OrderTracking!FairSpec`, the loop returns; about 159 000 states |
| `market_stream` | 2 connections, both channels hold 1, 2 updates in frames of 1 or 2, no limit on attempts or a limit of 2 | no update lost or reordered, no leak, reconnects or gives up at the limit only, ends when cancelled, Run drains it and returns; about 166 000 states |
| `worker_parts` | nonces of 2 workers, every environment and book, prices of every kind, Telegram | nonce uniqueness, price range, what the gate sees, signal spacing, alert and notification cooldowns, cancellation; about 1 033 000 states |
| `offline_parts` | 3 keys and 2 markets on both routers, 5 events with 2 operators, 5 markets in pages of 2 | paper/live parity, replay, gap closure, the suggested pair; about 328 000 states |

Runs that are expected to fail, each checking a sentence of the repository's own
documents against the code:

| run | the sentence | what happens |
|---|---|---|
| `sweep_starvation` | real-data-quickstart.md:105, "periodic re-scan for non-terminal orders" | more open orders than the limit: the oldest are never scanned |
| `sweep_spelling` | the same | `MATCHED` is terminal in Go and open in SQL |
| `lost_answer` | real-data-quickstart.md:148, "reconciliation backchecks order status" | an order placed with its answer lost has no id to check |
| `redial` | restart-425.md:10, "exponential backoff with cap (base 250ms, max 5s)" | at attempt 36 the delay is negative; from 57 on it is always 0 |
| `stale_update` | plan v3:257, "stale-data cutoff" | an update older than the cutoff is traded on: its age is passed as 0 |
| `cap_after_restart` | plan v3:256, "Per-market and per-cluster exposure caps" | the sums start from zero in every process |

### Differences read in the code that have no run

* incident-response.md:12-13 triggers the kill switch and confirms "all live
  submissions are blocked". A `Submit` that is past its check still accepts after
  `Trigger`; `AtMostOneLeak` shows that it is one at most.
* real-data-quickstart.md:147 promises a fallback to `POLY_ORDER_PRICE`. The value
  0 passes the configuration gate, where it means 0.5, but dynamic pricing takes
  it as it is (main.go:494) and refuses it, also when the book is good: the worker
  then ends at its first order.
* real-data-quickstart.md:99 and :101 call the cooldowns a dedupe. `notify` starts
  its cooldown before the send, so a send that failed suppresses the next
  notification (autopilot.go:532); `Emit` stores the time from before the send,
  and nothing if the answer was lost (telemetry.go:343), so the same alert may
  arrive twice within a cooldown. What holds instead is
  `NotificationsNearlyApart` and `OnlyDeliveredAlertsSilence`.
* plan v3:262 asks for paper/live parity. It ends with the first retry, the first
  order refused by whitelist, country, cluster or age, and when an operator
  triggers or resets the kill switch, which the paper router does not have;
  `Parity` says how far it goes.
* replay-backfill.md:9 detects missing sequences. The worker never sets
  `Sequence`, so there are none to detect in what it writes; and an event that
  arrives late gives its sequence number a second time, next to its marker.
* `-max-fetch` of the asset picker is "Maximum active markets to fetch"
  (cmd/assetpicker/main.go): a page that filtering has shortened ends the fetch
  before that. With `-max-asset-ids` below twice `-max-selected`, the suggested
  pair may be outside the suggested `POLY_ASSET_IDS`.

### Bounds and why they are enough

Two goroutines are enough for every race of the router: its critical section
excludes all but one, and the proofs cover any number. The orders of
`MCLiveRouter` contain a retry, an order over each cap, and one order for each
refusal of `Submit`, so every disjunct of the decision is reached. `PnLRange`
keeps the PnL on both sides of the loss cap. Three signals are one more than the
cap has room for (a blocked order) and one more than the scan's limit; two
attempts have a first and a last; one fault may hit between any two steps, two
faults make a failing restart. The scan limit of the liveness run is not less
than the number of orders: with a smaller one `OutcomesArrive` fails, which
`sweep_starvation` shows.

In `MarketStream` the attempt counter stays at `AttemptBound`, which is not below
`MaxAttempts`, so nothing but the delay depends on it beyond that; `redial` uses
40. Capacities of 1 for 64 and 16 make full channels common. Frames of two
updates hold the reader up between two sends.

In `MCWorkerParts`, two workers with the same trader in two spellings and the
integer limits 2 and 4 (instead of 2^31-1 and 2^63-1) reach both overflows; one
edit is enough to break the counter. Two builder calls follow one another on one
counter; the prices lie below, in and above each range, and books are empty, have
one side, or have levels that are not usable. Three unsignalled flips
(`MaxFlips`) have either parity. Cooldowns of 2 for alerts and 3 for
notifications, one retry and two signals leave time for a cooldown to pass inside
a retry. Each handler may price from the book or not, fall back or not, and is
cancelled at every place. `BookTimeout` is the timeout of the fetch. The code
sets none for a database call: that one ends within `QueryTime` is an assumption
about the database, without which no bound on a handler holds.

In `MCOfflineParts`, two orders of 2 or 3 pass the market cap of 4, orders of two
markets the cluster cap of 5, losses of 2 the loss cap of 3. The five events have
one sequence number twice, one event without, and a gap whose middle arrives
late. The five markets have ties in volume, a closed market, an idle one and two
whose category is only known from its event; one change of the listing repeats or
skips a market.

### Fairness

`LiveRouter`, `NonceAllocator`, `OrderBuilding`, `RankShift` and the modules of
`MCOfflineParts` state safety only, and no fairness. `AutoPilot`: the worker keeps
running (weak); the ticker's case, and a cancelled context's, are taken if ready
again and again, as Go's `select` chooses among ready cases at random (strong); a
process that has ended is started again (docker-compose after a failure, an
operator after a shutdown); `GetOrder` of one order does not for ever
fail or answer without a status (strong). The exchange is never obliged to fill an order. `MarketStream`:
Stream's goroutine outside `ReadMessage`, the ping goroutines and Run keep
running (weak); a cancelled context is noticed by Run's select (strong). The
server is never obliged to send a frame or an error: a read may hang for ever,
as the code sets no deadline. That a dial and a subscription succeed if tried
again and again (`Reachable`, strong) is an assumption about the network; only
`Reconnects` needs it. `Alerting`: the loop takes its next step (weak), and time
passes while a handler runs (weak), as the clients have timeouts, a sleep an end
and a database call `QueryTime`; Telegram may ask for a retry every time.

## 4. Proofs

`LiveRouterProofs` proves, for any threads, orders and configuration that
satisfy `RiskGateAssumption` and `LiveRouterAssumption`:

| theorem | property |
|---|---|
| `TypeCorrect` | `TypeOK` |
| `CapsNeverExceeded` | `CapsHold` |
| `KeysAreIdempotent` | `AcceptedOnce` |
| `OneLeakAtMost` | `AtMostOneLeak` |
| `BreachIsLatched` | `LossLatched` |
| `LossCapStopsAcceptance` | `NoAcceptUnderLossCap` |
| `ExposureIsAccounted` | `ExposureAccounted` |

The properties are not inductive: that a commit keeps the caps depends on what
was checked two steps earlier. `IInv` adds

* `LockHeld`: a thread inside `Submit` holds `mu`, so no two are inside;
* `DecisionIsFresh`: at `commit` the order is still admitted by the *present*
  router and the two locals are the present sums plus the order. Nothing that
  changes the router runs while another thread holds `mu`;
* `StoredWithinCaps`: no stored sum is over its cap. It alone says nothing of what
  was accepted, as a lost update would satisfy it too; `CapsHold` is about the
  accepted orders and follows from it with `ExposureAccounted`;
* `AcceptedAreSeen`: every accepted key is in `seenKeys`;
* `LeakBudget`: while a thread is past its kill-switch check, no acceptance has
  been counted against the triggered switch yet, so at most one follows.

`Inductive` proves `Spec => []IInv`, one lemma per action; each theorem is a
corollary.

`OrderBuildingProofs` proves of `NonceAllocator`, for any workers, spellings, seeds
and integer limits that satisfy `NonceAssumption`, `NonceTypeCorrect` and
`NoncesAreUnique` (`NoncesUnique`). That no nonce was signed twice does not carry over a step on
its own: the next one may be on its way already. The inductive invariant says
of an unedited table that no row is a text (`NoText`: a text would be replaced by
a seed), that what was signed and what is on its way lies below its trader's row
(`GivenBelow`, `AnswersBelow`: so a new answer is new), and that an answer on its
way was not signed before and is on its way to one worker only (`AnswersFresh`,
`AnswersApart`: so receiving it is safe).

`OfflineProofs` proves of `PaperRouter`, for any orders, caps, clusters and
compliance hook that satisfy `RiskGateAssumption` and `PaperAssumption`,
`PaperTypeCorrect`,
`PaperCapAlwaysHolds` (the paper router's cap, `PaperCapHolds`) and
`PaperLiveParity` (`Parity`). Parity needs `BreachKills`: the live router's loss
check never decides before the kill switch does, as an operator's `Trigger` or
`Reset` parts the two.
`SameVerdict` is its core: equal exposures and halts, and no check that only the
live router has, give equal verdicts. `RiskGateProofs` holds what both routers'
proofs use: the types of the sums, of a commit, and what an admitted order
passed.

`AutoPilotProofs` proves, for any signals, orders, caps, status texts of
`PostOrder`, scan limits, attempts and faults that satisfy `RiskGateAssumption`
and `AutoPilotAssumption`:

| theorem | property |
|---|---|
| `TypeCorrect` | `TypeOK` |
| `AuditTrailComplete` | `AuditTrail` |
| `RowsAreBounded` | `RowsPerReconcile` |
| `ImplementsTracking` | `TracksOrders`, the refinement of `OrderTracking!Spec` |
| `ExposureIsCovered` | `ExposureCoversExchange` |

None is inductive, as each write depends on what an earlier call left in a local.
`IInv` adds

* `LedgerAgrees`: the newest row of an order says of the exchange what is true
  there; a terminal one what became of the order, any other one that the order
  was taken;
* `ArrivedFirst`, `TaskInStep`, `TaskSaved`: where the order of the present task
  stands, at every place of the worker: not sent yet, sent and not recorded, or
  recorded as open, with its signal's row in the table since `save_signal`. A
  status on its way to the ledger agrees with the exchange as a written one does;
* `SweepIsCurrent`: the rows a scan holds in memory are still the newest ones, so
  a write after them is about an order that is open. `NewestExists`: of the newest
  rows in any set one is the newest, so there is an entry to go on with (`Newest`);
* `RowBudget`: the rows written so far against the attempts made so far.

A step is split into what it does to the tables and what to the process
(`Rejoined`), so each action's lemma is about the half it changes. A failing write
that has happened all the same goes through the same lemmas as a successful one.

`ImplementsTracking` is the step simulation: `OneMoved` says that a step which
changes one order's `Book` and `Known` by an action of `OrderTracking` is a step
of it, and each action of the worker moves one order or none. A status of an order
the worker was asking for is read off the exchange, so `Known` moves to what
`Book` says; a crash between `PostOrder` and the write of the row is a `Lose`.

`ExposureIsCovered` needs one more strengthening, `Booked`: with the order booked
and about to be sent, what is on the exchange is covered already. It is a sum over
a set of orders. `TotalNotional` folds it (`MapThenSumSet`), and `RiskGateProofs`
has what a proof needs of such a sum (`TotalOfNone`, `TotalWithOneMore`,
`TotalAgrees`), for finite sets of any size. As no induction theorem can be cited,
these lemmas take a smallest counterexample instead, whose existence is
`FS_StrictSubsetOrderingWellFounded` with `WFMin`. `ExposureIsAccounted` of
`LiveRouterProofs` rests on the same lemmas.

`MarketStreamProofs` proves, for any connections, capacities, reconnect limits,
frames and updates that satisfy `MarketStreamAssumption`: `TypeCorrect`
(`TypeOK`), `OneConnectionAtATime` (`OneConnection`), `NothingIsLost`
(`NothingLost`), `RunDrains` (`DrainedBeforeReturn`) and `OnlyTheLimitEndsStream`
(`StreamSurvives`). Its `IInv` ties the goroutine's place to the rest:
`Disconnected` (it has a connection exactly from the dial to the end of the
reading), `InHand` (updates are in the reader's hands only inside `deliver`),
`ClosedByStream` (the channels are closed exactly at its end), `Drained` (Run
gives up the channel of updates only when it is closed and empty) and `Numbered`,
which is `NothingLost` for the channel and the reader's hands apart: a serial
number at each place, which a send or a receive shifts by one.

`RankShiftProofs` proves, under `RankShiftAssumption`: `TypeCorrect`,
`CooldownKept` (`SignalsApart`), `SignalsAreReal` (`SignalIsReal`) and
`LostFlipsAreSeen` (`LostFlipsShow`). The last three are about steps. `IInv` has
what they need of the state before the step: the leader is the one of the prices
at hand (`LeaderOfPrices`), the time of the last signal is the one the cooldown is
counted from (`SinceTheSignal`), and after a signal the lead alternates with every
flip (`LeadAlternates`).

`OrderBuildingProofs` proves, under `OrderBuildingAssumption`: `BuilderTypeCorrect`,
`PricesInRange` (`PriceInRange`), `GateIsAsked` (`GateSeesTheOrder`) and
`NoncesAreAccounted` (`NoncesAccounted`), for any environment, any books and any
resolution of prices. The lemmas are arithmetic: a finite
set of prices has a greatest and a least one (`Extremes`), clamping between two
bounds (`ClampFacts`), what `chooseLimitPrice` and its fallback return
(`ChoiceFacts`), and that money and shares, each rounded, differ from the price by
the rounding only (`Quotient`, `AmountFacts`).

`RankShiftAssumption` says that a price is a natural number up to `Inf`, or one of
the marks for NaN and an unreadable payload, so that no mark is taken for a price.
`OrderBuildingAssumption` gives the environment's values and the sides of a book
their types.

`AlertingProofs` proves, for any thresholds, cooldowns, timeouts, number of
retries, time of a database call and waiting times that satisfy
`AlertingAssumption`:

| theorem | property |
|---|---|
| `AlertingTypeCorrect` | `AlertingTypeOK`, one conjunct of `TypesOK` |
| `CancellationsArePrompt` | `CancelIsPrompt` |
| `FailedAlertsDoNotSilence` | `OnlyDeliveredAlertsSilence` |
| `NotificationsAreApart` | `NotificationsNearlyApart` |

Its `IInv` is about time. `SendTime` bounds what a send has taken and may still
take by its attempts so far, each a timeout and a sleep. `Late` bounds how long
the handler has run since the cancellation by where it is: `Before(item)` is how
late it can get to an item of its queue, `Reach(item)` how late it can be through
with it. `QueueShape` says that the items of a queue come in an order in which
each is reached no earlier than the one before it is left (`Rising`; `Ways` has the
times of every item, `HandlersQueue` shows it of every queue a handler has). A
sleep does not look at the context, but only the one under way goes on, as a
request after it ends at once, and that wait is not added to a row under way:
hence `FirstWait`, the greater of the two. `Silenced` has the cooldown
of an alert start no later than its last delivery, `NotedSince` and `SentBefore`
tie the last delivery of a notification to the time its cooldown is counted from.
An alert whose send failed has no newer `lastSent`, so it is not held back.

`OfflineProofs` also proves, under `LedgerAssumption`, `LedgerTypeCorrect`,
`RecoveriesClose` (`GapsClosed`) and `ReplaysAgree` (`ReplayAgrees`). The first two
need `Closing`: what a recovery saw missing between two numbers is written or in
its `todo`. No gap is left between neighbours because `Gaps` has one for each two
numbers with none between them; that a missing number has such neighbours on
either side is the greatest and the least element of a bounded set of numbers. A
replay does not depend on arrival order because the place of an event, counted
over indices, is the same counted over the set of events (`PlaceInTheSet`,
`ReplayOfTheSet`), and no two events of a ledger have one id.

Of `AssetPicker` it proves, for any venue, flags and number of changes that
satisfy `PickerAssumption`, `PickerTypeCorrect` and `PairsAreSubscribed`
(`PairIsSubscribed`). The invariant adds that what was fetched is no longer than
the offset, and that each fetched market has tokens, those of a market of the venue
(`Readable`); the listing may change in any way. Every token that is listed is
listed first somewhere (`ListedFirst`), two first places hold different tokens
(`FirstPlacesDiffer`), and there are no more first places than selected markets
times tokens of the largest one (`RoomForTokens`), so nothing is cut off when
`RoomForAll` holds.

Every theorem rests on the assumptions of its module alone, which TLC evaluates in
the runs for their instances. What no theorem states, and only TLC checks:

* all liveness: `LearnsOutcomes`, `LoopReturns`, `PingersStop`, `Reconnects`,
  `CancelEndsStream`, `RunReturns` and `HandlersReturn` need fairness and
  `ENABLED`, which the prover does not have;
* `TypesOK` of the two combined runs as one formula: each conjunct is proved for
  its part;
* what `Backoff` computes (its sets of bits stand for sums of powers of two), and
  so `RedialsAreSpaced`, which the code violates;
* what a recursive definition would compute: sums and sorted sequences are stated
  by folds and by what is true of the result instead.

## 5. Plan

What is left, in order of importance for trading correctly:

1. Two workers with one ledger of orders.
2. For `Backoff`, that delays up to attempt 35 grow to the cap, against a
   reference definition.
3. The public REST clients and the news and rules packages, once a program of the
   repository uses them for trading.

## 6. Not modelled

* Rendering of texts and HTML, request signing, HTTP and JSON decoding,
  environment parsing: pure conversions, which appear by their outcomes only.
* Floating point. Caps and prices are compared, not rounded. So it is not covered
  that `EXEC_NOTIONAL=NaN` passes every comparison of the risk gate when orders
  come from the template, nor the last digit of `computeAmounts`.
* Telemetry counters, the ring of recent anomalies and the API server: they are
  read by people and decide nothing.
* News, linking, features and signal rules: short sequential functions that no
  program of the repository composes.
* The public REST clients: requests without state.
* `RunBacktest`, the permutation test and the Benjamini-Hochberg procedure:
  floating-point statistics without state.
* The tables `raw_events` and `notifications`: written and never read.

Components without a module are listed in `PROJECT.json` with the reason.
