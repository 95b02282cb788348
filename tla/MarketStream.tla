---------------------------- MODULE MarketStream ----------------------------
(***************************************************************************)
(* The market data path of the worker: WSMarketClient.Stream               *)
(* (internal/connectors/polymarket/ws_market_client.go) and the select     *)
(* loop of AutoPilot.Run that it feeds (internal/runtime/autopilot.go).    *)
(*                                                                         *)
(* Stream is one goroutine that dials, subscribes, reads and, on any       *)
(* failure, waits and dials again; each connection has a ping goroutine.   *)
(* Two buffered channels lead to Run: updates, to which a send blocks, and *)
(* errs, to which it does not.  Run is another goroutine, which may be     *)
(* busy with one update for long (its orders are reconciled inside).       *)
(*                                                                         *)
(* An update is its serial number and the time at which it was read.       *)
(***************************************************************************)
EXTENDS Backoff, Sequences

CONSTANTS
  Conns,          \* connection identities, reused when nothing refers to them
  None,           \* no connection
  UpdatesCap,     \* capacity of the channel updates (64)
  ErrsCap,        \* capacity of the channel errs (16)
  Limits,         \* values of WSReconnectPolicy.MaxAttempts; <= 0 is no limit
  StaleCutoff,    \* LiveConfig.StaleCutoff, in ticks
  AttemptBound,   \* bound: the attempt counter stays there
  UpdateBound,    \* bound: updates the server sends in all
  FrameSizes,     \* bound: how many updates one frame may carry
  ClockBound      \* bound: ticks of the clock

ASSUME MarketStreamAssumption ==
  /\ None \notin Conns
  /\ UpdatesCap \in Nat \ {0} /\ ErrsCap \in Nat \ {0}
  /\ Limits \subseteq Int /\ StaleCutoff \in Int
  /\ AttemptBound \in Nat /\ \A limit \in Limits : limit <= AttemptBound
  /\ UpdateBound \in Nat /\ ClockBound \in Nat
  /\ FrameSizes \subseteq Nat

VARIABLES
  \* the goroutine of Stream
  pc,          \* where it is
  cause,       \* the failure it waits after
  attempt,     \* reconnects since the last successful subscription
  conn,        \* its connection, or None
  batch,       \* decoded updates not yet sent to the channel
  maxAttempts, \* its reconnect policy, which never changes
  \* connections and their ping goroutines
  open,        \* connections the client has not closed
  pingers,     \* connections with a live pingLoop
  pingDone,    \* connections whose pingDone channel is closed
  \* what the goroutines share
  updates, errs, closed, cancelled,
  \* the goroutine of Run
  runner,      \* "select", "busy", "reconcile" or "returned"
  current,     \* the update it is busy with
  updatesNil, errsNil,   \* its local channel variables are nil
  \* the world
  clock,
  received,    \* updates read from connections so far
  handled,     \* updates Run has taken so far
  oldestOrder  \* the greatest age of an update an order was sent for

client  == <<pc, cause, attempt, conn, batch>>
sockets == <<open, pingers, pingDone>>
shared  == <<updates, errs, closed, cancelled>>
run     == <<runner, current, updatesNil, errsNil, handled, oldestOrder>>
world   == <<clock, received, maxAttempts>>
vars    == <<client, sockets, shared, run, world>>

NoUpdate == [serial |-> 0, at |-> 0]

Init ==
  /\ pc = "top" /\ cause = "none" /\ attempt = 0 /\ conn = None /\ batch = <<>>
  /\ maxAttempts \in Limits
  /\ open = {} /\ pingers = {} /\ pingDone = {}
  /\ updates = <<>> /\ errs = <<>> /\ closed = FALSE /\ cancelled = FALSE
  /\ runner = "select" /\ current = NoUpdate /\ updatesNil = FALSE /\ errsNil = FALSE
  /\ clock = 0 /\ received = 0 /\ handled = 0 /\ oldestOrder = 0

At(place) == pc = place
GoTo(place) == pc' = place

(* The goroutine returns: its deferred calls close both channels.  Run     *)
(* receives from each alone, so closing them in one step shows it no less. *)
Finish ==
  /\ GoTo("done")
  /\ closed' = TRUE

(* Mutant: a full channel ends the stream. *)
EmitErrOrStop(error, next) ==
  \/ /\ cancelled \/ Len(errs) = ErrsCap
     /\ Finish
     /\ UNCHANGED errs
  \/ /\ Len(errs) < ErrsCap
     /\ errs' = Append(errs, error)
     /\ GoTo(next)
     /\ UNCHANGED closed

(* emitErr, then `next': without room the error is dropped; with the       *)
(* context cancelled Stream may return instead.                            *)
EmitErr(error, next) ==
  \/ /\ cancelled
     /\ Finish
     /\ UNCHANGED errs
  \/ /\ Len(errs) < ErrsCap
     /\ errs' = Append(errs, error)
     /\ GoTo(next)
     /\ UNCHANGED closed
  \/ /\ Len(errs) = ErrsCap
     /\ ~cancelled
     /\ GoTo(next)
     /\ UNCHANGED <<errs, closed>>

(* Mutant: the error is queued whether or not there is room. *)
TryEmitErrUnbounded(error) == errs' = Append(errs, error)

(* emitErr where its result is ignored. *)
TryEmitErr(error) ==
  \/ Len(errs) < ErrsCap /\ errs' = Append(errs, error)
  \/ (cancelled \/ Len(errs) = ErrsCap) /\ UNCHANGED errs

CloseConn ==
  /\ open' = open \ {conn}
  /\ conn' = None

-----------------------------------------------------------------------------
(* The head of the loop. *)
LoopTop ==
  /\ At("top")
  /\ IF cancelled THEN Finish ELSE GoTo("dial") /\ UNCHANGED closed
  /\ UNCHANGED <<cause, attempt, conn, batch, sockets, updates, errs, cancelled, run, world>>

Dial ==
  /\ At("dial")
  /\ \E c \in Conns \ (open \cup pingers) :
       /\ conn' = c
       /\ open' = open \cup {c}
       /\ pingDone' = pingDone \ {c}
  /\ GoTo("subscribe")
  /\ UNCHANGED <<cause, attempt, batch, pingers, shared, run, world>>

DialFails ==
  /\ At("dial")
  /\ EmitErr("dial", "wait")
  /\ cause' = "dial"
  /\ UNCHANGED <<attempt, conn, batch, sockets, updates, cancelled, run, world>>

Subscribe ==
  /\ At("subscribe")
  /\ attempt' = 0
  /\ pingers' = pingers \cup {conn}
  /\ GoTo("read_top")
  /\ UNCHANGED <<cause, conn, batch, open, pingDone, shared, run, world>>

SubscribeFails ==
  /\ At("subscribe")
  /\ CloseConn
  /\ EmitErr("subscribe", "wait")
  /\ cause' = "subscribe"
  /\ UNCHANGED <<attempt, batch, pingers, pingDone, updates, cancelled, run, world>>

(* Mutants: the connection is left open; pingDone is left open. *)
LeaveReadOpen ==
  /\ pingDone' = pingDone \cup {conn}
  /\ conn' = None
  /\ UNCHANGED open

LeaveReadPinging ==
  /\ CloseConn
  /\ UNCHANGED pingDone

(* readLoop closes pingDone and returns; Stream closes the connection. *)
LeaveRead ==
  /\ pingDone' = pingDone \cup {conn}
  /\ CloseConn

ReadTop ==
  /\ At("read_top")
  /\ ~cancelled
  /\ GoTo("read")
  /\ UNCHANGED <<cause, attempt, conn, batch, sockets, shared, run, world>>

(* ReadMessage returns a frame: one that carries nothing for the worker,   *)
(* one that does not decode, or updates.                                   *)
ReadIgnored ==
  /\ At("read")
  /\ GoTo("read_top")
  /\ UNCHANGED <<cause, attempt, conn, batch, sockets, shared, run, world>>

ReadUndecodable ==
  /\ At("read")
  /\ GoTo("read_top")
  /\ TryEmitErr("decode")
  /\ UNCHANGED <<cause, attempt, conn, batch, sockets, updates, closed, cancelled, run, world>>

ReadUpdates(n) ==
  /\ At("read")
  /\ received + n <= UpdateBound
  /\ batch' = [i \in 1 .. n |-> [serial |-> received + i, at |-> clock]]
  /\ received' = received + n
  /\ GoTo("deliver")
  /\ UNCHANGED <<cause, attempt, conn, sockets, shared, run, clock, maxAttempts>>

(* ReadMessage returns an error. *)
ReadFails ==
  /\ At("read")
  /\ ~cancelled
  /\ LeaveRead
  /\ EmitErr("read", "wait")
  /\ cause' = "read"
  /\ UNCHANGED <<attempt, batch, pingers, updates, cancelled, run, world>>

(* Mutant: a send that drops the update when the channel is full. *)
DeliverOrDrop ==
  /\ At("deliver")
  /\ batch # <<>>
  /\ updates' = IF Len(updates) < UpdatesCap THEN Append(updates, Head(batch)) ELSE updates
  /\ batch' = Tail(batch)
  /\ UNCHANGED <<pc, cause, attempt, conn, sockets, errs, closed, cancelled, run, world>>

Deliver ==
  /\ At("deliver")
  /\ batch # <<>>
  /\ Len(updates) < UpdatesCap
  /\ updates' = Append(updates, Head(batch))
  /\ batch' = Tail(batch)
  /\ UNCHANGED <<pc, cause, attempt, conn, sockets, errs, closed, cancelled, run, world>>

Delivered ==
  /\ At("deliver")
  /\ batch = <<>>
  /\ GoTo("read_top")
  /\ UNCHANGED <<cause, attempt, conn, batch, sockets, shared, run, world>>

(* readLoop notices the cancelled context and returns nil, whereupon       *)
(* Stream returns: before ReadMessage, in a send that may have no room ... *)
LeaveCancelled ==
  /\ cancelled
  /\ LeaveRead
  /\ Finish
  /\ batch' = <<>>
  /\ UNCHANGED <<cause, attempt, pingers, updates, errs, cancelled, run, world>>

ReadTopCancelled == At("read_top") /\ LeaveCancelled

(* Mutant: the context is looked at before a send that then blocks. *)
DeliverCancelledWithRoom ==
  At("deliver") /\ batch # <<>> /\ Len(updates) < UpdatesCap /\ LeaveCancelled

DeliverCancelled == At("deliver") /\ batch # <<>> /\ LeaveCancelled

(* ... and after ReadMessage, which the context does not interrupt, has    *)
(* returned an error.                                                      *)
ReadFailsCancelled == At("read") /\ LeaveCancelled

(* Mutants: the limit applies when it is 0, or one dial early. *)
WaitElapsesLimit(limited) ==
  /\ At("wait")
  /\ attempt' = Min({attempt + 1, AttemptBound})
  /\ IF cause = "dial" /\ limited
       THEN TryEmitErr("exceeded") /\ Finish
       ELSE GoTo("top") /\ UNCHANGED <<errs, closed>>
  /\ cause' = "none"
  /\ UNCHANGED <<conn, batch, sockets, updates, cancelled, run, world>>

WaitElapsesZeroIsLimit == WaitElapsesLimit(attempt + 1 >= maxAttempts)

WaitElapsesEarly == WaitElapsesLimit(maxAttempts > 0 /\ attempt + 2 >= maxAttempts)

(* sleepBackoff: the timer of NextBackoff(attempt) fires, or the context   *)
(* is done.  Only failed dials are counted against maxAttempts.            *)
WaitElapses ==
  /\ At("wait")
  /\ attempt' = Min({attempt + 1, AttemptBound})
  /\ IF cause = "dial" /\ maxAttempts > 0 /\ attempt + 1 >= maxAttempts
       THEN TryEmitErr("exceeded") /\ Finish
       ELSE GoTo("top") /\ UNCHANGED <<errs, closed>>
  /\ cause' = "none"
  /\ UNCHANGED <<conn, batch, sockets, updates, cancelled, run, world>>

WaitCancelled ==
  /\ At("wait")
  /\ cancelled
  /\ Finish
  /\ UNCHANGED <<cause, attempt, conn, batch, sockets, updates, errs, cancelled, run, world>>

(* pingLoop ends when it sees pingDone or the context. *)
PingerStops(c) ==
  /\ c \in pingers
  /\ c \in pingDone \/ cancelled
  /\ pingers' = pingers \ {c}
  /\ UNCHANGED <<client, open, pingDone, shared, run, world>>

-----------------------------------------------------------------------------
(* AutoPilot.Run: one case of its select per action. *)
Selecting == runner = "select" /\ ~(updatesNil /\ errsNil)

(* The dataAge that executeSignal passes to LiveRouter.Submit. *)
DataAge(update) == 0

RunUpdate ==
  /\ Selecting /\ ~updatesNil
  /\ updates # <<>>
  /\ updates' = Tail(updates)
  /\ current' = Head(updates)
  /\ handled' = Head(updates).serial
  /\ runner' = "busy"
  /\ UNCHANGED <<client, sockets, errs, closed, cancelled, updatesNil, errsNil,
                 oldestOrder, world>>

(* The update leads to an order that passes the stale-data check. *)
RunExecutes ==
  /\ runner = "busy"
  /\ ~(StaleCutoff > 0 /\ DataAge(current) > StaleCutoff)
  /\ oldestOrder' = Max({oldestOrder, clock - current.at})
  /\ runner' = "reconcile"
  /\ UNCHANGED <<client, sockets, shared, current, updatesNil, errsNil, handled, world>>

(* handleUpdate returns, with or without an order to reconcile. *)
RunHandled ==
  /\ runner \in {"busy", "reconcile"}
  /\ runner' = "select"
  /\ current' = NoUpdate
  /\ UNCHANGED <<client, sockets, shared, updatesNil, errsNil, handled, oldestOrder, world>>

RunError ==
  /\ Selecting /\ ~errsNil
  /\ errs # <<>>
  /\ errs' = Tail(errs)
  /\ UNCHANGED <<client, sockets, updates, closed, cancelled, run, world>>

(* A closed and empty channel is received from once and set to nil. *)
RunUpdatesClosed ==
  /\ Selecting /\ ~updatesNil
  /\ closed /\ updates = <<>>
  /\ updatesNil' = TRUE
  /\ UNCHANGED <<client, sockets, shared, runner, current, errsNil, handled, oldestOrder, world>>

(* Mutant: a closed errs stays in the select. *)
RunErrsKept ==
  /\ Selecting /\ ~errsNil
  /\ closed /\ errs = <<>>
  /\ UNCHANGED vars

RunErrsClosed ==
  /\ Selecting /\ ~errsNil
  /\ closed /\ errs = <<>>
  /\ errsNil' = TRUE
  /\ UNCHANGED <<client, sockets, shared, runner, current, updatesNil, handled, oldestOrder, world>>

(* Mutant: the loop condition with && for ||. *)
RunEndsOnEither ==
  /\ runner = "select"
  /\ updatesNil \/ errsNil \/ cancelled
  /\ runner' = "returned"
  /\ UNCHANGED <<client, sockets, shared, current, updatesNil, errsNil, handled, oldestOrder, world>>

RunEnds ==
  /\ runner = "select"
  /\ (updatesNil /\ errsNil) \/ cancelled
  /\ runner' = "returned"
  /\ UNCHANGED <<client, sockets, shared, current, updatesNil, errsNil, handled, oldestOrder, world>>

Cancel ==
  /\ ~cancelled
  /\ cancelled' = TRUE
  /\ UNCHANGED <<client, sockets, updates, errs, closed, run, world>>

Tick ==
  /\ clock < ClockBound
  /\ clock' = clock + 1
  /\ UNCHANGED <<client, sockets, shared, run, received, maxAttempts>>

(* What the goroutine of Stream does without waiting for the server. *)
StreamStep ==
  \/ LoopTop \/ Dial \/ DialFails \/ Subscribe \/ SubscribeFails
  \/ ReadTop \/ ReadTopCancelled \/ Deliver \/ DeliverCancelled \/ Delivered
  \/ WaitElapses \/ WaitCancelled

Read ==
  \/ ReadIgnored \/ ReadUndecodable \/ ReadFails \/ ReadFailsCancelled
  \/ \E n \in FrameSizes : ReadUpdates(n)

RunStep ==
  \/ RunUpdate \/ RunExecutes \/ RunHandled \/ RunError
  \/ RunUpdatesClosed \/ RunErrsClosed \/ RunEnds

Next ==
  \/ StreamStep \/ Read \/ RunStep
  \/ \E c \in Conns : PingerStops(c)
  \/ Cancel \/ Tick

Spec == Init /\ [][Next]_vars

(* Goroutines keep running, timers fire, dials and handlers return; a      *)
(* ready ctx.Done is chosen by Run's select sooner or later.               *)
Fairness ==
  /\ WF_vars(StreamStep)
  /\ WF_vars(RunStep) /\ SF_vars(RunEnds)
  /\ \A c \in Conns : WF_vars(PingerStops(c))

(* The server can be reached, and takes a subscription, again and again.   *)
Reachable == SF_vars(Dial) /\ SF_vars(Subscribe)

FairSpec == Spec /\ Fairness /\ Reachable

-----------------------------------------------------------------------------
(* Type correctness of every variable. *)
TypeOK ==
  /\ pc \in {"top", "dial", "subscribe", "read_top", "read", "deliver", "wait", "done"}
  /\ cause \in {"none", "dial", "subscribe", "read"}
  /\ attempt \in 0 .. AttemptBound
  /\ conn \in Conns \cup {None}
  /\ open \subseteq Conns /\ pingers \subseteq Conns /\ pingDone \subseteq Conns
  /\ \A queue \in {updates, batch} :
       \A i \in DOMAIN queue : queue[i] \in [serial : 1 .. UpdateBound, at : 0 .. ClockBound]
  /\ Len(updates) <= UpdatesCap
  /\ errs \in Seq({"dial", "subscribe", "read", "decode", "exceeded"}) /\ Len(errs) <= ErrsCap
  /\ {closed, cancelled, updatesNil, errsNil} \subseteq BOOLEAN
  /\ runner \in {"select", "busy", "reconcile", "returned"}
  /\ current \in [serial : 0 .. UpdateBound, at : 0 .. ClockBound]
  /\ clock \in 0 .. ClockBound /\ oldestOrder \in 0 .. ClockBound
  /\ received \in 0 .. UpdateBound /\ handled \in 0 .. UpdateBound

(* Every connection but the current one has been closed, on each of the    *)
(* ways out of a connection (lines 88-122, 134-167).                       *)
OneConnection == open \subseteq {conn}

(* What was read is handled in order, without gap or repetition, however   *)
(* often the client reconnects and however slow Run is: a full channel     *)
(* holds the reader up and drops nothing (lines 161-168).                  *)
NothingLost ==
  LET waiting == updates \o batch
  IN  ~cancelled =>
        /\ \A i \in DOMAIN waiting : waiting[i].serial = handled + i
        /\ received = handled + Len(waiting)

(* Run does not return from a stream that has ended before it has handled  *)
(* everything the channel still held (autopilot.go, lines 142-172).        *)
DrainedBeforeReturn ==
  runner = "returned" /\ ~cancelled => handled = received

(* Nothing but the configured number of failures in a row ends the stream: *)
(* no full errs channel, no failed subscription after a good one, and no   *)
(* failure at all when maxAttempts is 0 (lines 73-122, 327-336).           *)
StreamSurvives ==
  closed /\ ~cancelled => 0 < maxAttempts /\ attempt >= maxAttempts

(* The ping goroutine of a connection that was given up ends: pingDone is  *)
(* closed on every way out of readLoop (lines 128-186).                    *)
PingersStop ==
  \A c \in Conns : c \in pingers /\ c # conn ~> c \notin pingers

(* Without a limit on the attempts, the client reads again after every     *)
(* failure, if the server lets it: no wait, no full channel and no leaked  *)
(* connection stands in the way (lines 66-122).                            *)
Reconnects == At("wait") ~> At("read") \/ cancelled \/ maxAttempts > 0

(* A cancelled context ends the stream wherever it is, except in           *)
(* ReadMessage of a server that is silent (line 140); in particular a send *)
(* to a channel that Run no longer empties does not hold it (161-168).     *)
CancelEndsStream == <>cancelled => <>[](closed \/ At("read"))

(* Run returns when the stream has given up, and when the context is       *)
(* cancelled even though the reader hangs in ReadMessage (autopilot.go,    *)
(* lines 142-172).                                                         *)
RunReturns == closed \/ cancelled ~> runner = "returned"

(* Runbook restart-425, line 10: "exponential backoff with cap (base       *)
(* 250ms, max 5s)".  Whatever came before, a redial waits for the base.    *)
RedialsAreSpaced == At("wait") => ~Less(NextBackoff(attempt), BaseDelay)

(* Plan v3, line 257, "stale-data cutoff" as a mandatory control: no order *)
(* is sent for an update that has waited longer than the cutoff.           *)
StaleNeverExecuted == StaleCutoff > 0 => oldestOrder <= StaleCutoff
=============================================================================
