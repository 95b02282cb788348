------------------------------ MODULE Alerting ------------------------------
(***************************************************************************)
(* What the worker sends to Telegram: OpsAlertManager.Emit (telemetry.go), *)
(* AutoPilot.notify (autopilot.go), severities (anomaly.go) and            *)
(* TelegramNotifier.Send with its retries (notify/telegram.go).  All of it *)
(* runs inside the worker's one event loop: while Send waits, nothing else *)
(* of the worker runs.  The handler of an update is the list of what it    *)
(* waits for: its sends, its database calls and the order builder's fetch  *)
(* of the book, up to the row of the order.  What follows that row (the    *)
(* order_blocked and order_failed alerts, the reconciliation with its      *)
(* alerts and rows, and the notice of the order's status with its row)     *)
(* goes the same way and is left out.                                      *)
(* A stored time is kept as its age: the code only subtracts times, so     *)
(* ages beyond every cooldown need not be told apart.                      *)
(***************************************************************************)
EXTENDS Integers, Sequences, FiniteSetsExt

CONSTANTS
  Spreads,            \* as readSignalSpread reads them: 0 if not finite
  Confidences,        \* of signals; a negative one stands for NaN
  MediumSetting, HighSetting,   \* ANOMALY_SEVERITY_MEDIUM and _HIGH
  DefaultHigh, HighMargin,  \* 0.15 and 0.01
  MinSeverity,        \* ANOMALY_ALERT_MIN_SEVERITY
  AlertCooldown, NotifyCooldown,
  MaxRetries,
  Timeout,            \* of the HTTP client
  RetryAfter,         \* seconds Telegram asks for at most with status 429
  BookTimeout,        \* POLY_DYNAMIC_PRICE_TIMEOUT_MS
  QueryTime,          \* assumed: a database call is over after that time
  MaxSignals          \* bound: signals

No == -1

(* NewAutoPilot: the high threshold is above the medium one. *)
HighThreshold ==
  IF HighSetting > MediumSetting THEN HighSetting
  ELSE IF DefaultHigh > MediumSetting THEN DefaultHigh ELSE MediumSetting + HighMargin

Severities == {"low", "medium", "high"}
Rank == [low |-> 1, medium |-> 2, high |-> 3]

ASSUME AlertingAssumption ==
  /\ MinSeverity \in Severities
  /\ {AlertCooldown, NotifyCooldown, MaxRetries, Timeout, RetryAfter, BookTimeout, QueryTime,
      MaxSignals} \subseteq Nat

(* classifySignalAnomaly scores a signal by its spread if that is a finite *)
(* positive number, else by its confidence.                                *)
Severity(spread, confidence) ==
  LET score == IF spread > 0 THEN spread ELSE confidence
  IN  IF score >= HighThreshold THEN "high"
      ELSE IF score >= MediumSetting THEN "medium" ELSE "low"

VARIABLES
  cancelled,          \* how long a handler has run with its context
                      \* cancelled, or No
  sender,             \* "idle", "next" item, "work" (or the row of a
                      \* notification), "post" in flight, "sleep"
  queue,              \* what the handler still waits for
  started, attempt,   \* of the send under way: its age and its attempts
  timer,              \* what is left of the work, the request or the sleep
  lastSent, lastSignalNotify,    \* the two cooldown maps
  delivered,          \* history: how long ago the chat got each text, that
                      \* is, one of the rate key of an alert
  signals             \* history: how many signals there were

sending == <<started, attempt, timer>>
alertingVars ==
  <<cancelled, sender, queue, sending, lastSent, lastSignalNotify, signals, delivered>>

Alert(key) == [kind |-> "alert", key |-> key]
Signal(severity) == [kind |-> "notify", key |-> severity]
Work(what) == [kind |-> "work", key |-> what]

(* Store.Write, SaveSignal, the builder's GetOrderBook and NextNonce, the  *)
(* order's gate and post, and SaveOrder.  The row that notify writes after *)
(* its send, SaveNotification, belongs to the item of the notification.    *)
WriteRaw == Work("raw")
SaveSignal == Work("signal")
Book == Work("book")
Nonce == Work("nonce")
Order == [kind |-> "order", key |-> "post"]
SaveOrder == Work("order")
Works == {WriteRaw, SaveSignal, Book, Nonce, SaveOrder}
WorkTime(item) == IF item = Book THEN BookTimeout ELSE QueryTime

StreamAlert == Alert("market_stream_error")
PricingAlert == Alert("dynamic_pricing_fallback")
Alerts == {StreamAlert, PricingAlert} \cup {Alert(s) : s \in Severities}
Texts == Alerts \cup {Signal(s) : s \in Severities}
Items == Texts \cup Works \cup {Order}

MaxDelay == Max({RetryAfter, MaxRetries})
MaxSend == (MaxRetries + 1) * Timeout + MaxRetries * MaxDelay

(* What of a handler does not look at the context: one wait that was under *)
(* way, a sleep or the first row, and then the book, the four other        *)
(* database calls and the fallback alert.                                  *)
Promptly == Max({MaxDelay, QueryTime}) + BookTimeout + 4 * QueryTime + MaxSend

(* The age of what never happened and of what no cooldown remembers.       *)
Forgotten == Max({AlertCooldown, NotifyCooldown, MaxSend + 1})

Older(age) == IF age < Forgotten THEN age + 1 ELSE age
Later(time) == IF time <= Promptly THEN time + 1 ELSE time

AlertingInit ==
  /\ cancelled = No
  /\ sender = "idle" /\ queue = <<>>
  /\ started = 0 /\ attempt = 0 /\ timer = 0
  /\ lastSent = [a \in Alerts |-> Forgotten]
  /\ lastSignalNotify = [s \in Severities |-> Forgotten]
  /\ signals = 0
  /\ delivered = [t \in Texts |-> Forgotten]

(* Run receives a stream error. *)
StreamError ==
  /\ sender = "idle" /\ cancelled = No
  /\ sender' = "next" /\ queue' = <<StreamAlert>>
  /\ UNCHANGED <<cancelled, sending, lastSent, lastSignalNotify, signals, delivered>>

When(needed, item) == IF needed THEN <<item>> ELSE <<>>

(* handleUpdate with a signal: the update is stored, the signal alerted if *)
(* it is severe enough, stored and notified.  With AutoExecute its order   *)
(* is priced from the book or, after an alert, from POLY_ORDER_PRICE, gets *)
(* a nonce unless the request is a template, and is posted.  An error on   *)
(* the way ends Run and with it the process.                               *)
Handler(severity, severe, execute, book, nonce, fallback) ==
  <<WriteRaw>> \o When(severe, Alert(severity)) \o <<SaveSignal>> \o <<Signal(severity)>>
    \o When(book, Book) \o When(nonce, Nonce) \o When(fallback, PricingAlert)
    \o When(execute, Order) \o When(execute, SaveOrder)

(* The select of Run may still take an update after the cancellation.      *)
HandleSignal(spread, confidence) ==
  LET severity == Severity(spread, confidence)
      severe == Rank[severity] >= Rank[MinSeverity]
  IN  /\ sender = "idle" /\ signals < MaxSignals
      /\ signals' = signals + 1
      /\ sender' = "next"
      /\ \E execute, book, nonce, fallback \in BOOLEAN :
           /\ fallback => book
           /\ book \/ nonce => execute
           /\ queue' = Handler(severity, severe, execute, book, nonce, fallback)
      /\ cancelled' = IF cancelled = No THEN No ELSE 0
      /\ UNCHANGED <<sending, lastSent, lastSignalNotify, delivered>>

(* Mutant: notifications have no cooldown. *)
SuppressedAlertsOnly(text) == text.kind = "alert" /\ lastSent[text] < AlertCooldown

Suppressed(text) ==
  IF text.kind = "alert" THEN lastSent[text] < AlertCooldown
  ELSE lastSignalNotify[text.key] < NotifyCooldown

Advance == IF Len(queue) = 1 THEN "idle" ELSE "next"

Suppress ==
  /\ sender = "next" /\ Head(queue) \in Texts /\ Suppressed(Head(queue))
  /\ sender' = Advance /\ queue' = Tail(queue)
  /\ UNCHANGED <<cancelled, sending, lastSent, lastSignalNotify, signals, delivered>>

(* Emit notes the time and sends; shouldSuppressSignalNotify stores it.    *)
Begin ==
  /\ sender = "next" /\ Head(queue) \in Texts /\ ~Suppressed(Head(queue))
  /\ started' = 0 /\ attempt' = 0 /\ timer' = Timeout
  /\ sender' = "post"
  /\ lastSignalNotify' = IF Head(queue).kind = "notify"
                         THEN [lastSignalNotify EXCEPT ![Head(queue).key] = 0]
                         ELSE lastSignalNotify
  /\ UNCHANGED <<cancelled, queue, lastSent, signals, delivered>>

(* Mutant: the cooldown starts with a failed send as well. *)
StoredAlways(text, answered) ==
  IF text.kind = "alert" THEN [lastSent EXCEPT ![text] = started] ELSE lastSent

(* Emit stores the time it noted only after Send has returned no error.    *)
Stored(text, answered) ==
  IF text.kind = "alert" /\ answered THEN [lastSent EXCEPT ![text] = started] ELSE lastSent

(* Mutant: Send starts over with its attempts. *)
WakeAfresh ==
  /\ sender = "sleep" /\ timer = 0
  /\ sender' = "post" /\ attempt' = 0
  /\ timer' = Timeout
  /\ UNCHANGED <<cancelled, queue, started, lastSent, lastSignalNotify, signals, delivered>>

(* Send returns, and notify stores what became of it.                      *)
Return(answered) ==
  /\ lastSent' = Stored(Head(queue), answered)
  /\ IF Head(queue).kind = "notify"
       THEN sender' = "work" /\ timer' = WorkTime(Head(queue)) /\ queue' = queue
       ELSE sender' = Advance /\ timer' = 0 /\ queue' = Tail(queue)
  /\ started' = 0 /\ attempt' = 0
  /\ UNCHANGED <<cancelled, lastSignalNotify, signals>>

(* Mutant: no send looks at the context. *)
CancelledNever == FALSE

(* A send looks at the context, but for the fallback alert of the order    *)
(* builder, which gets a context of its own.                               *)
Cancelled == cancelled # No /\ Head(queue) # PricingAlert

(* The chat has the text; the answer arrives, is lost or is unreadable.    *)
Delivers(answered) ==
  /\ sender = "post" /\ ~Cancelled
  /\ delivered' = [delivered EXCEPT ![Head(queue)] = 0]
  /\ Return(answered)

(* A status below 500 other than 429, no connection, or a cancelled        *)
(* context: Send gives up.                                                 *)
Refused ==
  /\ sender = "post"
  /\ Return(FALSE)
  /\ UNCHANGED delivered

(* Mutant: the last attempt is retried as well. *)
MayRetryAgain == attempt <= MaxRetries

MayRetry == attempt < MaxRetries

(* Status 429, or at least 500, when the chat may have the text all the    *)
(* same: Send sleeps, whatever the context says.                           *)
Busy ==
  /\ sender = "post" /\ ~Cancelled
  /\ \/ timer' \in 0..RetryAfter /\ UNCHANGED delivered
     \/ /\ timer' = attempt + 1
        /\ delivered' \in {delivered, [delivered EXCEPT ![Head(queue)] = 0]}
  /\ MayRetry
  /\ sender' = "sleep"
  /\ UNCHANGED <<cancelled, queue, started, attempt, lastSent, lastSignalNotify, signals>>

(* The last attempt is not followed by a sleep. *)
StillBusy ==
  /\ sender = "post" /\ ~Cancelled /\ ~MayRetry
  /\ delivered' \in {delivered, [delivered EXCEPT ![Head(queue)] = 0]}
  /\ Return(FALSE)

Wake ==
  /\ sender = "sleep" /\ timer = 0
  /\ sender' = "post" /\ attempt' = attempt + 1
  /\ timer' = Timeout
  /\ UNCHANGED <<cancelled, queue, started, lastSent, lastSignalNotify, signals, delivered>>

(* A database call takes no context, and the book is fetched under one of  *)
(* its own with a timeout: the cancellation ends neither.                  *)
BeginWork ==
  /\ sender = "next" /\ Head(queue) \in Works
  /\ sender' = "work" /\ timer' = WorkTime(Head(queue))
  /\ UNCHANGED <<cancelled, queue, started, attempt, lastSent, lastSignalNotify, signals, delivered>>

EndWork ==
  /\ sender = "work"
  /\ sender' = Advance /\ queue' = Tail(queue) /\ timer' = 0
  /\ UNCHANGED <<cancelled, started, attempt, lastSent, lastSignalNotify, signals, delivered>>

(* The gate refuses the order, or its post ends: with an answer, without   *)
(* one, or at once because the context is cancelled.                       *)
PostOrder ==
  /\ sender = "next" /\ Head(queue) = Order
  /\ sender' = Advance /\ queue' = Tail(queue)
  /\ UNCHANGED <<cancelled, sending, lastSent, lastSignalNotify, signals, delivered>>

(* Time passes: between two handlers, while an order is posted, in a work  *)
(* or a request up to its timeout, in a sleep up to its end.               *)
TimePasses ==
  /\ \/ /\ sender = "idle" \/ (sender = "next" /\ Head(queue) = Order /\ cancelled = No)
        /\ UNCHANGED <<started, timer>>
     \/ /\ sender \in {"work", "sleep"} \/ (sender = "post" /\ ~Cancelled)
        /\ timer > 0 /\ timer' = timer - 1
        /\ started' = IF sender = "work" THEN started ELSE Older(started)
  /\ lastSent' = [a \in Alerts |-> Older(lastSent[a])]
  /\ lastSignalNotify' = [s \in Severities |-> Older(lastSignalNotify[s])]
  /\ delivered' = [t \in Texts |-> Older(delivered[t])]
  /\ cancelled' = IF cancelled = No \/ sender = "idle" THEN cancelled ELSE Later(cancelled)
  /\ UNCHANGED <<sender, queue, attempt, signals>>

Cancel ==
  /\ cancelled = No
  /\ cancelled' = 0
  /\ UNCHANGED <<sender, queue, sending, lastSent, lastSignalNotify, signals, delivered>>

Step == Suppress \/ Begin \/ Delivers(TRUE) \/ Delivers(FALSE) \/ Refused \/ Busy
          \/ StillBusy \/ Wake \/ BeginWork \/ EndWork \/ PostOrder

AlertingNext ==
  \/ StreamError \/ Step \/ TimePasses \/ Cancel
  \/ \E s \in Spreads, c \in Confidences : HandleSignal(s, c)

(* Time passes, the loop runs on, and a work, a request and a sleep end.   *)
AlertingSpec ==
  /\ AlertingInit /\ [][AlertingNext]_alertingVars
  /\ WF_alertingVars(Step) /\ WF_alertingVars(TimePasses /\ sender # "idle")

-----------------------------------------------------------------------------
(* Every variable has its type; a send makes at most MaxRetries + 1        *)
(* requests and lasts no longer than MaxSend.                              *)
AlertingTypeOK ==
  /\ cancelled \in {No} \cup 0..(Promptly + 1)
  /\ sender \in {"idle", "next", "work", "post", "sleep"} /\ (sender = "idle" <=> queue = <<>>)
  /\ queue \in Seq(Items)
  /\ started \in 0..MaxSend /\ attempt \in 0..MaxRetries /\ timer \in Nat
  /\ lastSent \in [Alerts -> 0..Forgotten]
  /\ lastSignalNotify \in [Severities -> 0..Forgotten]
  /\ delivered \in [Texts -> 0..Forgotten]
  /\ signals \in 0..MaxSignals

(* Two deliveries of a notification are apart by the cooldown less the     *)
(* time one send can take, for the cooldown runs from the start of a send  *)
(* and not from its delivery; only the retries of one send repeat it.      *)
NotificationsNearlyApart ==
  [][\A s \in Severities : delivered'[Signal(s)] < delivered[Signal(s)]
       => \/ delivered[Signal(s)] >= NotifyCooldown - MaxSend
          \/ attempt > 0 /\ delivered[Signal(s)] <= started]_alertingVars

(* An alert is held back only when one of its rate key reached the chat    *)
(* within the cooldown, whatever that one said: a send that failed never   *)
(* silences the next one.                                                  *)
OnlyDeliveredAlertsSilence ==
  [][Suppress /\ Head(queue).kind = "alert" => delivered[Head(queue)] < AlertCooldown]_alertingVars

(* Once the context is cancelled, the handler of an update or of a stream  *)
(* error runs, up to the row of its order, no longer than what in it does  *)
(* not look at the context: the book, the database calls and the fallback  *)
(* alert with its retries.  Of the other sends at most one sleep that was  *)
(* under way is slept out.                                                 *)
CancelIsPrompt ==
  cancelled # No /\ sender # "idle" => cancelled <= Promptly

(* Every handler ends, however often Telegram asks for a retry. *)
HandlersReturn == sender # "idle" ~> sender = "idle"

=============================================================================
