--------------------------- MODULE AlertingProofs ---------------------------
(***************************************************************************)
(* Proofs about Alerting, for any thresholds, cooldowns, timeouts, number  *)
(* of retries, time of a database call and waiting times that Telegram may *)
(* ask for.                                                                *)
(***************************************************************************)
EXTENDS Alerting, SequenceTheorems, TLAPS

-----------------------------------------------------------------------------
(* The inductive invariant, beside AlertingTypeOK. *)

Sends == sender \in {"post", "sleep"}
Sending(text) == Sends /\ Head(queue) = text

(* What a send may have taken up to and without its attempt a.             *)
Budget(a) == a * (Timeout + MaxDelay)

(* A work and a send keep to their time, and without a send it has no age. *)
SendTime ==
  /\ sender = "work" => timer <= WorkTime(Head(queue))
  /\ sender = "post" => timer <= Timeout /\ started + timer <= Budget(attempt) + Timeout
  /\ sender = "sleep" =>
       /\ attempt < MaxRetries /\ timer <= MaxDelay
       /\ started + timer <= Budget(attempt) + Timeout + MaxDelay
  /\ ~Sends => started = 0

(* How long after the cancellation a handler can get to an item, ...       *)
FirstWait == Max({MaxDelay, QueryTime})

Before(item) ==
  IF item = WriteRaw THEN 0
  ELSE IF item = PricingAlert THEN FirstWait + BookTimeout + 3 * QueryTime
  ELSE IF item \in Alerts THEN QueryTime
  ELSE IF item = SaveSignal THEN FirstWait
  ELSE IF item \in Texts THEN FirstWait + QueryTime
  ELSE IF item = Book THEN FirstWait + 2 * QueryTime
  ELSE IF item = Nonce THEN FirstWait + BookTimeout + 2 * QueryTime
  ELSE FirstWait + BookTimeout + 3 * QueryTime + MaxSend

(* ... and how long after it the item can be over.  Its send, but for the  *)
(* fallback alert's, is over earlier if a row is still to be written.      *)
Rows == Works \cup (Texts \ Alerts)
Sent(item) == IF item \in Alerts THEN FirstWait ELSE Before(item)

Reach(item) ==
  IF item \in Rows THEN Before(item) + WorkTime(item)
  ELSE IF item = PricingAlert THEN Before(item) + MaxSend
  ELSE IF item \in Alerts THEN FirstWait
  ELSE Before(item)

(* The handler is through with an item before it gets to the next.         *)
Rising(q) == \A i, j \in DOMAIN q : i < j => Reach(q[i]) <= Before(q[j])

QueueShape ==
  /\ Sends => Head(queue) \in Texts
  /\ sender = "work" => Head(queue) \in Rows
  /\ Rising(queue)

(* How long a handler can have run with its context cancelled.             *)
Late ==
  cancelled # No /\ sender # "idle" =>
    /\ sender = "next" => cancelled <= Before(Head(queue))
    /\ sender = "work" => cancelled + timer <= Reach(Head(queue))
    /\ Sending(PricingAlert) => cancelled <= Before(PricingAlert) + started
    /\ sender = "post" /\ Head(queue) # PricingAlert => cancelled <= Sent(Head(queue))
    /\ sender = "sleep" /\ Head(queue) # PricingAlert => cancelled + timer <= MaxDelay

(* The cooldown of an alert starts no later than its delivery. *)
Silenced == \A a \in Alerts : delivered[a] <= lastSent[a]

(* A notification was delivered, if at all, within a send of when its      *)
(* cooldown started.                                                       *)
NotedSince == \A s \in Severities : delivered[Signal(s)] >= lastSignalNotify[s] - MaxSend

(* While one is sent, it was delivered long ago or by an earlier attempt.  *)
SentBefore ==
  \A s \in Severities : Sending(Signal(s)) =>
    /\ lastSignalNotify[s] = started
    /\ \/ delivered[Signal(s)] >= NotifyCooldown - MaxSend
       \/ delivered[Signal(s)] <= started /\ (sender = "sleep" \/ attempt > 0)

IInv ==
  /\ AlertingTypeOK /\ SendTime /\ QueueShape /\ Late
  /\ Silenced /\ NotedSince /\ SentBefore

-----------------------------------------------------------------------------
(* Delays and times. *)

LEMMA GreatestOfTwo ==
  ASSUME NEW a \in Nat, NEW b \in Nat
  PROVE  Max({a, b}) \in Nat /\ Max({a, b}) >= a /\ Max({a, b}) >= b
<1>1. \E x \in {a, b} : \A y \in {a, b} : x >= y
  OBVIOUS
<1>2. Max({a, b}) \in {a, b} /\ \A y \in {a, b} : Max({a, b}) >= y
  BY <1>1 DEF Max
<1> QED
  BY <1>2

LEMMA GreatestOfThree ==
  ASSUME NEW a \in Nat, NEW b \in Nat, NEW c \in Nat
  PROVE  Max({a, b, c}) \in Nat /\ Max({a, b, c}) >= a /\ Max({a, b, c}) >= b /\ Max({a, b, c}) >= c
<1>1. \E x \in {a, b, c} : \A y \in {a, b, c} : x >= y
  OBVIOUS
<1>2. Max({a, b, c}) \in {a, b, c} /\ \A y \in {a, b, c} : Max({a, b, c}) >= y
  BY <1>1 DEF Max
<1> QED
  BY <1>2

LEMMA Constants ==
  /\ MinSeverity \in Severities /\ AlertCooldown \in Nat /\ NotifyCooldown \in Nat
  /\ MaxRetries \in Nat /\ Timeout \in Nat /\ RetryAfter \in Nat /\ MaxSignals \in Nat
  /\ BookTimeout \in Nat /\ QueryTime \in Nat
BY AlertingAssumption

LEMMA DelayFacts ==
  MaxDelay \in Nat /\ MaxDelay >= RetryAfter /\ MaxDelay >= MaxRetries
BY Constants, GreatestOfTwo DEF MaxDelay

LEMMA Product ==
  ASSUME NEW a \in Nat, NEW b \in Nat
  PROVE  a * b \in Nat
OBVIOUS

LEMMA TimesGrow ==
  ASSUME NEW a \in Nat, NEW b \in Nat, NEW c \in Nat, a <= b
  PROVE  a * c <= b * c
<1>1. PICK d \in Nat : b = a + d
  <2>1. b - a \in Nat /\ b = a + (b - a)
    OBVIOUS
  <2> QED
    BY <2>1
<1>2. b * c = a * c + d * c
  BY <1>1
<1>3. d * c \in Nat /\ a * c \in Nat
  BY <1>1, Product
<1> QED
  BY <1>2, <1>3

(* The attempts of a send share MaxSend. *)
LEMMA BudgetFacts ==
  /\ MaxSend \in Nat
  /\ \A a \in Nat :
       /\ Budget(a) \in Nat /\ Budget(a + 1) = Budget(a) + Timeout + MaxDelay
       /\ a <= MaxRetries => Budget(a) + Timeout <= MaxSend
       /\ a < MaxRetries => Budget(a) + Timeout + MaxDelay <= MaxSend
  /\ Budget(0) = 0
<1> DEFINE s == Timeout + MaxDelay
<1>1. MaxRetries \in Nat /\ Timeout \in Nat /\ MaxDelay \in Nat /\ s \in Nat
  BY Constants, DelayFacts
<1>2. MaxSend = Budget(MaxRetries) + Timeout
  <2>1. (MaxRetries + 1) * Timeout = MaxRetries * Timeout + Timeout
    BY <1>1
  <2>2. MaxRetries * (Timeout + MaxDelay) = MaxRetries * Timeout + MaxRetries * MaxDelay
    BY <1>1
  <2>3. MaxRetries * Timeout \in Nat /\ MaxRetries * MaxDelay \in Nat
    BY <1>1, Product
  <2> QED
    BY <1>1, <2>1, <2>2, <2>3 DEF MaxSend, Budget
<1> HIDE DEF s
<1>3. ASSUME NEW a \in Nat PROVE Budget(a) \in Nat /\ Budget(a + 1) = Budget(a) + Timeout + MaxDelay
  <2>1. a * s \in Nat /\ (a + 1) * s = a * s + s
    BY <1>1, Product
  <2> QED
    BY <1>1, <2>1 DEF Budget, s
<1>4. ASSUME NEW a \in Nat, a <= MaxRetries PROVE Budget(a) <= Budget(MaxRetries)
  <2>1. a * s <= MaxRetries * s
    BY <1>1, <1>4, TimesGrow
  <2> QED
    BY <2>1 DEF Budget, s
<1>5. ASSUME NEW a \in Nat, a < MaxRetries PROVE Budget(a) + Timeout + MaxDelay <= Budget(MaxRetries)
  <2>1. a + 1 \in Nat /\ a + 1 <= MaxRetries
    BY <1>1, <1>5
  <2> QED
    BY <1>3, <1>4, <2>1
<1>6. Budget(0) = 0
  BY <1>1 DEF Budget, s
<1> QED
  BY <1>1, <1>2, <1>3, <1>4, <1>5, <1>6

LEMMA TimeFacts ==
  /\ MaxSend \in Nat /\ MaxDelay \in Nat /\ Forgotten \in Nat
  /\ Forgotten >= AlertCooldown /\ Forgotten >= NotifyCooldown /\ Forgotten > MaxSend
<1>1. MaxSend \in Nat /\ MaxDelay \in Nat /\ MaxSend + 1 \in Nat
  BY BudgetFacts, DelayFacts
<1> DEFINE m == MaxSend + 1
<1> HIDE DEF m
<1>2. m \in Nat
  BY <1>1 DEF m
<1>3. /\ Max({AlertCooldown, NotifyCooldown, m}) \in Nat
      /\ Max({AlertCooldown, NotifyCooldown, m}) >= AlertCooldown
      /\ Max({AlertCooldown, NotifyCooldown, m}) >= NotifyCooldown
      /\ Max({AlertCooldown, NotifyCooldown, m}) >= m
  BY <1>2, Constants, GreatestOfThree
<1>4. Forgotten = Max({AlertCooldown, NotifyCooldown, m})
  BY DEF Forgotten, m
<1>5. Forgotten >= m
  BY <1>3, <1>4
<1>6. Forgotten > MaxSend
  BY <1>1, <1>3, <1>4, <1>5 DEF m
<1> QED
  BY <1>1, <1>3, <1>4, <1>6

LEMMA PromptFacts ==
  /\ FirstWait \in Nat /\ FirstWait >= MaxDelay /\ FirstWait >= QueryTime
  /\ Promptly \in Nat /\ Promptly = FirstWait + BookTimeout + 4 * QueryTime + MaxSend
<1>1. FirstWait \in Nat /\ FirstWait >= MaxDelay /\ FirstWait >= QueryTime
  BY Constants, DelayFacts, GreatestOfTwo DEF FirstWait
<1>2. Promptly = FirstWait + BookTimeout + 4 * QueryTime + MaxSend
  BY DEF Promptly, FirstWait
<1>3. FirstWait + BookTimeout + 4 * QueryTime + MaxSend \in Nat
  BY <1>1, BudgetFacts, Constants
<1> QED
  BY <1>1, <1>2, <1>3

LEMMA AgeFacts ==
  ASSUME NEW age \in 0..Forgotten
  PROVE  /\ Older(age) \in 0..Forgotten /\ Older(age) >= age /\ Older(age) <= age + 1
         /\ age < Forgotten => Older(age) = age + 1
         /\ Older(age) \in Nat
BY TimeFacts DEF Older

(* A smaller age stays the smaller. *)
LEMMA AgesInOrder ==
  ASSUME NEW a \in 0..Forgotten, NEW b \in 0..Forgotten, a <= b
  PROVE  Older(a) <= Older(b)
BY TimeFacts DEF Older

-----------------------------------------------------------------------------
(* Texts. *)

LEMMA TextFacts ==
  /\ Alerts \subseteq Texts /\ StreamAlert \in Alerts /\ PricingAlert \in Alerts
  /\ \A s \in Severities : Signal(s) \in Texts /\ Alert(s) \in Alerts
  /\ \A s \in Severities : Signal(s) \notin Alerts
  /\ \A s \in Severities : Signal(s).key = s /\ Signal(s).kind = "notify"
  /\ \A s, t \in Severities : Signal(s) = Signal(t) => s = t
  /\ \A a \in Alerts : a.kind = "alert"
  /\ \A text \in Texts : text \in Alerts \/ \E s \in Severities : text = Signal(s)
<1>1. Alerts \subseteq Texts /\ StreamAlert \in Alerts /\ PricingAlert \in Alerts
  BY DEF Alerts, Texts
<1>2. \A s \in Severities : Signal(s) \in Texts /\ Alert(s) \in Alerts
  BY DEF Alerts, Texts
<1>3. \A a \in Alerts : a.kind = "alert"
  BY DEF Alerts, StreamAlert, PricingAlert, Alert
<1>4. \A s : Signal(s).kind = "notify" /\ Signal(s).key = s
  BY DEF Signal
<1>5. \A text \in Texts : text \in Alerts \/ \E s \in Severities : text = Signal(s)
  BY DEF Texts
<1>6. \A s \in Severities : Signal(s) \notin Alerts
  BY <1>3, <1>4
<1> QED
  BY <1>1, <1>2, <1>3, <1>4, <1>5, <1>6

(* No text is a work or the order, and every work is another. *)
LEMMA WorkFacts ==
  /\ {WriteRaw, SaveSignal, Book, Nonce, SaveOrder} = Works
  /\ Order \notin Texts /\ Order \notin Works
  /\ \A work \in Works : work \notin Texts
  /\ WriteRaw # SaveSignal /\ WriteRaw # Book /\ WriteRaw # Nonce /\ WriteRaw # SaveOrder
  /\ SaveSignal # Book /\ SaveSignal # Nonce /\ SaveSignal # SaveOrder
  /\ Book # Nonce /\ Book # SaveOrder /\ Nonce # SaveOrder
<1>1. \A text \in Texts : text.kind = "alert" \/ text.kind = "notify"
  BY TextFacts
<1>2. Order.kind = "order"
  BY DEF Order
<1>3. /\ WriteRaw.kind = "work" /\ SaveSignal.kind = "work" /\ Book.kind = "work"
      /\ Nonce.kind = "work" /\ SaveOrder.kind = "work"
  BY DEF WriteRaw, SaveSignal, Book, Nonce, SaveOrder, Work
<1>4. /\ WriteRaw.key = "raw" /\ SaveSignal.key = "signal" /\ Book.key = "book"
      /\ Nonce.key = "nonce" /\ SaveOrder.key = "order"
  BY DEF WriteRaw, SaveSignal, Book, Nonce, SaveOrder, Work
<1>5. {WriteRaw, SaveSignal, Book, Nonce, SaveOrder} = Works
  BY DEF Works
<1>6. \A work \in Works : work.kind = "work"
  BY <1>3, <1>5
<1> QED
  BY <1>1, <1>2, <1>4, <1>5, <1>6

(* The way of a handler, item by item.                                     *)
LEMMA Ways ==
  /\ Before(WriteRaw) = 0 /\ Reach(WriteRaw) = QueryTime
  /\ \A a \in Alerts \ {PricingAlert} : Before(a) = QueryTime /\ Reach(a) = FirstWait
  /\ Before(SaveSignal) = FirstWait /\ Reach(SaveSignal) = FirstWait + QueryTime
  /\ \A t \in Texts \ Alerts : Before(t) = FirstWait + QueryTime /\ Reach(t) = FirstWait + 2 * QueryTime
  /\ Before(Book) = FirstWait + 2 * QueryTime /\ Reach(Book) = FirstWait + BookTimeout + 2 * QueryTime
  /\ Before(Nonce) = FirstWait + BookTimeout + 2 * QueryTime
  /\ Reach(Nonce) = FirstWait + BookTimeout + 3 * QueryTime
  /\ Before(PricingAlert) = FirstWait + BookTimeout + 3 * QueryTime
  /\ Reach(PricingAlert) = FirstWait + BookTimeout + 3 * QueryTime + MaxSend
  /\ Before(Order) = FirstWait + BookTimeout + 3 * QueryTime + MaxSend
  /\ Reach(Order) = FirstWait + BookTimeout + 3 * QueryTime + MaxSend
  /\ Before(SaveOrder) = FirstWait + BookTimeout + 3 * QueryTime + MaxSend
  /\ Reach(SaveOrder) = Promptly
<1>1. /\ FirstWait \in Nat /\ QueryTime \in Nat /\ BookTimeout \in Nat /\ MaxSend \in Nat
      /\ Promptly = FirstWait + BookTimeout + 4 * QueryTime + MaxSend
  BY PromptFacts, Constants, BudgetFacts
<1>2. Alerts \subseteq Texts /\ PricingAlert \in Alerts
  BY TextFacts
<1>3. /\ WorkTime(WriteRaw) = QueryTime /\ WorkTime(SaveSignal) = QueryTime
      /\ WorkTime(Book) = BookTimeout /\ WorkTime(Nonce) = QueryTime
      /\ WorkTime(SaveOrder) = QueryTime
      /\ \A t \in Texts : WorkTime(t) = QueryTime
  BY WorkFacts DEF WorkTime
<1>4. /\ WriteRaw \in Works /\ SaveSignal \in Works /\ Book \in Works /\ Nonce \in Works
      /\ SaveOrder \in Works
      /\ Works \subseteq Rows /\ \A t \in Texts \ Alerts : t \in Rows
      /\ \A x : x \in Rows => x \in Works \/ (x \in Texts /\ x \notin Alerts)
  BY WorkFacts DEF Rows
<1>5. Before(WriteRaw) = 0 /\ Reach(WriteRaw) = QueryTime
  BY <1>1, <1>3, <1>4 DEF Before, Reach
<1>6. \A a \in Alerts \ {PricingAlert} : Before(a) = QueryTime /\ Reach(a) = FirstWait
  <2> SUFFICES ASSUME NEW a \in Alerts \ {PricingAlert}
               PROVE  Before(a) = QueryTime /\ Reach(a) = FirstWait
    OBVIOUS
  <2>1. a # WriteRaw /\ a \notin Rows /\ a # PricingAlert /\ a \in Alerts
    BY <1>2, <1>4, WorkFacts
  <2> QED
    BY <2>1 DEF Before, Reach
<1>7. Before(SaveSignal) = FirstWait /\ Reach(SaveSignal) = FirstWait + QueryTime
  <2>1. SaveSignal # WriteRaw /\ SaveSignal # PricingAlert /\ SaveSignal \notin Alerts
    BY <1>2, <1>4, WorkFacts
  <2>2. Before(SaveSignal) = FirstWait
    BY <2>1 DEF Before
  <2> QED
    BY <1>3, <1>4, <2>2 DEF Reach
<1>8. \A t \in Texts \ Alerts : Before(t) = FirstWait + QueryTime /\ Reach(t) = FirstWait + 2 * QueryTime
  <2> SUFFICES ASSUME NEW t \in Texts \ Alerts
               PROVE  Before(t) = FirstWait + QueryTime /\ Reach(t) = FirstWait + 2 * QueryTime
    OBVIOUS
  <2>1. /\ t # WriteRaw /\ t \in Rows /\ t # PricingAlert /\ t \notin Alerts /\ t # SaveSignal
        /\ t \in Texts
    BY <1>2, <1>4, WorkFacts
  <2>2. Before(t) = FirstWait + QueryTime
    BY <2>1 DEF Before
  <2>3. Reach(t) = (FirstWait + QueryTime) + QueryTime
    BY <1>3, <2>1, <2>2 DEF Reach
  <2> QED
    BY <1>1, <2>2, <2>3
<1>9. Before(Book) = FirstWait + 2 * QueryTime /\ Reach(Book) = FirstWait + BookTimeout + 2 * QueryTime
  <2>1. /\ Book # WriteRaw /\ Book # PricingAlert /\ Book \notin Alerts /\ Book # SaveSignal
        /\ Book \notin Texts
    BY <1>2, <1>4, WorkFacts
  <2>2. Before(Book) = FirstWait + 2 * QueryTime
    BY <2>1 DEF Before
  <2>3. Reach(Book) = (FirstWait + 2 * QueryTime) + BookTimeout
    BY <1>3, <1>4, <2>2 DEF Reach
  <2> QED
    BY <1>1, <2>2, <2>3
<1>10. /\ Before(Nonce) = FirstWait + BookTimeout + 2 * QueryTime
       /\ Reach(Nonce) = FirstWait + BookTimeout + 3 * QueryTime
  <2>1. /\ Nonce # WriteRaw /\ Nonce # PricingAlert /\ Nonce \notin Alerts /\ Nonce # SaveSignal
        /\ Nonce \notin Texts /\ Nonce # Book
    BY <1>2, <1>4, WorkFacts
  <2>2. Before(Nonce) = FirstWait + BookTimeout + 2 * QueryTime
    BY <2>1 DEF Before
  <2>3. Reach(Nonce) = (FirstWait + BookTimeout + 2 * QueryTime) + QueryTime
    BY <1>3, <1>4, <2>2 DEF Reach
  <2> QED
    BY <1>1, <2>2, <2>3
<1>11. /\ Before(PricingAlert) = FirstWait + BookTimeout + 3 * QueryTime
       /\ Reach(PricingAlert) = FirstWait + BookTimeout + 3 * QueryTime + MaxSend
  <2>1. PricingAlert # WriteRaw /\ PricingAlert \notin Rows
    BY <1>2, <1>4, WorkFacts
  <2> QED
    BY <2>1 DEF Before, Reach
<1>12. /\ Before(Order) = FirstWait + BookTimeout + 3 * QueryTime + MaxSend
       /\ Reach(Order) = FirstWait + BookTimeout + 3 * QueryTime + MaxSend
  <2>1. /\ Order # WriteRaw /\ Order # PricingAlert /\ Order \notin Alerts /\ Order # SaveSignal
        /\ Order \notin Texts /\ Order # Book /\ Order # Nonce /\ Order \notin Rows
    BY <1>2, <1>4, WorkFacts
  <2> QED
    BY <2>1 DEF Before, Reach
<1>13. /\ Before(SaveOrder) = FirstWait + BookTimeout + 3 * QueryTime + MaxSend
       /\ Reach(SaveOrder) = Promptly
  <2>1. /\ SaveOrder # WriteRaw /\ SaveOrder # PricingAlert /\ SaveOrder \notin Alerts
        /\ SaveOrder # SaveSignal /\ SaveOrder \notin Texts /\ SaveOrder # Book
        /\ SaveOrder # Nonce
    BY <1>2, <1>4, WorkFacts
  <2>2. Before(SaveOrder) = FirstWait + BookTimeout + 3 * QueryTime + MaxSend
    BY <2>1 DEF Before
  <2>3. Reach(SaveOrder) = (FirstWait + BookTimeout + 3 * QueryTime + MaxSend) + QueryTime
    BY <1>3, <1>4, <2>2 DEF Reach
  <2> QED
    BY <1>1, <2>2, <2>3
<1> QED
  BY <1>5, <1>6, <1>7, <1>8, <1>9, <1>10, <1>11, <1>12, <1>13

(* What the steps need of it. *)
LEMMA WayFacts ==
  /\ \A x \in Items : Before(x) \in Nat /\ Reach(x) \in Nat /\ Before(x) <= Reach(x)
                       /\ Reach(x) <= Promptly
  /\ \A w \in Rows : WorkTime(w) \in Nat /\ Reach(w) = Before(w) + WorkTime(w)
  /\ \A t \in Texts \ {PricingAlert} :
       Sent(t) \in Nat /\ MaxDelay <= Sent(t) /\ Before(t) <= Sent(t) /\ Sent(t) <= Reach(t)
  /\ \A t \in Texts \ Alerts : t \in Rows /\ Sent(t) = Before(t)
  /\ Reach(PricingAlert) = Before(PricingAlert) + MaxSend
<1>1. /\ FirstWait \in Nat /\ QueryTime \in Nat /\ BookTimeout \in Nat /\ MaxSend \in Nat
      /\ Promptly \in Nat /\ Promptly = FirstWait + BookTimeout + 4 * QueryTime + MaxSend
      /\ FirstWait >= MaxDelay /\ FirstWait >= QueryTime /\ MaxDelay \in Nat
  BY PromptFacts, Constants, BudgetFacts, DelayFacts
<1>2. ASSUME NEW x \in Items
      PROVE  Before(x) \in Nat /\ Reach(x) \in Nat /\ Before(x) <= Reach(x) /\ Reach(x) <= Promptly
  <2>1. CASE x \in {WriteRaw, SaveSignal, Book}
    BY <1>1, <2>1, Ways
  <2>2. CASE x \in {Nonce, PricingAlert, Order, SaveOrder}
    BY <1>1, <2>2, Ways
  <2>3. CASE x \in Alerts \ {PricingAlert}
    BY <1>1, <2>3, Ways
  <2>4. CASE x \in Texts \ Alerts
    BY <1>1, <2>4, Ways
  <2> QED
    BY <2>1, <2>2, <2>3, <2>4, WorkFacts, TextFacts DEF Items
<1>3. \A w \in Rows : WorkTime(w) \in Nat /\ Reach(w) = Before(w) + WorkTime(w)
  BY <1>1 DEF WorkTime, Reach
<1>4. ASSUME NEW t \in Texts \ {PricingAlert}
      PROVE  Sent(t) \in Nat /\ MaxDelay <= Sent(t) /\ Before(t) <= Sent(t) /\ Sent(t) <= Reach(t)
  <2>1. CASE t \in Alerts
    <3>1. Before(t) = QueryTime /\ Reach(t) = FirstWait /\ Sent(t) = FirstWait
      BY <2>1, Ways DEF Sent
    <3> QED
      BY <1>1, <3>1
  <2>2. CASE t \notin Alerts
    <3>1. /\ Before(t) = FirstWait + QueryTime /\ Reach(t) = FirstWait + 2 * QueryTime
          /\ Sent(t) = FirstWait + QueryTime
      BY <2>2, Ways DEF Sent
    <3> QED
      BY <1>1, <3>1
  <2> QED
    BY <2>1, <2>2
<1>6. \A t \in Texts \ Alerts : t \in Rows /\ Sent(t) = Before(t)
  BY DEF Rows, Sent
<1>5. Reach(PricingAlert) = Before(PricingAlert) + MaxSend
  BY <1>1, Ways
<1> QED
  BY <1>2, <1>3, <1>4, <1>5, <1>6

-----------------------------------------------------------------------------
(* The queue and the state. *)

LEMMA QueueFacts ==
  ASSUME NEW S, NEW q \in Seq(S), q # <<>>
  PROVE  /\ Head(q) \in S /\ Head(q) = q[1] /\ Tail(q) \in Seq(S)
         /\ Len(q) \in Nat /\ Len(q) >= 1 /\ DOMAIN q = 1..Len(q)
         /\ DOMAIN Tail(q) = 1..(Len(q) - 1)
         /\ \A i \in DOMAIN Tail(q) : i + 1 \in DOMAIN q /\ Tail(q)[i] = q[i + 1]
         /\ Len(q) = 1 <=> Tail(q) = <<>>
         /\ Tail(q) # <<>> => 1 \in DOMAIN Tail(q) /\ Head(Tail(q)) = Tail(q)[1]
<1>1. /\ Head(q) \in S /\ Head(q) = q[1] /\ Tail(q) \in Seq(S)
      /\ Len(q) \in Nat /\ Len(q) >= 1 /\ DOMAIN q = 1..Len(q)
  OBVIOUS
<1>2. Len(Tail(q)) = Len(q) - 1 /\ DOMAIN Tail(q) = 1..(Len(q) - 1)
  BY <1>1
<1>3. \A i \in DOMAIN Tail(q) : i + 1 \in DOMAIN q /\ Tail(q)[i] = q[i + 1]
  BY <1>1, <1>2
<1>4. Len(q) = 1 <=> Tail(q) = <<>>
  <2>1. Tail(q) # <<>> => Len(Tail(q)) # 0
    BY <1>1, EmptySeq
  <2>2. Tail(q) = <<>> => Len(Tail(q)) = 0
    BY EmptySeq
  <2> QED
    BY <1>1, <1>2, <2>1, <2>2
<1>5. Tail(q) # <<>> => 1 \in DOMAIN Tail(q) /\ Head(Tail(q)) = Tail(q)[1]
  BY <1>1, <1>2, <1>4
<1> QED
  BY <1>1, <1>2, <1>3, <1>4, <1>5

(* A queue that is through by the time k, and one more item behind it.     *)
Through(q, k) == Rising(q) /\ \A i \in DOMAIN q : Reach(q[i]) <= k

LEMMA Behind ==
  ASSUME NEW q \in Seq(Items), NEW k \in Nat, NEW limit \in Nat, Through(q, k), k <= limit,
         NEW x \in Items, k <= Before(x), Reach(x) <= limit, NEW needed \in BOOLEAN
  PROVE  /\ q \o When(needed, x) \in Seq(Items) /\ Through(q \o When(needed, x), limit)
         /\ q # <<>> => q \o When(needed, x) # <<>>
<1>1. \A i \in DOMAIN q : q[i] \in Items /\ Reach(q[i]) \in Nat /\ Reach(q[i]) <= k
  BY WayFacts DEF Through
<1>2. CASE ~needed
  <2>1. q \o When(needed, x) = q
    BY <1>2 DEF When
  <2>2. \A i \in DOMAIN q : Reach(q[i]) <= limit
    BY <1>1
  <2> QED
    BY <2>1, <2>2 DEF Through
<1>3. CASE needed
  <2> DEFINE u == q \o <<x>>
  <2>1. q \o When(needed, x) = u
    BY <1>3 DEF When
  <2>2. /\ u \in Seq(Items) /\ Len(q) \in Nat /\ Len(u) = Len(q) + 1 /\ DOMAIN q = 1..Len(q)
        /\ DOMAIN u = 1..(Len(q) + 1) /\ u[Len(q) + 1] = x /\ \A i \in DOMAIN q : u[i] = q[i]
    OBVIOUS
  <2> HIDE DEF u
  <2>3. \A i \in DOMAIN u : i \in DOMAIN q \/ i = Len(q) + 1
    BY <2>2
  <2>4. Before(x) \in Nat /\ Reach(x) \in Nat
    BY WayFacts
  <2>5. \A i \in DOMAIN u : Reach(u[i]) <= limit
    <3>1. \A i \in DOMAIN q : Reach(u[i]) <= limit
      BY <1>1, <2>2
    <3>2. Reach(u[Len(q) + 1]) <= limit
      BY <2>2
    <3> QED
      BY <2>3, <3>1, <3>2
  <2>6. ASSUME NEW i \in DOMAIN u, NEW j \in DOMAIN u, i < j PROVE Reach(u[i]) <= Before(u[j])
    <3>1. i \in DOMAIN q
      BY <2>2, <2>6
    <3>2. CASE j \in DOMAIN q
      <4>1. Reach(q[i]) <= Before(q[j])
        BY <2>6, <3>1, <3>2 DEF Through, Rising
      <4> QED
        BY <2>2, <3>1, <3>2, <4>1
    <3>3. CASE j = Len(q) + 1
      <4>1. Reach(q[i]) <= Before(x)
        BY <1>1, <2>4, <3>1
      <4> QED
        BY <2>2, <3>1, <3>3, <4>1
    <3> QED
      BY <2>3, <3>2, <3>3
  <2>7. u # <<>>
    <3>1. Len(u) # 0
      BY <2>2
    <3> QED
      BY <3>1
  <2> QED
    BY <2>1, <2>2, <2>5, <2>6, <2>7 DEF Through, Rising
<1> QED
  BY <1>2, <1>3

(* The handler of a signal is a queue of that shape. *)
LEMMA HandlersQueue ==
  ASSUME NEW s \in Severities, NEW severe \in BOOLEAN, NEW execute \in BOOLEAN,
         NEW book \in BOOLEAN, NEW nonce \in BOOLEAN, NEW fallback \in BOOLEAN
  PROVE  LET q == Handler(s, severe, execute, book, nonce, fallback)
         IN  q \in Seq(Items) /\ Rising(q) /\ q # <<>>
<1> DEFINE k1 == QueryTime
           k2 == FirstWait
           k3 == FirstWait + QueryTime
           k3n == FirstWait + 2 * QueryTime
           k4 == FirstWait + BookTimeout + 2 * QueryTime
           k5 == FirstWait + BookTimeout + 3 * QueryTime
           k6 == FirstWait + BookTimeout + 3 * QueryTime + MaxSend
           k7 == Promptly
<1>1. /\ k1 \in Nat /\ k2 \in Nat /\ k3 \in Nat /\ k3n \in Nat
      /\ k4 \in Nat /\ k5 \in Nat /\ k6 \in Nat /\ k7 \in Nat
      /\ k1 <= k2 /\ k2 <= k3 /\ k3 <= k3n /\ k3n <= k4 /\ k4 <= k5 /\ k5 <= k6 /\ k6 <= k7
  BY PromptFacts, Constants, BudgetFacts
<1>2. /\ WriteRaw \in Items /\ SaveSignal \in Items /\ Book \in Items /\ Nonce \in Items
      /\ Order \in Items /\ SaveOrder \in Items /\ PricingAlert \in Items
      /\ Alert(s) \in Items /\ Signal(s) \in Items
  BY WorkFacts, TextFacts DEF Items
<1>3. Alert(s) \in Alerts \ {PricingAlert} /\ Signal(s) \in Texts \ Alerts
  <2>1. Alert(s) # PricingAlert
    BY DEF Severities, Alert, PricingAlert
  <2> QED
    BY <2>1, TextFacts
<1>4. /\ Reach(WriteRaw) = k1
      /\ Before(Alert(s)) = k1 /\ Reach(Alert(s)) = k2
      /\ Before(SaveSignal) = k2 /\ Reach(SaveSignal) = k3
      /\ Before(Signal(s)) = k3 /\ Reach(Signal(s)) = k3n
      /\ Before(Book) = k3n /\ Reach(Book) = k4
      /\ Before(Nonce) = k4 /\ Reach(Nonce) = k5
      /\ Before(PricingAlert) = k5 /\ Reach(PricingAlert) = k6
      /\ Before(Order) = k6 /\ Reach(Order) = k6
      /\ Before(SaveOrder) = k6 /\ Reach(SaveOrder) = k7
  BY <1>3, Ways
<1> HIDE DEF k1, k2, k3, k3n, k4, k5, k6, k7
<1>5. k3 <= k3 /\ k3n <= k3n /\ k6 <= k6 /\ k1 <= k1 /\ k2 <= k2 /\ k4 <= k4 /\ k5 <= k5 /\ k7 <= k7
  BY <1>1
<1> DEFINE q1 == <<WriteRaw>>
           q2 == q1 \o When(severe, Alert(s))
           q3 == q2 \o When(TRUE, SaveSignal)
           q4 == q3 \o When(TRUE, Signal(s))
           q5 == q4 \o When(book, Book)
           q6 == q5 \o When(nonce, Nonce)
           q7 == q6 \o When(fallback, PricingAlert)
           q8 == q7 \o When(execute, Order)
           q9 == q8 \o When(execute, SaveOrder)
<1>6. q1 \in Seq(Items) /\ Through(q1, k1) /\ q1 # <<>>
  <2>1. q1 \in Seq(Items) /\ DOMAIN q1 = 1..1 /\ q1[1] = WriteRaw /\ q1 # <<>>
    BY <1>2
  <2> HIDE DEF q1
  <2>2. \A i \in DOMAIN q1 : i = 1 /\ Reach(q1[i]) <= k1
    BY <1>1, <1>4, <2>1
  <2> QED
    BY <2>1, <2>2 DEF Through, Rising
<1>7. q9 = Handler(s, severe, execute, book, nonce, fallback)
  BY DEF When, Handler
<1> HIDE DEF q1, q2, q3, q4, q5, q6, q7, q8, q9
<1>8. q2 \in Seq(Items) /\ Through(q2, k2) /\ q2 # <<>>
  <2>1. /\ Alert(s) \in Items /\ k1 \in Nat /\ k2 \in Nat /\ k1 <= k2
        /\ k1 <= Before(Alert(s)) /\ Reach(Alert(s)) <= k2
    BY <1>1, <1>2, <1>4, <1>5
  <2> QED
    BY <1>6, <2>1, Behind DEF q2
<1>9. q3 \in Seq(Items) /\ Through(q3, k3) /\ q3 # <<>>
  <2>1. /\ SaveSignal \in Items /\ k2 \in Nat /\ k3 \in Nat /\ k2 <= k3
        /\ k2 <= Before(SaveSignal) /\ Reach(SaveSignal) <= k3
    BY <1>1, <1>2, <1>4, <1>5
  <2> QED
    BY <1>8, <2>1, Behind DEF q3
<1>10. q4 \in Seq(Items) /\ Through(q4, k3n) /\ q4 # <<>>
  <2>1. /\ Signal(s) \in Items /\ k3 \in Nat /\ k3n \in Nat /\ k3 <= k3n
        /\ k3 <= Before(Signal(s)) /\ Reach(Signal(s)) <= k3n
    BY <1>1, <1>2, <1>4, <1>5
  <2> QED
    BY <1>9, <2>1, Behind DEF q4
<1>11. q5 \in Seq(Items) /\ Through(q5, k4) /\ q5 # <<>>
  <2>1. /\ Book \in Items /\ k3n \in Nat /\ k4 \in Nat /\ k3n <= k4
        /\ k3n <= Before(Book) /\ Reach(Book) <= k4
    BY <1>1, <1>2, <1>4, <1>5
  <2> QED
    BY <1>10, <2>1, Behind DEF q5
<1>12. q6 \in Seq(Items) /\ Through(q6, k5) /\ q6 # <<>>
  <2>1. /\ Nonce \in Items /\ k4 \in Nat /\ k5 \in Nat /\ k4 <= k5
        /\ k4 <= Before(Nonce) /\ Reach(Nonce) <= k5
    BY <1>1, <1>2, <1>4, <1>5
  <2> QED
    BY <1>11, <2>1, Behind DEF q6
<1>13. q7 \in Seq(Items) /\ Through(q7, k6) /\ q7 # <<>>
  <2>1. /\ PricingAlert \in Items /\ k5 \in Nat /\ k6 \in Nat /\ k5 <= k6
        /\ k5 <= Before(PricingAlert) /\ Reach(PricingAlert) <= k6
    BY <1>1, <1>2, <1>4, <1>5
  <2> QED
    BY <1>12, <2>1, Behind DEF q7
<1>14. q8 \in Seq(Items) /\ Through(q8, k6) /\ q8 # <<>>
  <2>1. /\ Order \in Items /\ k6 \in Nat /\ k6 \in Nat /\ k6 <= k6
        /\ k6 <= Before(Order) /\ Reach(Order) <= k6
    BY <1>1, <1>2, <1>4, <1>5
  <2> QED
    BY <1>13, <2>1, Behind DEF q8
<1>15. q9 \in Seq(Items) /\ Through(q9, k7) /\ q9 # <<>>
  <2>1. /\ SaveOrder \in Items /\ k6 \in Nat /\ k7 \in Nat /\ k6 <= k7
        /\ k6 <= Before(SaveOrder) /\ Reach(SaveOrder) <= k7
    BY <1>1, <1>2, <1>4, <1>5
  <2> QED
    BY <1>14, <2>1, Behind DEF q9
<1> QED
  BY <1>7, <1>15 DEF Through

LEMMA StateFacts ==
  ASSUME AlertingTypeOK
  PROVE  /\ cancelled # No => cancelled \in Nat /\ cancelled <= Promptly + 1
         /\ started \in Nat /\ started <= MaxSend /\ started < Forgotten
         /\ attempt \in Nat /\ attempt <= MaxRetries /\ timer \in Nat
         /\ \A a \in Alerts : lastSent[a] \in 0..Forgotten /\ lastSent[a] \in Nat
         /\ \A s \in Severities : lastSignalNotify[s] \in 0..Forgotten /\ lastSignalNotify[s] \in Nat
         /\ \A t \in Texts : delivered[t] \in 0..Forgotten /\ delivered[t] \in Nat
         /\ 0 \in 0..Forgotten /\ 0 \in 0..MaxSend /\ 0 \in 0..MaxRetries /\ 0 \in 0..(Promptly + 1)
         /\ sender # "idle" => queue # <<>> /\ Head(queue) \in Items
<1>1. /\ Forgotten \in Nat /\ MaxSend \in Nat /\ MaxRetries \in Nat /\ MaxSend < Forgotten
      /\ Promptly \in Nat
  BY TimeFacts, PromptFacts, Constants
<1>2. sender # "idle" => queue # <<>> /\ Head(queue) \in Items
  BY QueueFacts DEF AlertingTypeOK
<1> QED
  BY <1>1, <1>2 DEF AlertingTypeOK

(* Initially nothing is sent and nothing remembered. *)
LEMMA Initially == AlertingInit => IInv
<1> SUFFICES ASSUME AlertingInit PROVE IInv
  OBVIOUS
<1>1. Forgotten \in Nat /\ MaxSend \in Nat /\ MaxRetries \in Nat /\ MaxSignals \in Nat
  BY TimeFacts, Constants
<1>2. 0 \in 0..Forgotten /\ 0 \in 0..MaxSend /\ 0 \in 0..MaxRetries /\ 0 \in 0..MaxSignals
      /\ Forgotten \in 0..Forgotten
  BY <1>1
<1>3. AlertingTypeOK
  <2>1. <<>> \in Seq(Items)
    OBVIOUS
  <2> QED
    BY <1>2, <2>1 DEF AlertingInit, AlertingTypeOK, No
<1>4. SendTime /\ QueueShape /\ Late
  BY DEF AlertingInit, SendTime, QueueShape, Rising, Late, Sends
<1>5. Silenced
  BY <1>1, TextFacts DEF AlertingInit, Silenced
<1>6. NotedSince /\ SentBefore
  BY <1>1, TextFacts DEF AlertingInit, NotedSince, SentBefore, Sending, Sends
<1> QED
  BY <1>3, <1>4, <1>5, <1>6 DEF IInv

(* Nothing changes. *)
LEMMA Stutter == IInv /\ UNCHANGED alertingVars => IInv'
BY DEF IInv, alertingVars, sending, AlertingTypeOK, SendTime, QueueShape, Rising, Late, Silenced,
       NotedSince, SentBefore, Sending, Sends

(* A handler starts, with the context cancelled or not. *)
LEMMA HandlerStarts ==
  ASSUME IInv, sender = "idle", sender' = "next",
         queue' # <<>>, queue' \in Seq(Items), Rising(queue'),
         cancelled' = No \/ cancelled' = 0, signals' \in 0..MaxSignals,
         UNCHANGED <<sending, lastSent, lastSignalNotify, delivered>>
  PROVE  IInv'
<1>1. AlertingTypeOK'
  <2>1. cancelled' \in {No} \cup 0..(Promptly + 1)
    BY StateFacts DEF IInv
  <2> QED
    BY <2>1 DEF IInv, AlertingTypeOK, sending
<1>2. SendTime' /\ QueueShape'
  BY DEF IInv, SendTime, QueueShape, Sends, sending
<1>3. Late'
  <2>1. Head(queue') \in Items
    BY QueueFacts
  <2>2. Before(Head(queue')) \in Nat
    BY <2>1, WayFacts
  <2>3. cancelled' # No => cancelled' <= Before(Head(queue'))
    BY <2>2
  <2> QED
    BY <2>3 DEF Late, Sending, Sends
<1>4. Silenced' /\ NotedSince' /\ SentBefore'
  BY DEF IInv, Silenced, NotedSince, SentBefore, Sending, Sends
<1> QED
  BY <1>1, <1>2, <1>3, <1>4 DEF IInv

-----------------------------------------------------------------------------
(* The steps. *)

(* A handler is over its item in time. *)
LEMMA InTime ==
  ASSUME IInv, cancelled # No, sender # "idle"
  PROVE  /\ Head(queue) \in Items /\ cancelled \in Nat /\ Reach(Head(queue)) \in Nat
         /\ cancelled <= Reach(Head(queue)) /\ cancelled <= Promptly
<1> DEFINE head == Head(queue)
<1>1. AlertingTypeOK /\ Late /\ QueueShape
  BY DEF IInv
<1>2. /\ head \in Items /\ cancelled \in Nat /\ timer \in Nat /\ started \in Nat
      /\ started <= MaxSend /\ MaxSend \in Nat /\ MaxDelay \in Nat /\ Promptly \in Nat
  BY <1>1, StateFacts, TimeFacts, PromptFacts
<1>3. /\ Before(head) \in Nat /\ Reach(head) \in Nat /\ Before(head) <= Reach(head)
      /\ Reach(head) <= Promptly
  BY <1>2, WayFacts
<1>4. CASE sender = "next"
  <2>1. cancelled <= Before(head)
    BY <1>1, <1>4 DEF Late
  <2> HIDE DEF head
  <2> QED
    BY <1>2, <1>3, <2>1 DEF head
<1>5. CASE sender = "work"
  <2>1. cancelled + timer <= Reach(head)
    BY <1>1, <1>5 DEF Late
  <2> HIDE DEF head
  <2> QED
    BY <1>2, <1>3, <2>1 DEF head
<1>6. CASE Sending(PricingAlert)
  <2>1. cancelled <= Before(head) + started /\ Reach(head) = Before(head) + MaxSend
    BY <1>1, <1>6, WayFacts DEF Late, Sending
  <2> HIDE DEF head
  <2> QED
    BY <1>2, <1>3, <2>1 DEF head
<1>7. CASE Sends /\ head # PricingAlert
  <2>1. head \in Texts \ {PricingAlert}
    BY <1>1, <1>7 DEF QueueShape
  <2>2. Sent(head) \in Nat /\ MaxDelay <= Sent(head) /\ Sent(head) <= Reach(head)
    BY <2>1, WayFacts
  <2>3. cancelled <= Sent(head) \/ cancelled + timer <= MaxDelay
    BY <1>1, <1>7 DEF Late, Sends
  <2> HIDE DEF head
  <2> QED
    BY <1>2, <1>3, <2>2, <2>3 DEF head
<1> QED
  BY <1>1, <1>4, <1>5, <1>6, <1>7 DEF AlertingTypeOK, Sending, Sends

(* The next item, or the end of the handler. *)
LEMMA Advances ==
  ASSUME IInv, sender # "idle", cancelled' = cancelled,
         sender' = Advance, queue' = Tail(queue), started' = 0
  PROVE  /\ sender' \in {"idle", "next"} /\ (sender' = "idle" <=> queue' = <<>>)
         /\ queue' \in Seq(Items)
         /\ SendTime' /\ QueueShape' /\ Late' /\ SentBefore'
<1>1. AlertingTypeOK /\ QueueShape
  BY DEF IInv
<1>2. queue \in Seq(Items) /\ queue # <<>>
  BY <1>1 DEF AlertingTypeOK
<1>3. /\ Head(queue) = queue[1] /\ queue' \in Seq(Items)
      /\ Len(queue) \in Nat /\ Len(queue) >= 1 /\ DOMAIN queue = 1..Len(queue)
      /\ DOMAIN queue' = 1..(Len(queue) - 1)
      /\ \A i \in DOMAIN queue' : i + 1 \in DOMAIN queue /\ queue'[i] = queue[i + 1]
      /\ Len(queue) = 1 <=> queue' = <<>>
      /\ queue' # <<>> => 1 \in DOMAIN queue' /\ Head(queue') = queue'[1]
  BY <1>2, QueueFacts
<1>4. sender' \in {"idle", "next"} /\ (sender' = "idle" <=> queue' = <<>>)
  BY <1>3 DEF Advance
<1>5. ~Sends'
  BY <1>4 DEF Sends
<1>6. SendTime' /\ SentBefore'
  BY <1>4, <1>5 DEF SendTime, SentBefore, Sending, Sends
<1>7. QueueShape'
  <2> SUFFICES ASSUME NEW i \in DOMAIN queue', NEW j \in DOMAIN queue', i < j
               PROVE  Reach(queue'[i]) <= Before(queue'[j])
    BY <1>4, <1>5 DEF QueueShape, Rising
  <2>1. /\ i + 1 \in DOMAIN queue /\ queue'[i] = queue[i + 1]
        /\ j + 1 \in DOMAIN queue /\ queue'[j] = queue[j + 1]
    BY <1>3
  <2>2. i + 1 < j + 1
    BY <1>3
  <2>3. Reach(queue[i + 1]) <= Before(queue[j + 1])
    BY <1>1, <2>1, <2>2 DEF QueueShape, Rising
  <2> QED
    BY <2>1, <2>3
<1>8. Late'
  <2> SUFFICES ASSUME cancelled # No, queue' # <<>>
               PROVE  cancelled <= Before(Head(queue'))
    BY <1>4, <1>5 DEF Late, Sending, Sends
  <2>1. cancelled \in Nat /\ Reach(queue[1]) \in Nat /\ cancelled <= Reach(queue[1])
    BY <1>3, InTime
  <2>2. Head(queue') = queue[2] /\ 2 \in DOMAIN queue /\ 1 \in DOMAIN queue
    BY <1>3
  <2>3. Reach(queue[1]) <= Before(queue[2])
    BY <1>1, <2>2 DEF QueueShape, Rising
  <2>4. queue[2] \in Items
    BY <1>2, <2>2
  <2>5. Before(queue[2]) \in Nat
    BY <2>4, WayFacts
  <2> QED
    BY <2>1, <2>2, <2>3, <2>5
<1> QED
  BY <1>3, <1>4, <1>6, <1>7, <1>8

(* The row of a notification follows its send. *)
LEMMA RowFollows ==
  ASSUME IInv, sender = "post", Head(queue) \in Texts \ Alerts,
         sender' = "work", timer' = WorkTime(Head(queue)), queue' = queue, started' = 0,
         cancelled' = cancelled
  PROVE  /\ queue' # <<>> /\ queue' \in Seq(Items) /\ timer' \in Nat
         /\ SendTime' /\ QueueShape' /\ Late' /\ SentBefore'
<1> DEFINE head == Head(queue)
<1>1. AlertingTypeOK /\ QueueShape /\ Late
  BY DEF IInv
<1>2. /\ head \in Rows /\ WorkTime(head) \in Nat /\ Reach(head) = Before(head) + WorkTime(head)
      /\ Sent(head) = Before(head) /\ head \in Texts /\ head # PricingAlert
  BY WayFacts, TextFacts
<1>3. queue' # <<>> /\ queue' \in Seq(Items)
  BY <1>1 DEF AlertingTypeOK
<1>4. timer' \in Nat /\ timer' <= WorkTime(head)
  BY <1>2
<1>5. SendTime' /\ QueueShape' /\ SentBefore'
  BY <1>1, <1>2, <1>4 DEF SendTime, QueueShape, SentBefore, Sending, Sends
<1>6. Late'
  <2> SUFFICES ASSUME cancelled # No PROVE cancelled + timer' <= Reach(head)
    BY DEF Late, Sending, Sends
  <2>1. cancelled \in Nat /\ Before(head) \in Nat
    BY <1>1, <1>2, StateFacts, WayFacts DEF Items
  <2>2. cancelled <= Before(head)
    BY <1>1, <1>2 DEF Late
  <2> HIDE DEF head
  <2> QED
    BY <1>2, <2>1, <2>2 DEF head
<1> QED
  BY <1>3, <1>4, <1>5, <1>6

LEMMA SuppressStep == IInv /\ Suppress => IInv'
<1> SUFFICES ASSUME IInv, Suppress PROVE IInv'
  OBVIOUS
<1>1. started = 0
  BY DEF IInv, SendTime, Sends, Suppress
<1>2. /\ sender' \in {"idle", "next"} /\ (sender' = "idle" <=> queue' = <<>>)
      /\ queue' \in Seq(Items)
      /\ SendTime' /\ QueueShape' /\ Late' /\ SentBefore'
  BY <1>1, Advances DEF Suppress, sending
<1>3. AlertingTypeOK'
  BY <1>2 DEF IInv, AlertingTypeOK, Suppress, sending
<1>4. Silenced' /\ NotedSince'
  BY DEF IInv, Silenced, NotedSince, Suppress
<1> QED
  BY <1>2, <1>3, <1>4 DEF IInv

(* A send ends: the chat has its text if the sender knows it has.          *)
LEMMA ReturnStep ==
  ASSUME IInv, sender = "post", NEW answered \in BOOLEAN, Return(answered),
         \/ delivered' = [delivered EXCEPT ![Head(queue)] = 0]
         \/ ~answered /\ delivered' = delivered
  PROVE  IInv'
<1> DEFINE head == Head(queue)
<1>1. AlertingTypeOK /\ Silenced /\ NotedSince /\ SentBefore
  BY DEF IInv
<1>2. head \in Texts
  BY DEF IInv, QueueShape, Sends
<1>3. /\ sender' \in {"idle", "next", "work"} /\ (sender' = "idle" <=> queue' = <<>>)
      /\ queue' \in Seq(Items) /\ timer' \in Nat
      /\ SendTime' /\ QueueShape' /\ Late' /\ SentBefore'
  <2>1. CASE head.kind # "notify"
    <3>1. sender' = Advance /\ timer' = 0 /\ queue' = Tail(queue) /\ started' = 0
          /\ cancelled' = cancelled
      BY <2>1 DEF Return
    <3> QED
      BY <3>1, Advances
  <2>2. CASE head.kind = "notify"
    <3>1. /\ sender' = "work" /\ timer' = WorkTime(head) /\ queue' = queue /\ started' = 0
          /\ cancelled' = cancelled
      BY <2>2 DEF Return
    <3>2. head \in Texts \ Alerts /\ head # PricingAlert
      BY <1>2, <2>2, TextFacts
    <3> QED
      BY <3>1, <3>2, RowFollows
  <2> QED
    BY <2>1, <2>2
<1> HIDE DEF head
<1>4. lastSent' = lastSent \/ (answered /\ head.kind = "alert" /\ lastSent' = [lastSent EXCEPT ![head] = started])
  BY DEF Return, Stored, head
<1>5. delivered' = [delivered EXCEPT ![head] = 0] \/ (~answered /\ delivered' = delivered)
  BY DEF head
<1>6. delivered' \in [Texts -> 0..Forgotten]
  BY <1>1, <1>2, <1>5, StateFacts DEF AlertingTypeOK
<1>7. AlertingTypeOK'
  <2>1. started \in 0..Forgotten
    BY <1>1, StateFacts, TimeFacts
  <2>2. lastSent' \in [Alerts -> 0..Forgotten]
    BY <1>1, <1>4, <2>1 DEF AlertingTypeOK
  <2>3. 0 \in 0..MaxSend /\ 0 \in 0..MaxRetries /\ 0 \in Nat
    BY <1>1, StateFacts
  <2> QED
    BY <1>1, <1>3, <1>6, <2>2, <2>3 DEF AlertingTypeOK, Return
<1>8. \A t \in Texts : delivered'[t] <= delivered[t] /\ (t # head => delivered'[t] = delivered[t])
                       /\ (delivered'[t] = delivered[t] \/ (t = head /\ delivered'[t] = 0))
  BY <1>1, <1>2, <1>5, StateFacts DEF AlertingTypeOK
<1>9. Silenced'
  <2> SUFFICES ASSUME NEW a \in Alerts PROVE delivered'[a] <= lastSent'[a]
    BY DEF Silenced
  <2>1. delivered[a] <= lastSent[a] /\ delivered'[a] <= delivered[a] /\ a \in Texts
    BY <1>1, <1>8, TextFacts DEF Silenced
  <2>2. delivered[a] \in Nat /\ delivered'[a] \in 0..Forgotten /\ lastSent[a] \in Nat /\ started \in Nat
    BY <1>1, <1>6, <2>1, StateFacts
  <2>3. CASE a = head /\ answered
    <3>1. delivered'[a] = 0
      BY <1>1, <1>2, <1>5, <2>3 DEF AlertingTypeOK
    <3>2. lastSent'[a] = lastSent[a] \/ lastSent'[a] = started
      BY <1>1, <1>4, <2>3 DEF AlertingTypeOK
    <3> QED
      BY <2>2, <3>1, <3>2
  <2>4. CASE ~(a = head /\ answered)
    <3>1. lastSent'[a] = lastSent[a]
      BY <1>1, <1>4, <2>4 DEF AlertingTypeOK
    <3> QED
      BY <2>1, <2>2, <3>1, TimeFacts
  <2> QED
    BY <2>3, <2>4
<1>10. NotedSince'
  <2> SUFFICES ASSUME NEW s \in Severities
               PROVE  delivered'[Signal(s)] >= lastSignalNotify[s] - MaxSend
    BY DEF NotedSince, Return
  <2>1. Signal(s) \in Texts /\ delivered[Signal(s)] >= lastSignalNotify[s] - MaxSend
    BY <1>1, TextFacts DEF NotedSince
  <2>2. CASE delivered'[Signal(s)] = delivered[Signal(s)]
    BY <2>1, <2>2
  <2>3. CASE Signal(s) = head /\ delivered'[Signal(s)] = 0
    <3>1. lastSignalNotify[s] = started
      BY <1>1, <2>3 DEF SentBefore, Sending, Sends, head
    <3>2. started \in Nat /\ started <= MaxSend /\ MaxSend \in Nat
      BY <1>1, StateFacts, TimeFacts
    <3> QED
      BY <2>3, <3>1, <3>2
  <2> QED
    BY <1>8, <2>1, <2>2, <2>3
<1> QED
  BY <1>3, <1>7, <1>9, <1>10 DEF IInv

LEMMA BeginStep == IInv /\ Begin => IInv'
<1> SUFFICES ASSUME IInv, Begin PROVE IInv'
  OBVIOUS
<1> DEFINE head == Head(queue)
<1>1. AlertingTypeOK /\ Silenced /\ NotedSince /\ Late /\ QueueShape
  BY DEF IInv
<1>2. head \in Texts /\ head \in Items
  BY DEF Begin, Items
<1>3. /\ MaxSend \in Nat /\ MaxDelay \in Nat /\ Forgotten \in Nat /\ Timeout \in Nat
      /\ NotifyCooldown \in Nat
  BY TimeFacts, Constants
<1>4. 0 \in 0..Forgotten /\ 0 \in 0..MaxSend /\ 0 \in 0..MaxRetries
  BY <1>1, StateFacts
<1>5. AlertingTypeOK'
  <2>1. lastSignalNotify' \in [Severities -> 0..Forgotten]
    BY <1>1, <1>4 DEF AlertingTypeOK, Begin
  <2> QED
    BY <1>1, <1>3, <1>4, <2>1 DEF AlertingTypeOK, Begin
<1>6. SendTime'
  <2>1. Budget(0) = 0
    BY BudgetFacts
  <2>2. Sends' /\ sender' = "post" /\ timer' = Timeout /\ started' = 0 /\ attempt' = 0
    BY DEF Begin, Sends
  <2> QED
    BY <1>3, <2>1, <2>2 DEF SendTime
<1>7. QueueShape' /\ Silenced'
  BY <1>1, <1>2 DEF QueueShape, Silenced, Begin, Sends
<1>8. Late'
  <2> SUFFICES ASSUME cancelled # No
               PROVE  /\ head = PricingAlert => cancelled <= Before(PricingAlert) + 0
                      /\ head # PricingAlert => cancelled <= Sent(head)
    BY DEF Late, Sending, Sends, Begin
  <2>1. cancelled \in Nat /\ Before(head) \in Nat
    BY <1>1, <1>2, StateFacts, WayFacts
  <2>2. cancelled <= Before(head)
    BY <1>1 DEF Late, Begin
  <2>3. head # PricingAlert => Sent(head) \in Nat /\ Before(head) <= Sent(head)
    BY <1>2, WayFacts
  <2> QED
    BY <2>1, <2>2, <2>3
<1>9. \A s \in Severities : \/ lastSignalNotify'[s] = lastSignalNotify[s]
                            \/ lastSignalNotify'[s] = 0
  BY <1>1 DEF AlertingTypeOK, Begin
<1>10. NotedSince'
  <2> SUFFICES ASSUME NEW s \in Severities
               PROVE  delivered[Signal(s)] >= lastSignalNotify'[s] - MaxSend
    BY DEF NotedSince, Begin
  <2>1. delivered[Signal(s)] \in Nat /\ delivered[Signal(s)] >= lastSignalNotify[s] - MaxSend
    BY <1>1, TextFacts, StateFacts DEF NotedSince
  <2> QED
    BY <1>3, <1>9, <2>1
<1>11. SentBefore'
  <2> SUFFICES ASSUME NEW s \in Severities, head = Signal(s)
               PROVE  /\ lastSignalNotify'[s] = 0
                      /\ delivered[Signal(s)] >= NotifyCooldown - MaxSend
    BY DEF SentBefore, Sending, Begin
  <2>1. head.kind = "notify" /\ head.key = s
    BY TextFacts
  <2>2. lastSignalNotify'[s] = 0
    BY <1>1, <2>1 DEF AlertingTypeOK, Begin
  <2>3. ~(lastSignalNotify[s] < NotifyCooldown)
    BY <2>1 DEF Begin, Suppressed
  <2>4. /\ delivered[Signal(s)] \in Nat /\ lastSignalNotify[s] \in Nat
        /\ delivered[Signal(s)] >= lastSignalNotify[s] - MaxSend
    BY <1>1, TextFacts, StateFacts DEF NotedSince
  <2> QED
    BY <1>3, <2>2, <2>3, <2>4
<1> QED
  BY <1>5, <1>6, <1>7, <1>8, <1>10, <1>11 DEF IInv

(* A status asks for a retry: a sleep follows, unless the context was      *)
(* cancelled and the text is not the pricing alert.                        *)
LEMMA BusyStep == IInv /\ Busy => IInv'
<1> SUFFICES ASSUME IInv, Busy PROVE IInv'
  OBVIOUS
<1> DEFINE head == Head(queue)
<1>1. /\ AlertingTypeOK /\ SendTime /\ Silenced /\ NotedSince /\ SentBefore /\ Late /\ QueueShape
      /\ sender = "post" /\ sender' = "sleep" /\ attempt < MaxRetries
      /\ UNCHANGED <<cancelled, queue, started, attempt, lastSent, lastSignalNotify, signals>>
  BY DEF IInv, Busy, MayRetry
<1>2. head \in Texts
  BY <1>1 DEF QueueShape, Sends
<1> HIDE DEF head
<1>3. /\ MaxSend \in Nat /\ MaxDelay \in Nat /\ Forgotten \in Nat /\ Timeout \in Nat
      /\ MaxRetries \in Nat /\ RetryAfter \in Nat
      /\ MaxDelay >= RetryAfter /\ MaxDelay >= MaxRetries
  BY TimeFacts, Constants, DelayFacts
<1>4. /\ started \in Nat /\ started <= MaxSend /\ attempt \in Nat /\ timer \in Nat
      /\ \A t \in Texts : delivered[t] \in Nat
      /\ cancelled # No => cancelled \in Nat
  BY <1>1, StateFacts
<1>5. delivered' = delivered \/ delivered' = [delivered EXCEPT ![head] = 0]
  BY DEF Busy, head
<1>6. timer' \in Nat /\ timer' <= MaxDelay
  <2>1. timer' \in 0..RetryAfter \/ timer' = attempt + 1
    BY DEF Busy
  <2> QED
    BY <1>1, <1>3, <1>4, <2>1
<1>7. delivered' \in [Texts -> 0..Forgotten]
  <2>1. 0 \in 0..Forgotten
    BY <1>3
  <2> QED
    BY <1>1, <1>2, <1>5, <2>1 DEF AlertingTypeOK
<1>8. \A t \in Texts : delivered'[t] = delivered[t] \/ (t = head /\ delivered'[t] = 0)
  BY <1>1, <1>2, <1>5 DEF AlertingTypeOK
<1>9. AlertingTypeOK'
  BY <1>1, <1>6, <1>7 DEF AlertingTypeOK
<1>10. SendTime'
  <2>1. Budget(attempt) \in Nat
    BY <1>4, BudgetFacts
  <2>2. started + timer <= Budget(attempt) + Timeout
    BY <1>1 DEF SendTime
  <2>3. started + timer' <= Budget(attempt) + Timeout + MaxDelay
    BY <1>3, <1>4, <1>6, <2>1, <2>2
  <2> QED
    BY <1>1, <1>6, <2>3 DEF SendTime, Sends
<1>11. QueueShape'
  BY <1>1 DEF QueueShape, Sends
<1>12. Late'
  <2>1. cancelled # No => head = PricingAlert
    BY DEF Busy, Cancelled, head
  <2>2. cancelled # No => cancelled <= Before(PricingAlert) + started
    BY <1>1, <2>1 DEF Late, Sending, Sends, head
  <2> QED
    BY <1>1, <2>1, <2>2 DEF Late, Sending, Sends, head
<1>13. Silenced'
  <2> SUFFICES ASSUME NEW a \in Alerts PROVE delivered'[a] <= lastSent[a]
    BY <1>1 DEF Silenced
  <2>1. delivered[a] <= lastSent[a] /\ lastSent[a] \in Nat /\ a \in Texts
    BY <1>1, StateFacts, TextFacts DEF Silenced
  <2> QED
    BY <1>8, <2>1
<1>14. NotedSince'
  <2> SUFFICES ASSUME NEW s \in Severities
               PROVE  delivered'[Signal(s)] >= lastSignalNotify[s] - MaxSend
    BY <1>1 DEF NotedSince
  <2>1. Signal(s) \in Texts /\ delivered[Signal(s)] >= lastSignalNotify[s] - MaxSend
    BY <1>1, TextFacts DEF NotedSince
  <2>2. Signal(s) = head => lastSignalNotify[s] = started
    BY <1>1 DEF SentBefore, Sending, Sends, head
  <2> QED
    BY <1>3, <1>4, <1>8, <2>1, <2>2
<1>15. SentBefore'
  <2> SUFFICES ASSUME NEW s \in Severities, head = Signal(s)
               PROVE  /\ lastSignalNotify[s] = started
                      /\ \/ delivered'[Signal(s)] >= NotifyCooldown - MaxSend
                         \/ delivered'[Signal(s)] <= started
    BY <1>1 DEF SentBefore, Sending, Sends, head
  <2>1. /\ Signal(s) \in Texts /\ lastSignalNotify[s] = started
        /\ \/ delivered[Signal(s)] >= NotifyCooldown - MaxSend
           \/ delivered[Signal(s)] <= started
    BY <1>1, TextFacts DEF SentBefore, Sending, Sends, head
  <2> QED
    BY <1>4, <1>8, <2>1
<1> QED
  BY <1>9, <1>10, <1>11, <1>12, <1>13, <1>14, <1>15 DEF IInv

LEMMA WakeStep == IInv /\ Wake => IInv'
<1> SUFFICES ASSUME IInv, Wake PROVE IInv'
  OBVIOUS
<1>1. /\ AlertingTypeOK /\ SendTime /\ Silenced /\ NotedSince /\ SentBefore /\ Late /\ QueueShape
      /\ sender = "sleep" /\ sender' = "post" /\ timer = 0 /\ timer' = Timeout /\ attempt' = attempt + 1
      /\ UNCHANGED <<cancelled, queue, started, lastSent, lastSignalNotify, signals, delivered>>
  BY DEF IInv, Wake
<1>2. /\ started \in Nat /\ attempt \in Nat /\ attempt < MaxRetries /\ MaxRetries \in Nat
      /\ Timeout \in Nat /\ MaxDelay \in Nat
      /\ cancelled # No => cancelled \in Nat
  BY <1>1, StateFacts, Constants, TimeFacts DEF SendTime
<1>3. AlertingTypeOK'
  <2>1. attempt + 1 \in 0..MaxRetries
    BY <1>2
  <2> QED
    BY <1>1, <1>2, <2>1 DEF AlertingTypeOK
<1>4. SendTime'
  <2>1. Budget(attempt) \in Nat /\ Budget(attempt + 1) = Budget(attempt) + Timeout + MaxDelay
    BY <1>2, BudgetFacts
  <2>2. started + 0 <= Budget(attempt) + Timeout + MaxDelay
    BY <1>1 DEF SendTime
  <2>3. started + Timeout <= Budget(attempt + 1) + Timeout
    BY <1>2, <2>1, <2>2
  <2> QED
    BY <1>1, <1>2, <2>3 DEF SendTime, Sends
<1>5. QueueShape' /\ Silenced' /\ NotedSince'
  BY <1>1 DEF QueueShape, Silenced, NotedSince, Sends
<1>6. Late'
  <2> DEFINE head == Head(queue)
  <2> SUFFICES ASSUME cancelled # No
               PROVE  /\ head = PricingAlert => cancelled <= Before(PricingAlert) + started
                      /\ head # PricingAlert => cancelled <= Sent(head)
    BY <1>1 DEF Late, Sending, Sends
  <2>1. head = PricingAlert => cancelled <= Before(PricingAlert) + started
    BY <1>1 DEF Late, Sending, Sends
  <2>2. ASSUME head # PricingAlert PROVE cancelled <= Sent(head)
    <3>1. head \in Texts \ {PricingAlert}
      BY <1>1, <2>2 DEF QueueShape, Sends
    <3>2. Sent(head) \in Nat /\ MaxDelay <= Sent(head)
      BY <3>1, WayFacts
    <3>3. cancelled + 0 <= MaxDelay
      BY <1>1, <2>2 DEF Late
    <3> HIDE DEF head
    <3> QED
      BY <1>2, <3>2, <3>3
  <2> QED
    BY <2>1, <2>2
<1>7. SentBefore'
  <2>1. attempt' > 0
    BY <1>1, <1>2
  <2> QED
    BY <1>1, <2>1 DEF SentBefore, Sending, Sends
<1> QED
  BY <1>3, <1>4, <1>5, <1>6, <1>7 DEF IInv

LEMMA PostOrderStep == IInv /\ PostOrder => IInv'
<1> SUFFICES ASSUME IInv, PostOrder PROVE IInv'
  OBVIOUS
<1>1. started = 0
  BY DEF IInv, SendTime, Sends, PostOrder
<1>2. /\ sender' \in {"idle", "next"} /\ (sender' = "idle" <=> queue' = <<>>)
      /\ queue' \in Seq(Items)
      /\ SendTime' /\ QueueShape' /\ Late' /\ SentBefore'
  BY <1>1, Advances DEF PostOrder, sending
<1>3. AlertingTypeOK'
  BY <1>2 DEF IInv, AlertingTypeOK, PostOrder, sending
<1>4. Silenced' /\ NotedSince'
  BY DEF IInv, Silenced, NotedSince, PostOrder
<1> QED
  BY <1>2, <1>3, <1>4 DEF IInv

LEMMA BeginWorkStep == IInv /\ BeginWork => IInv'
<1> SUFFICES ASSUME IInv, BeginWork PROVE IInv'
  OBVIOUS
<1> DEFINE head == Head(queue)
<1>1. /\ AlertingTypeOK /\ SendTime /\ QueueShape /\ Late /\ Silenced /\ NotedSince
      /\ sender = "next" /\ sender' = "work" /\ head \in Works /\ timer' = WorkTime(head)
      /\ UNCHANGED <<cancelled, queue, started, attempt, lastSent, lastSignalNotify, signals,
                     delivered>>
  BY DEF IInv, BeginWork
<1> HIDE DEF head
<1>2. /\ head \in Items /\ WorkTime(head) \in Nat /\ Before(head) \in Nat
      /\ Reach(head) = Before(head) + WorkTime(head)
  <2>1. head \in Items /\ head \in Rows
    BY <1>1 DEF Items, Rows
  <2> QED
    BY <1>1, <2>1, WayFacts
<1>3. AlertingTypeOK'
  BY <1>1, <1>2 DEF AlertingTypeOK
<1>4. SendTime'
  <2>1. started = 0
    BY <1>1 DEF SendTime, Sends
  <2>2. timer' <= WorkTime(head)
    BY <1>1, <1>2
  <2> QED
    BY <1>1, <2>1, <2>2 DEF SendTime, Sends, head
<1>5. QueueShape' /\ Silenced' /\ NotedSince' /\ SentBefore'
  BY <1>1 DEF QueueShape, Silenced, NotedSince, SentBefore, Sending, Sends, Rows, head
<1>6. Late'
  <2> SUFFICES ASSUME cancelled # No PROVE cancelled + timer' <= Reach(head)
    BY <1>1 DEF Late, Sending, Sends, head
  <2>1. cancelled \in Nat
    BY <1>1, StateFacts
  <2>2. cancelled <= Before(head)
    BY <1>1 DEF Late, head
  <2> QED
    BY <1>1, <1>2, <2>1, <2>2
<1> QED
  BY <1>3, <1>4, <1>5, <1>6 DEF IInv

LEMMA EndWorkStep == IInv /\ EndWork => IInv'
<1> SUFFICES ASSUME IInv, EndWork PROVE IInv'
  OBVIOUS
<1>1. started = 0 /\ started' = started
  BY DEF IInv, SendTime, Sends, EndWork
<1>2. /\ sender' \in {"idle", "next"} /\ (sender' = "idle" <=> queue' = <<>>)
      /\ queue' \in Seq(Items)
      /\ SendTime' /\ QueueShape' /\ Late' /\ SentBefore'
  BY <1>1, Advances DEF EndWork
<1>3. AlertingTypeOK'
  BY <1>2 DEF IInv, AlertingTypeOK, EndWork
<1>4. Silenced' /\ NotedSince'
  BY DEF IInv, Silenced, NotedSince, EndWork
<1> QED
  BY <1>2, <1>3, <1>4 DEF IInv

LEMMA CancelStep == IInv /\ Cancel => IInv'
<1> SUFFICES ASSUME IInv, Cancel PROVE IInv'
  OBVIOUS
<1>1. /\ AlertingTypeOK /\ SendTime /\ QueueShape /\ cancelled' = 0
      /\ UNCHANGED <<sender, queue, sending, lastSent, lastSignalNotify, signals, delivered>>
  BY DEF IInv, Cancel
<1>2. started \in Nat /\ timer \in Nat /\ 0 \in 0..(Promptly + 1)
  BY <1>1, StateFacts
<1>3. AlertingTypeOK'
  BY <1>1, <1>2 DEF AlertingTypeOK, sending
<1>4. SendTime' /\ QueueShape' /\ Silenced' /\ NotedSince' /\ SentBefore'
  BY DEF IInv, SendTime, QueueShape, Silenced, NotedSince, SentBefore, Sending, Sends, Cancel, sending
<1>5. Late'
  <2> DEFINE head == Head(queue)
  <2> SUFFICES ASSUME sender # "idle" PROVE Late'
    BY <1>1 DEF Late
  <2>1. head \in Items
    BY <1>1, StateFacts
  <2>2. Before(head) \in Nat /\ Reach(head) \in Nat
    BY <2>1, WayFacts
  <2>3. sender = "work" => 0 + timer <= Reach(head)
    <3> SUFFICES ASSUME sender = "work" PROVE 0 + timer <= Reach(head)
      OBVIOUS
    <3>1. timer <= WorkTime(head) /\ head \in Rows
      BY <1>1 DEF SendTime, QueueShape
    <3>2. WorkTime(head) \in Nat /\ Reach(head) = Before(head) + WorkTime(head)
      BY <3>1, WayFacts
    <3> HIDE DEF head
    <3> QED
      BY <1>2, <2>2, <3>1, <3>2
  <2>4. head = PricingAlert => 0 <= Before(PricingAlert) + started
    BY <1>2, <2>2
  <2>5. sender = "sleep" => 0 + timer <= MaxDelay
    BY <1>1, <1>2 DEF SendTime
  <2>6. 0 <= Before(head)
    BY <2>2
  <2>7. sender = "post" /\ head # PricingAlert => 0 <= Sent(head)
    <3> SUFFICES ASSUME sender = "post", head # PricingAlert PROVE 0 <= Sent(head)
      OBVIOUS
    <3>1. head \in Texts \ {PricingAlert}
      BY <1>1 DEF QueueShape, Sends
    <3>2. Sent(head) \in Nat
      BY <3>1, WayFacts
    <3> QED
      BY <3>2
  <2> QED
    BY <1>1, <2>3, <2>4, <2>5, <2>6, <2>7 DEF Late, Sending, sending
<1> QED
  BY <1>3, <1>4, <1>5 DEF IInv

(* Everything grows older together.                                        *)
LEMMA TimeStep == IInv /\ TimePasses => IInv'
<1> SUFFICES ASSUME IInv, TimePasses PROVE IInv'
  OBVIOUS
<1>1. /\ AlertingTypeOK /\ SendTime /\ Silenced /\ NotedSince /\ SentBefore /\ Late /\ QueueShape
      /\ UNCHANGED <<sender, queue, attempt, signals>>
  BY DEF IInv, TimePasses
<1>2. /\ MaxSend \in Nat /\ MaxDelay \in Nat /\ Forgotten \in Nat /\ Timeout \in Nat
      /\ MaxRetries \in Nat /\ Promptly \in Nat
  BY TimeFacts, PromptFacts, Constants
<1>3. /\ started \in Nat /\ started <= MaxSend /\ started < Forgotten /\ attempt \in Nat
      /\ attempt <= MaxRetries /\ timer \in Nat
      /\ cancelled # No => cancelled \in Nat /\ cancelled <= Promptly + 1
  BY <1>1, StateFacts
<1>4. /\ \A a \in Alerts : lastSent[a] \in 0..Forgotten /\ lastSent'[a] = Older(lastSent[a])
      /\ \A s \in Severities : /\ lastSignalNotify[s] \in 0..Forgotten
                               /\ lastSignalNotify'[s] = Older(lastSignalNotify[s])
      /\ \A t \in Texts : delivered[t] \in 0..Forgotten /\ delivered'[t] = Older(delivered[t])
  BY <1>1, StateFacts DEF TimePasses
<1>5. /\ cancelled' = cancelled \/ cancelled' = Later(cancelled)
      /\ cancelled = No => cancelled' = No
  BY DEF TimePasses
<1>6. Older(started) = started + 1
  BY <1>3 DEF Older
<1>7. \/ /\ sender = "idle" \/ (sender = "next" /\ cancelled = No)
         /\ started' = started /\ timer' = timer
      \/ /\ sender = "work" \/ sender = "sleep" \/ (sender = "post" /\ ~Cancelled)
         /\ timer > 0 /\ timer' = timer - 1
         /\ started' = (IF sender = "work" THEN started ELSE started + 1)
  BY <1>6 DEF TimePasses
<1>8. started' \in Nat /\ timer' \in Nat /\ (Sends => started' + timer' = started + timer)
  BY <1>3, <1>7 DEF Sends
<1>9. SendTime'
  <2>1. sender = "post" => timer' <= Timeout /\ started' + timer' <= Budget(attempt) + Timeout
    BY <1>1, <1>2, <1>3, <1>7, <1>8 DEF SendTime, Sends
  <2>2. sender = "sleep" => /\ timer' <= MaxDelay
                            /\ started' + timer' <= Budget(attempt) + Timeout + MaxDelay
    BY <1>1, <1>2, <1>3, <1>7, <1>8 DEF SendTime, Sends
  <2>3. ~Sends => started' = 0
    BY <1>1, <1>7 DEF SendTime, Sends
  <2>4. sender = "work" => timer' <= WorkTime(Head(queue))
    <3> SUFFICES ASSUME sender = "work" PROVE timer' <= WorkTime(Head(queue))
      OBVIOUS
    <3>1. WorkTime(Head(queue)) \in Nat /\ timer <= WorkTime(Head(queue))
      BY <1>1, WayFacts DEF SendTime, QueueShape
    <3> QED
      BY <1>3, <1>7, <3>1
  <2> QED
    BY <1>1, <2>1, <2>2, <2>3, <2>4 DEF SendTime, Sends
<1>10. started' <= MaxSend
  <2>1. CASE sender = "post"
    <3>1. Budget(attempt) \in Nat /\ Budget(attempt) + Timeout <= MaxSend
      BY <1>3, BudgetFacts
    <3>2. started' + timer' <= Budget(attempt) + Timeout
      BY <1>1, <1>9, <2>1 DEF SendTime
    <3> QED
      BY <1>2, <1>8, <3>1, <3>2
  <2>2. CASE sender = "sleep"
    <3>1. Budget(attempt) \in Nat /\ Budget(attempt) + Timeout + MaxDelay <= MaxSend
      BY <1>1, <1>3, <2>2, BudgetFacts DEF SendTime
    <3>2. started' + timer' <= Budget(attempt) + Timeout + MaxDelay
      BY <1>1, <1>9, <2>2 DEF SendTime
    <3> QED
      BY <1>2, <1>8, <3>1, <3>2
  <2>3. CASE ~Sends
    <3>1. started' = 0
      BY <1>1, <1>9, <2>3 DEF SendTime, Sends
    <3> QED
      BY <1>2, <3>1
  <2> QED
    BY <2>1, <2>2, <2>3 DEF Sends
<1>11. AlertingTypeOK'
  <2>1. started' \in 0..MaxSend
    BY <1>2, <1>8, <1>10
  <2>2. cancelled' \in {No} \cup 0..(Promptly + 1)
    <3>1. CASE cancelled = No
      BY <1>5, <3>1
    <3>2. CASE cancelled # No
      <4>1. cancelled \in 0..(Promptly + 1)
        BY <1>2, <1>3, <3>2
      <4>2. Later(cancelled) \in 0..(Promptly + 1)
        BY <1>2, <4>1 DEF Later
      <4> QED
        BY <1>5, <4>1, <4>2
    <3> QED
      BY <3>1, <3>2
  <2>3. lastSent' \in [Alerts -> 0..Forgotten]
    BY <1>4, AgeFacts DEF TimePasses
  <2>4. lastSignalNotify' \in [Severities -> 0..Forgotten]
    BY <1>4, AgeFacts DEF TimePasses
  <2>5. delivered' \in [Texts -> 0..Forgotten]
    BY <1>4, AgeFacts DEF TimePasses
  <2> QED
    BY <1>1, <1>8, <2>1, <2>2, <2>3, <2>4, <2>5 DEF AlertingTypeOK
<1>12. QueueShape'
  BY <1>1 DEF QueueShape, Sends
<1>13. Late'
  <2> DEFINE head == Head(queue)
  <2> SUFFICES ASSUME cancelled # No, sender # "idle" PROVE Late'
    BY <1>1, <1>5 DEF Late
  <2>1. head \in Items /\ cancelled \in Nat /\ Reach(head) \in Nat /\ cancelled <= Promptly
    BY <1>1, InTime
  <2>2. cancelled' = cancelled \/ cancelled' = cancelled + 1
    BY <1>5 DEF Later
  <2>3. sender' = sender /\ queue' = queue /\ sender # "next"
    BY <1>1, <1>7
  <2>4. CASE sender = "work"
    <3>1. cancelled + timer <= Reach(head) /\ timer' = timer - 1 /\ timer > 0
      BY <1>1, <1>7, <2>4 DEF Late
    <3> HIDE DEF head
    <3>2. cancelled' + timer' <= Reach(head)
      <4>1. PICK c \in Nat : c = cancelled
        BY <2>1
      <4>2. PICK rest \in Nat : rest = timer' /\ timer = rest + 1
        BY <1>3, <1>8, <3>1
      <4>3. PICK limit \in Nat : limit = Reach(head) /\ c + (rest + 1) <= limit
        BY <2>1, <3>1, <4>1, <4>2
      <4>4. PICK late \in Nat : late = cancelled' /\ late <= c + 1
        BY <2>2, <4>1
      <4>5. late <= c + 1 /\ c + (rest + 1) <= limit
        BY <4>3, <4>4
      <4>6. late + rest <= limit
        BY <4>5
      <4> QED
        BY <4>2, <4>3, <4>4, <4>6
    <3> QED
      BY <2>3, <2>4, <3>2 DEF Late, Sending, Sends, head
  <2>5. CASE Sends /\ head = PricingAlert
    <3>1. cancelled <= Before(PricingAlert) + started /\ started' = started + 1
      BY <1>1, <1>7, <2>5 DEF Late, Sending, Sends
    <3>2. PICK b \in Nat : b = Before(PricingAlert)
      BY <2>1, <2>5, WayFacts
    <3>3. PICK c \in Nat : c = cancelled /\ c <= b + started
      BY <2>1, <3>1, <3>2
    <3>4. PICK late \in Nat : late = cancelled' /\ late <= c + 1
      BY <2>2, <3>3
    <3>5. late <= b + started'
      BY <1>3, <3>1, <3>3, <3>4
    <3>6. cancelled' <= Before(PricingAlert) + started'
      BY <3>2, <3>4, <3>5
    <3> QED
      BY <2>3, <2>5, <3>6 DEF Late, Sending, Sends
  <2>6. CASE Sends /\ head # PricingAlert
    <3>1. sender = "sleep"
      BY <1>7, <2>6 DEF Cancelled, Sends
    <3>2. cancelled + timer <= MaxDelay /\ timer' = timer - 1 /\ timer > 0
      BY <1>1, <1>7, <2>6, <3>1 DEF Late
    <3> HIDE DEF head
    <3>3. cancelled' + timer' <= MaxDelay
      <4>1. PICK c \in Nat : c = cancelled
        BY <2>1
      <4>2. PICK rest \in Nat : rest = timer' /\ timer = rest + 1
        BY <1>3, <1>8, <3>2
      <4>3. PICK limit \in Nat : limit = MaxDelay /\ c + (rest + 1) <= limit
        BY <1>2, <3>2, <4>1, <4>2
      <4>4. PICK late \in Nat : late = cancelled' /\ late <= c + 1
        BY <2>2, <4>1
      <4>5. late <= c + 1 /\ c + (rest + 1) <= limit
        BY <4>3, <4>4
      <4>6. late + rest <= limit
        BY <4>5
      <4> QED
        BY <4>2, <4>3, <4>4, <4>6
    <3> QED
      BY <2>3, <2>6, <3>1, <3>3 DEF Late, Sending, Sends, head
  <2> QED
    BY <1>1, <2>3, <2>4, <2>5, <2>6 DEF AlertingTypeOK, Sends
<1>14. Silenced'
  <2> SUFFICES ASSUME NEW a \in Alerts PROVE delivered'[a] <= lastSent'[a]
    BY DEF Silenced
  <2>1. delivered[a] <= lastSent[a] /\ a \in Texts
    BY <1>1, TextFacts DEF Silenced
  <2> QED
    BY <1>4, <2>1, AgesInOrder
<1>15. NotedSince'
  <2> SUFFICES ASSUME NEW s \in Severities
               PROVE  delivered'[Signal(s)] >= lastSignalNotify'[s] - MaxSend
    BY DEF NotedSince
  <2> DEFINE d == delivered[Signal(s)]
             n == lastSignalNotify[s]
  <2>1. d >= n - MaxSend /\ d \in 0..Forgotten /\ n \in 0..Forgotten
        /\ delivered'[Signal(s)] = Older(d) /\ lastSignalNotify'[s] = Older(n)
    BY <1>1, <1>4, TextFacts DEF NotedSince
  <2> HIDE DEF d, n
  <2>2. Older(d) >= Older(n) - MaxSend
    BY <1>2, <2>1 DEF Older
  <2> QED
    BY <2>1, <2>2
<1>16. SentBefore'
  <2> SUFFICES ASSUME NEW s \in Severities, Sending(Signal(s))
               PROVE  /\ lastSignalNotify'[s] = started'
                      /\ \/ delivered'[Signal(s)] >= NotifyCooldown - MaxSend
                         \/ delivered'[Signal(s)] <= started' /\ (sender = "sleep" \/ attempt > 0)
    BY <1>1 DEF SentBefore, Sending, Sends
  <2> DEFINE d == delivered[Signal(s)]
  <2>1. /\ lastSignalNotify[s] = started
        /\ \/ d >= NotifyCooldown - MaxSend
           \/ d <= started /\ (sender = "sleep" \/ attempt > 0)
    BY <1>1 DEF SentBefore
  <2>2. d \in 0..Forgotten /\ delivered'[Signal(s)] = Older(d) /\ lastSignalNotify'[s] = Older(started)
    BY <1>4, <2>1, TextFacts
  <2> HIDE DEF d
  <2>3. Older(d) >= d /\ Older(d) <= d + 1 /\ Older(d) \in Nat
    BY <2>2, AgeFacts
  <2>4. started' = started + 1
    BY <1>7 DEF Sending, Sends
  <2>5. d >= NotifyCooldown - MaxSend => Older(d) >= NotifyCooldown - MaxSend
    BY <1>2, <2>2, <2>3, Constants
  <2>6. d <= started => Older(d) <= started'
    BY <1>3, <2>2, <2>3, <2>4
  <2> QED
    BY <1>6, <2>1, <2>2, <2>4, <2>5, <2>6
<1> QED
  BY <1>9, <1>11, <1>12, <1>13, <1>14, <1>15, <1>16 DEF IInv

-----------------------------------------------------------------------------
(* The theorems. *)

LEMMA AlertStep == IInv /\ [AlertingNext]_alertingVars => IInv'
<1> SUFFICES ASSUME IInv, [AlertingNext]_alertingVars PROVE IInv'
  OBVIOUS
<1>1. CASE StreamError
  <2>1. signals \in 0..MaxSignals
    BY DEF IInv, AlertingTypeOK
  <2>2. StreamAlert \in Items
    BY TextFacts DEF Items
  <2>3. /\ <<StreamAlert>> \in Seq(Items) /\ <<StreamAlert>> # <<>>
        /\ DOMAIN <<StreamAlert>> = 1..1
    BY <2>2
  <2>4. Rising(<<StreamAlert>>)
    BY <2>3 DEF Rising
  <2> QED
    BY <1>1, <2>1, <2>3, <2>4, HandlerStarts DEF StreamError
<1>2. ASSUME NEW spread \in Spreads, NEW confidence \in Confidences, HandleSignal(spread, confidence)
      PROVE  IInv'
  <2> DEFINE severity == Severity(spread, confidence)
             severe == Rank[severity] >= Rank[MinSeverity]
  <2>1. severity \in Severities
    BY DEF Severity, Severities
  <2>2. signals' \in 0..MaxSignals
    BY <1>2, Constants DEF HandleSignal, IInv, AlertingTypeOK
  <2>3. PICK execute \in BOOLEAN, book \in BOOLEAN, nonce \in BOOLEAN, fallback \in BOOLEAN :
          queue' = Handler(severity, severe, execute, book, nonce, fallback)
    BY <1>2 DEF HandleSignal
  <2>4. severe \in BOOLEAN
    OBVIOUS
  <2>5. /\ sender = "idle" /\ sender' = "next" /\ (cancelled' = No \/ cancelled' = 0)
        /\ UNCHANGED <<sending, lastSent, lastSignalNotify, delivered>>
    BY <1>2 DEF HandleSignal
  <2> HIDE DEF severity, severe
  <2>6. queue' \in Seq(Items) /\ Rising(queue') /\ queue' # <<>>
    BY <2>1, <2>3, <2>4, HandlersQueue
  <2> QED
    BY <2>2, <2>5, <2>6, HandlerStarts
<1>3. ASSUME NEW answered \in BOOLEAN, Delivers(answered) PROVE IInv'
  BY <1>3, ReturnStep DEF Delivers
<1>4. CASE Refused
  BY <1>4, ReturnStep DEF Refused
<1>5. CASE StillBusy
  <2>1. /\ sender = "post" /\ Return(FALSE)
        /\ delivered' = delivered \/ delivered' = [delivered EXCEPT ![Head(queue)] = 0]
    BY <1>5 DEF StillBusy
  <2> QED
    BY <2>1, ReturnStep
<1> QED
  BY <1>1, <1>2, <1>3, <1>4, <1>5, SuppressStep, BeginStep, BusyStep, WakeStep, PostOrderStep,
     BeginWorkStep, EndWorkStep, TimeStep, CancelStep, Stutter DEF AlertingNext, Step

(* Every variable has its type: a send makes at most MaxRetries + 1        *)
(* requests and ends within MaxSend, for any timeout and waiting times.    *)
THEOREM AlertingTypeCorrect == AlertingSpec => []AlertingTypeOK
<1>1. IInv => AlertingTypeOK
  BY DEF IInv
<1> QED
  BY <1>1, Initially, AlertStep, PTL DEF AlertingSpec

(* Once the context is cancelled a handler runs, up to the row of its      *)
(* order, no longer than one sleep or row that was under way and, after    *)
(* it, the book, four database calls and the fallback alert: for any       *)
(* timeouts and any time that a database call takes.                       *)
THEOREM CancellationsArePrompt == AlertingSpec => []CancelIsPrompt
<1>1. IInv => CancelIsPrompt
  BY InTime DEF CancelIsPrompt
<1> QED
  BY <1>1, Initially, AlertStep, PTL DEF AlertingSpec

(* An alert is held back only when one of its rate key reached the chat    *)
(* within the cooldown, for any cooldown and however sends before failed.  *)
THEOREM FailedAlertsDoNotSilence == AlertingSpec => OnlyDeliveredAlertsSilence
<1> DEFINE A == Suppress /\ Head(queue).kind = "alert" => delivered[Head(queue)] < AlertCooldown
<1>1. IInv /\ [AlertingNext]_alertingVars => [A]_alertingVars
  <2> SUFFICES ASSUME IInv, Suppress, Head(queue).kind = "alert"
               PROVE  delivered[Head(queue)] < AlertCooldown
    OBVIOUS
  <2>1. Head(queue) \in Texts
    BY DEF Suppress
  <2>2. Head(queue) \in Alerts
    BY <2>1, TextFacts
  <2>3. delivered[Head(queue)] <= lastSent[Head(queue)] /\ lastSent[Head(queue)] < AlertCooldown
    BY <2>2 DEF IInv, Silenced, Suppress, Suppressed
  <2>4. /\ delivered[Head(queue)] \in Nat /\ lastSent[Head(queue)] \in Nat /\ AlertCooldown \in Nat
    BY <2>1, <2>2, StateFacts, Constants DEF IInv
  <2> QED
    BY <2>3, <2>4
<1> QED
  BY <1>1, Initially, AlertStep, PTL DEF AlertingSpec, OnlyDeliveredAlertsSilence

(* Who delivers a notification is sending it. *)
LEMMA OnlySent ==
  ASSUME IInv, AlertingNext, NEW s \in Severities, delivered'[Signal(s)] < delivered[Signal(s)]
  PROVE  sender = "post" /\ Head(queue) = Signal(s)
<1> DEFINE text == Signal(s)
<1>1. text \in Texts /\ delivered[text] \in 0..Forgotten /\ delivered[text] \in Nat
  BY TextFacts, StateFacts DEF IInv
<1>2. ASSUME sender = "post", delivered' = [delivered EXCEPT ![Head(queue)] = 0]
      PROVE  Head(queue) = text
  BY <1>1, <1>2 DEF IInv, AlertingTypeOK
<1> HIDE DEF text
<1>3. CASE TimePasses
  <2>1. delivered'[text] = Older(delivered[text]) /\ Older(delivered[text]) >= delivered[text]
        /\ Older(delivered[text]) \in Nat
    BY <1>1, <1>3, AgeFacts DEF TimePasses
  <2> QED
    BY <1>1, <2>1 DEF text
<1>4. CASE delivered' = delivered
  BY <1>1, <1>4 DEF text
<1>5. ASSUME NEW spread \in Spreads, NEW confidence \in Confidences,
             HandleSignal(spread, confidence)
      PROVE  delivered' = delivered
  BY <1>5 DEF HandleSignal
<1>6. CASE \/ StreamError \/ Suppress \/ Begin \/ Refused \/ Wake \/ BeginWork \/ EndWork
           \/ PostOrder \/ Cancel
  BY <1>4, <1>6
     DEF StreamError, Suppress, Begin, Refused, Wake, BeginWork, EndWork, PostOrder, Cancel
<1>7. CASE Delivers(TRUE) \/ Delivers(FALSE) \/ Busy \/ StillBusy
  <2>1. /\ sender = "post"
        /\ delivered' = delivered \/ delivered' = [delivered EXCEPT ![Head(queue)] = 0]
    BY <1>7 DEF Delivers, Busy, StillBusy
  <2> QED
    BY <1>2, <1>4, <2>1 DEF text
<1> QED
  BY <1>3, <1>4, <1>5, <1>6, <1>7 DEF AlertingNext, Step

(* Two deliveries of a notification are apart by the cooldown less the     *)
(* time of one send, but for the retries of that send.                     *)
THEOREM NotificationsAreApart == AlertingSpec => NotificationsNearlyApart
<1> DEFINE A == \A s \in Severities : delivered'[Signal(s)] < delivered[Signal(s)]
                  => \/ delivered[Signal(s)] >= NotifyCooldown - MaxSend
                     \/ attempt > 0 /\ delivered[Signal(s)] <= started
<1>1. IInv /\ [AlertingNext]_alertingVars => [A]_alertingVars
  <2> SUFFICES ASSUME IInv, AlertingNext, NEW s \in Severities,
                      delivered'[Signal(s)] < delivered[Signal(s)]
               PROVE  \/ delivered[Signal(s)] >= NotifyCooldown - MaxSend
                      \/ attempt > 0 /\ delivered[Signal(s)] <= started
    OBVIOUS
  <2>1. sender = "post" /\ Sending(Signal(s))
    BY OnlySent DEF Sending, Sends
  <2> QED
    BY <2>1 DEF IInv, SentBefore
<1> QED
  BY <1>1, Initially, AlertStep, PTL DEF AlertingSpec, NotificationsNearlyApart

=============================================================================
