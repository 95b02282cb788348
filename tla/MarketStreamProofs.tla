------------------------- MODULE MarketStreamProofs -------------------------
(***************************************************************************)
(* Proofs about MarketStream, for any number of connections, capacities of *)
(* the channels, limits of the reconnect policy, frames and updates.       *)
(***************************************************************************)
EXTENDS MarketStream, SequenceTheorems, TLAPS

Update == [serial : 1 .. UpdateBound, at : 0 .. ClockBound]
Errors == {"dial", "subscribe", "read", "decode", "exceeded"}

-----------------------------------------------------------------------------
(* The inductive invariant, beside OneConnection and StreamSurvives.       *)

(* TypeOK, with what it leaves open: that the queues are sequences.        *)
Typed ==
  /\ TypeOK
  /\ updates \in Seq(Update) /\ batch \in Seq(Update)
  /\ maxAttempts \in Limits

(* There is a connection from the dial to the end of the reading. *)
Disconnected == conn = None <=> pc \in {"top", "dial", "wait", "done"}

(* Only a reader that is being held up has updates in its hands. *)
InHand == batch # <<>> => At("deliver")

ClosedByStream == closed <=> At("done")

(* Run gives up the channel of updates, and itself, only when it is closed *)
(* and empty (or the context is cancelled).                                *)
Drained ==
  updatesNil \/ (runner = "returned" /\ ~cancelled) => closed /\ updates = <<>>

(* NothingLost for the two queues apart. *)
Numbered ==
  ~cancelled =>
    /\ \A i \in 1 .. Len(updates) : updates[i].serial = handled + i
    /\ \A i \in 1 .. Len(batch) : batch[i].serial = handled + Len(updates) + i
    /\ received = handled + Len(updates) + Len(batch)

IInv ==
  /\ Typed /\ Disconnected /\ InHand /\ ClosedByStream /\ Drained /\ Numbered
  /\ OneConnection /\ StreamSurvives

-----------------------------------------------------------------------------
USE MarketStreamAssumption

LEMMA SmallerOfTwo ==
  ASSUME NEW a \in Int, NEW b \in Int
  PROVE  Min({a, b}) = IF a <= b THEN a ELSE b
<1> DEFINE m == IF a <= b THEN a ELSE b
<1>1. m \in {a, b} /\ \A y \in {a, b} : m <= y
  OBVIOUS
<1>2. \A x \in {a, b} : (\A y \in {a, b} : x <= y) => x = m
  OBVIOUS
<1> QED
  BY <1>1, <1>2 DEF Min

LEMMA GreaterOfTwo ==
  ASSUME NEW a \in Int, NEW b \in Int
  PROVE  Max({a, b}) = IF a >= b THEN a ELSE b
<1> DEFINE m == IF a >= b THEN a ELSE b
<1>1. m \in {a, b} /\ \A y \in {a, b} : m >= y
  OBVIOUS
<1>2. \A x \in {a, b} : (\A y \in {a, b} : x >= y) => x = m
  OBVIOUS
<1> QED
  BY <1>1, <1>2 DEF Max

(* The queues as TypeOK types them. *)
LEMMA QueueType ==
  ASSUME NEW queue \in Seq(Update)
  PROVE  \A i \in DOMAIN queue : queue[i] \in [serial : 1 .. UpdateBound, at : 0 .. ClockBound]
<1>1. \A i \in DOMAIN queue : queue[i] \in Update
  OBVIOUS
<1> QED
  BY <1>1 DEF Update

(* Typed in its parts: the channels between the goroutines, the goroutine  *)
(* of Stream with its connections, and that of Run with the world.         *)
ChannelTypes ==
  /\ updates \in Seq(Update) /\ Len(updates) <= UpdatesCap
  /\ errs \in Seq(Errors) /\ Len(errs) <= ErrsCap
  /\ closed \in BOOLEAN /\ cancelled \in BOOLEAN

StreamTypes ==
  /\ pc \in {"top", "dial", "subscribe", "read_top", "read", "deliver", "wait", "done"}
  /\ cause \in {"none", "dial", "subscribe", "read"}
  /\ attempt \in 0 .. AttemptBound /\ maxAttempts \in Limits
  /\ conn \in Conns \cup {None} /\ batch \in Seq(Update)
  /\ open \subseteq Conns /\ pingers \subseteq Conns /\ pingDone \subseteq Conns
  /\ received \in 0 .. UpdateBound /\ clock \in 0 .. ClockBound

RunTypes ==
  /\ updatesNil \in BOOLEAN /\ errsNil \in BOOLEAN
  /\ runner \in {"select", "busy", "reconcile", "returned"}
  /\ current \in [serial : 0 .. UpdateBound, at : 0 .. ClockBound]
  /\ oldestOrder \in 0 .. ClockBound /\ handled \in 0 .. UpdateBound

LEMMA TypedParts == Typed => ChannelTypes /\ StreamTypes /\ RunTypes
BY DEF Typed, TypeOK, ChannelTypes, StreamTypes, RunTypes, Errors

LEMMA TypedWhole ==
  ASSUME ChannelTypes', StreamTypes', RunTypes'
  PROVE  Typed'
<1>1. \A queue \in {updates', batch'} :
        \A i \in DOMAIN queue : queue[i] \in [serial : 1 .. UpdateBound, at : 0 .. ClockBound]
  BY QueueType DEF ChannelTypes, StreamTypes
<1> QED
  BY <1>1 DEF Typed, TypeOK, ChannelTypes, StreamTypes, RunTypes, Errors

LEMMA Initially == Init => IInv
<1> SUFFICES ASSUME Init PROVE IInv
  OBVIOUS
<1>1. Typed
  <2>1. updates = <<>> /\ batch = <<>> /\ errs = <<>>
    BY DEF Init
  <2>2. ChannelTypes
    <3>1. <<>> \in Seq(Update) /\ <<>> \in Seq(Errors) /\ Len(<<>>) = 0
      OBVIOUS
    <3>2. updates \in Seq(Update) /\ errs \in Seq(Errors) /\ Len(updates) <= UpdatesCap /\ Len(errs) <= ErrsCap
      BY <2>1, <3>1
    <3> QED
      BY <3>2 DEF Init, ChannelTypes
  <2>3. StreamTypes
    <3>1. batch \in Seq(Update)
      BY <2>1
    <3>2. attempt \in 0 .. AttemptBound /\ received \in 0 .. UpdateBound /\ clock \in 0 .. ClockBound
      BY DEF Init
    <3>3. /\ open \subseteq Conns /\ pingers \subseteq Conns /\ pingDone \subseteq Conns
          /\ conn \in Conns \cup {None} /\ maxAttempts \in Limits /\ pc = "top" /\ cause = "none"
      BY DEF Init
    <3> QED
      BY <3>1, <3>2, <3>3 DEF StreamTypes
  <2>4. RunTypes
    <3>1. current \in [serial : 0 .. UpdateBound, at : 0 .. ClockBound]
      BY DEF Init, NoUpdate
    <3>2. oldestOrder \in 0 .. ClockBound /\ handled \in 0 .. UpdateBound
      BY DEF Init
    <3> QED
      BY <3>1, <3>2 DEF Init, RunTypes
  <2>5. \A queue \in {updates, batch} :
          \A i \in DOMAIN queue : queue[i] \in [serial : 1 .. UpdateBound, at : 0 .. ClockBound]
    BY QueueType, <2>2, <2>3 DEF ChannelTypes, StreamTypes
  <2> QED
    BY <2>2, <2>3, <2>4, <2>5 DEF Typed, TypeOK, ChannelTypes, StreamTypes, RunTypes, Errors
<1>2. Disconnected /\ InHand /\ ClosedByStream /\ Drained /\ Numbered
  BY DEF Init, Disconnected, InHand, ClosedByStream, Drained, Numbered, At
<1>3. OneConnection /\ StreamSurvives
  BY DEF Init, OneConnection, StreamSurvives
<1> QED
  BY <1>1, <1>2, <1>3 DEF IInv

-----------------------------------------------------------------------------
(* What emitErr may do to the queue of errors and to the stream.           *)
LEMMA EmitErrFacts ==
  ASSUME ChannelTypes, NEW error \in Errors, NEW next, EmitErr(error, next)
  PROVE  /\ errs' \in Seq(Errors) /\ Len(errs') <= ErrsCap
         /\ \/ cancelled /\ pc' = "done" /\ closed' = TRUE
            \/ pc' = next /\ closed' = closed
<1>1. errs' = errs \/ (Len(errs) < ErrsCap /\ errs' = Append(errs, error))
  BY DEF EmitErr
<1>2. errs' \in Seq(Errors) /\ Len(errs') <= ErrsCap
  BY <1>1 DEF ChannelTypes
<1> QED
  BY <1>2 DEF EmitErr, Finish, GoTo

LEMMA TryEmitErrFacts ==
  ASSUME ChannelTypes, NEW error \in Errors, TryEmitErr(error)
  PROVE  errs' \in Seq(Errors) /\ Len(errs') <= ErrsCap
<1>1. errs' = errs \/ (Len(errs) < ErrsCap /\ errs' = Append(errs, error))
  BY DEF TryEmitErr
<1> QED
  BY <1>1 DEF ChannelTypes

(* A step of Stream that does not read, deliver or return: it takes a      *)
(* connection or gives it up, and what Run sees stays as it is.            *)
Between == {"top", "dial", "subscribe", "read_top", "read", "wait"}

LEMMA BetweenStep ==
  ASSUME IInv, pc \in Between \cup {"deliver"}, batch = <<>>, pc' \in Between, closed' = closed,
         UNCHANGED <<batch, updates, cancelled, run, world>>,
         errs' \in Seq(Errors), Len(errs') <= ErrsCap,
         cause' \in {"none", "dial", "subscribe", "read"}, attempt' \in 0 .. AttemptBound,
         conn' \in Conns \cup {None}, open' \subseteq Conns, open' \subseteq {conn'},
         pingers' \subseteq Conns, pingDone' \subseteq Conns, Disconnected'
  PROVE  IInv'
<1>1. ChannelTypes /\ StreamTypes /\ RunTypes
  BY TypedParts DEF IInv
<1>2. Typed'
  BY <1>1, TypedWhole DEF ChannelTypes, StreamTypes, RunTypes, run, world, Between
<1>3. InHand' /\ ClosedByStream' /\ Drained' /\ Numbered'
  BY DEF IInv, InHand, ClosedByStream, Drained, Numbered, run, world, Between, At
<1>4. StreamSurvives' /\ OneConnection'
  BY DEF IInv, ClosedByStream, StreamSurvives, OneConnection, Between, At
<1> QED
  BY <1>2, <1>3, <1>4 DEF IInv

(* A step with which Stream returns, because of the context or of its own  *)
(* accord after the last of its attempts.                                  *)
LEMMA FinishStep ==
  ASSUME IInv, pc # "done", pc' = "done", closed' = TRUE, batch' = <<>>,
         batch = <<>> \/ cancelled,
         UNCHANGED <<updates, cancelled, run, world>>,
         errs' \in Seq(Errors), Len(errs') <= ErrsCap,
         cause' \in {"none", "dial", "subscribe", "read"}, attempt' \in 0 .. AttemptBound,
         conn' = None, open' = {}, pingers' = pingers, pingDone' \subseteq Conns,
         cancelled \/ (0 < maxAttempts /\ attempt' >= maxAttempts)
  PROVE  IInv'
<1>1. ChannelTypes /\ StreamTypes /\ RunTypes
  BY TypedParts DEF IInv
<1>2. Typed'
  BY <1>1, TypedWhole DEF ChannelTypes, StreamTypes, RunTypes, run, world
<1>3. InHand' /\ ClosedByStream' /\ Disconnected'
  BY DEF InHand, ClosedByStream, Disconnected, At
<1>4. Drained' /\ Numbered'
  BY DEF IInv, ClosedByStream, Drained, Numbered, run, world, At
<1>5. StreamSurvives' /\ OneConnection'
  BY DEF StreamSurvives, OneConnection, world
<1> QED
  BY <1>2, <1>3, <1>4, <1>5 DEF IInv

-----------------------------------------------------------------------------
(* Without a connection none is open. *)
LEMMA NoneOpen ==
  ASSUME IInv, conn = None
  PROVE  open = {}
BY DEF IInv, Typed, TypeOK, OneConnection

LEMMA BatchEmpty ==
  ASSUME IInv, pc # "deliver"
  PROVE  batch = <<>>
BY DEF IInv, InHand, At

LEMMA LoopTopStep ==
  ASSUME IInv, LoopTop
  PROVE  IInv'
<1>1. /\ pc = "top" /\ UNCHANGED <<cause, attempt, conn, batch, sockets, updates, errs, cancelled, run, world>>
      /\ \/ cancelled /\ pc' = "done" /\ closed' = TRUE
         \/ pc' = "dial" /\ closed' = closed
  BY DEF LoopTop, Finish, GoTo, At
<1>2. UNCHANGED <<open, pingers, pingDone>>
  BY <1>1 DEF sockets
<1>3. conn = None /\ batch = <<>>
  BY <1>1, BatchEmpty DEF IInv, Disconnected
<1>4. ChannelTypes /\ StreamTypes
  BY TypedParts DEF IInv
<1>5. CASE pc' = "done"
  BY <1>1, <1>2, <1>3, <1>4, <1>5, FinishStep, NoneOpen DEF ChannelTypes, StreamTypes
<1>6. CASE pc' = "dial"
  <2>1. Disconnected'
    BY <1>1, <1>3 DEF Disconnected
  <2> QED
    BY <1>1, <1>2, <1>3, <1>4, <1>6, <2>1, BetweenStep, NoneOpen DEF ChannelTypes, StreamTypes, Between
<1> QED
  BY <1>1, <1>5, <1>6

LEMMA DialStep ==
  ASSUME IInv, Dial
  PROVE  IInv'
<1> PICK c \in Conns \ (open \cup pingers) :
      /\ conn' = c /\ open' = open \cup {c} /\ pingDone' = pingDone \ {c}
  BY DEF Dial
<1>1. /\ pc = "dial" /\ pc' = "subscribe"
      /\ UNCHANGED <<cause, attempt, batch, pingers, updates, errs, closed, cancelled, run, world>>
  BY DEF Dial, GoTo, At, shared
<1>2. conn = None /\ batch = <<>>
  BY <1>1, BatchEmpty DEF IInv, Disconnected
<1>3. ChannelTypes /\ StreamTypes
  BY TypedParts DEF IInv
<1>4. Disconnected' /\ open' \subseteq {conn'}
  BY <1>1, <1>2, NoneOpen DEF Disconnected
<1>5. open' \subseteq Conns /\ pingDone' \subseteq Conns /\ conn' \in Conns \cup {None}
  BY <1>3 DEF StreamTypes
<1> QED
  BY <1>1, <1>2, <1>3, <1>4, <1>5, BetweenStep DEF ChannelTypes, StreamTypes, Between

LEMMA DialFailsStep ==
  ASSUME IInv, DialFails
  PROVE  IInv'
<1>1. /\ pc = "dial" /\ EmitErr("dial", "wait") /\ cause' = "dial"
      /\ UNCHANGED <<attempt, conn, batch, open, pingers, pingDone, updates, cancelled, run, world>>
  BY DEF DialFails, At, sockets
<1>2. conn = None /\ batch = <<>>
  BY <1>1, BatchEmpty DEF IInv, Disconnected
<1>3. ChannelTypes /\ StreamTypes
  BY TypedParts DEF IInv
<1>4. /\ errs' \in Seq(Errors) /\ Len(errs') <= ErrsCap
      /\ \/ cancelled /\ pc' = "done" /\ closed' = TRUE
         \/ pc' = "wait" /\ closed' = closed
  BY <1>1, <1>3, EmitErrFacts DEF Errors
<1>5. CASE cancelled /\ pc' = "done" /\ closed' = TRUE
  BY <1>1, <1>2, <1>3, <1>4, <1>5, FinishStep, NoneOpen DEF StreamTypes
<1>6. CASE pc' = "wait" /\ closed' = closed
  <2>1. Disconnected' /\ open' = {}
    BY <1>1, <1>2, <1>6, NoneOpen DEF Disconnected
  <2>2. pc \in Between \cup {"deliver"} /\ pc' \in Between
    BY <1>1, <1>6 DEF Between
  <2> QED
    BY <1>1, <1>2, <1>3, <1>4, <1>6, <2>1, <2>2, BetweenStep DEF StreamTypes
<1> QED
  BY <1>4, <1>5, <1>6

LEMMA SubscribeStep ==
  ASSUME IInv, Subscribe
  PROVE  IInv'
<1>1. /\ pc = "subscribe" /\ pc' = "read_top" /\ attempt' = 0 /\ pingers' = pingers \cup {conn}
      /\ UNCHANGED <<cause, conn, batch, open, pingDone, updates, errs, closed, cancelled, run, world>>
  BY DEF Subscribe, GoTo, At, shared
<1>2. batch = <<>> /\ open \subseteq {conn}
  BY <1>1, BatchEmpty DEF IInv, OneConnection
<1>3. ChannelTypes /\ StreamTypes
  BY TypedParts DEF IInv
<1>4. conn \in Conns
  BY <1>1, <1>3 DEF IInv, Disconnected, StreamTypes
<1>5. Disconnected'
  BY <1>1, <1>4 DEF Disconnected
<1>6. pc \in Between \cup {"deliver"} /\ pc' \in Between /\ attempt' \in 0 .. AttemptBound
  BY <1>1 DEF Between
<1>7. pingers' \subseteq Conns /\ pingDone' \subseteq Conns /\ open' \subseteq Conns
  BY <1>1, <1>3, <1>4 DEF StreamTypes
<1> QED
  BY <1>1, <1>2, <1>3, <1>4, <1>5, <1>6, <1>7, BetweenStep DEF ChannelTypes, StreamTypes

LEMMA SubscribeFailsStep ==
  ASSUME IInv, SubscribeFails
  PROVE  IInv'
<1>1. /\ pc = "subscribe" /\ EmitErr("subscribe", "wait") /\ cause' = "subscribe"
      /\ open' = open \ {conn} /\ conn' = None
      /\ UNCHANGED <<attempt, batch, pingers, pingDone, updates, cancelled, run, world>>
  BY DEF SubscribeFails, CloseConn, At
<1>2. batch = <<>> /\ open' = {}
  BY <1>1, BatchEmpty DEF IInv, OneConnection
<1>3. ChannelTypes /\ StreamTypes
  BY TypedParts DEF IInv
<1>4. /\ errs' \in Seq(Errors) /\ Len(errs') <= ErrsCap
      /\ \/ cancelled /\ pc' = "done" /\ closed' = TRUE
         \/ pc' = "wait" /\ closed' = closed
  BY <1>1, <1>3, EmitErrFacts DEF Errors
<1>5. CASE cancelled /\ pc' = "done" /\ closed' = TRUE
  BY <1>1, <1>2, <1>3, <1>4, <1>5, FinishStep DEF StreamTypes
<1>6. CASE pc' = "wait" /\ closed' = closed
  <2>1. Disconnected'
    BY <1>1, <1>6 DEF Disconnected
  <2>2. pc \in Between \cup {"deliver"} /\ pc' \in Between
    BY <1>1, <1>6 DEF Between
  <2> QED
    BY <1>1, <1>2, <1>3, <1>4, <1>6, <2>1, <2>2, BetweenStep DEF StreamTypes
<1> QED
  BY <1>4, <1>5, <1>6

(* The steps that only move the reader on. *)
LEMMA MovesOn ==
  ASSUME IInv, batch = <<>>, pc \in {"read_top", "read", "deliver"}, pc' \in {"read_top", "read"},
         UNCHANGED <<cause, attempt, conn, batch, sockets, updates, closed, cancelled, run, world>>,
         errs' \in Seq(Errors), Len(errs') <= ErrsCap
  PROVE  IInv'
<1>1. ChannelTypes /\ StreamTypes
  BY TypedParts DEF IInv
<1>2. Disconnected' /\ open' \subseteq {conn'}
  BY DEF IInv, Disconnected, OneConnection, sockets
<1>3. pc \in Between \cup {"deliver"} /\ pc' \in Between
  BY DEF Between
<1>4. UNCHANGED <<open, pingers, pingDone>>
  BY DEF sockets
<1> QED
  BY <1>1, <1>2, <1>3, <1>4, BetweenStep DEF StreamTypes

LEMMA ReadTopStep ==
  ASSUME IInv, ReadTop \/ ReadIgnored \/ Delivered
  PROVE  IInv'
<1>1. /\ pc \in {"read_top", "read", "deliver"} /\ pc' \in {"read_top", "read"}
      /\ UNCHANGED <<cause, attempt, conn, batch, sockets, updates, errs, closed, cancelled, run, world>>
  BY DEF ReadTop, ReadIgnored, Delivered, At, GoTo, shared
<1>2. batch = <<>>
  BY BatchEmpty DEF ReadTop, ReadIgnored, Delivered, At
<1>3. ChannelTypes
  BY TypedParts DEF IInv
<1> QED
  BY <1>1, <1>2, <1>3, MovesOn DEF ChannelTypes

LEMMA ReadUndecodableStep ==
  ASSUME IInv, ReadUndecodable
  PROVE  IInv'
<1>1. /\ pc = "read" /\ pc' = "read_top" /\ TryEmitErr("decode")
      /\ UNCHANGED <<cause, attempt, conn, batch, sockets, updates, closed, cancelled, run, world>>
  BY DEF ReadUndecodable, At, GoTo
<1>2. batch = <<>>
  BY <1>1, BatchEmpty
<1>3. ChannelTypes
  BY TypedParts DEF IInv
<1>4. errs' \in Seq(Errors) /\ Len(errs') <= ErrsCap
  BY <1>1, <1>3, TryEmitErrFacts DEF Errors
<1> QED
  BY <1>1, <1>2, <1>4, MovesOn

(* readLoop gives the connection up. *)
LEMMA LeaveReadFacts ==
  ASSUME IInv, pc \in {"read_top", "read", "deliver"}, LeaveRead
  PROVE  open' = {} /\ conn' = None /\ pingDone' \subseteq Conns
<1>1. StreamTypes
  BY TypedParts DEF IInv
<1>2. conn \in Conns
  BY <1>1 DEF IInv, Disconnected, StreamTypes
<1> QED
  BY <1>1, <1>2 DEF LeaveRead, CloseConn, StreamTypes, IInv, OneConnection

LEMMA ReadFailsStep ==
  ASSUME IInv, ReadFails
  PROVE  IInv'
<1>1. /\ pc = "read" /\ ~cancelled /\ LeaveRead /\ EmitErr("read", "wait") /\ cause' = "read"
      /\ UNCHANGED <<attempt, batch, pingers, updates, cancelled, run, world>>
  BY DEF ReadFails, At
<1>2. open' = {} /\ conn' = None /\ pingDone' \subseteq Conns /\ batch = <<>>
  BY <1>1, LeaveReadFacts, BatchEmpty
<1>3. ChannelTypes /\ StreamTypes
  BY TypedParts DEF IInv
<1>4. errs' \in Seq(Errors) /\ Len(errs') <= ErrsCap /\ pc' = "wait" /\ closed' = closed
  BY <1>1, <1>3, EmitErrFacts DEF Errors
<1>5. Disconnected'
  BY <1>2, <1>4 DEF Disconnected
<1>6. pc \in Between \cup {"deliver"} /\ pc' \in Between
  BY <1>1, <1>4 DEF Between
<1> QED
  BY <1>1, <1>2, <1>3, <1>4, <1>5, <1>6, BetweenStep DEF StreamTypes

LEMMA LeaveCancelledStep ==
  ASSUME IInv, ReadTopCancelled \/ DeliverCancelled \/ ReadFailsCancelled
  PROVE  IInv'
<1>1. pc \in {"read_top", "read", "deliver"} /\ LeaveCancelled
  BY DEF ReadTopCancelled, DeliverCancelled, ReadFailsCancelled, At
<1>2. /\ cancelled /\ LeaveRead /\ pc' = "done" /\ closed' = TRUE /\ batch' = <<>>
      /\ UNCHANGED <<cause, attempt, pingers, updates, errs, cancelled, run, world>>
  BY <1>1 DEF LeaveCancelled, Finish, GoTo
<1>3. open' = {} /\ conn' = None /\ pingDone' \subseteq Conns
  BY <1>1, <1>2, LeaveReadFacts
<1>4. ChannelTypes /\ StreamTypes
  BY TypedParts DEF IInv
<1> QED
  BY <1>1, <1>2, <1>3, <1>4, FinishStep DEF StreamTypes, ChannelTypes

LEMMA WaitCancelledStep ==
  ASSUME IInv, WaitCancelled
  PROVE  IInv'
<1>1. /\ pc = "wait" /\ cancelled /\ pc' = "done" /\ closed' = TRUE
      /\ UNCHANGED <<cause, attempt, conn, batch, open, pingers, pingDone, updates, errs, cancelled, run, world>>
  BY DEF WaitCancelled, Finish, GoTo, At, sockets
<1>2. conn = None /\ open = {} /\ batch = <<>>
  BY <1>1, BatchEmpty, NoneOpen DEF IInv, Disconnected
<1>3. ChannelTypes /\ StreamTypes
  BY TypedParts DEF IInv
<1> QED
  BY <1>1, <1>2, <1>3, FinishStep DEF StreamTypes, ChannelTypes

(* The counter of attempts stays at its bound, which no limit exceeds: a   *)
(* limit that attempt + 1 has reached is reached by what the counter shows.*)
LEMMA AttemptCounts ==
  ASSUME StreamTypes, attempt' = Min({attempt + 1, AttemptBound})
  PROVE  /\ attempt' \in 0 .. AttemptBound
         /\ attempt + 1 >= maxAttempts => attempt' >= maxAttempts
<1>1. attempt \in Int /\ attempt >= 0 /\ attempt <= AttemptBound /\ maxAttempts \in Int /\ maxAttempts <= AttemptBound
  BY DEF StreamTypes
<1>2. attempt' = IF attempt + 1 <= AttemptBound THEN attempt + 1 ELSE AttemptBound
  BY <1>1, SmallerOfTwo
<1> QED
  BY <1>1, <1>2

LEMMA WaitElapsesStep ==
  ASSUME IInv, WaitElapses
  PROVE  IInv'
<1>1. /\ pc = "wait" /\ attempt' = Min({attempt + 1, AttemptBound}) /\ cause' = "none"
      /\ UNCHANGED <<conn, batch, open, pingers, pingDone, updates, cancelled, run, world>>
      /\ \/ /\ maxAttempts > 0 /\ attempt + 1 >= maxAttempts
            /\ TryEmitErr("exceeded") /\ pc' = "done" /\ closed' = TRUE
         \/ pc' = "top" /\ UNCHANGED <<errs, closed>>
  BY DEF WaitElapses, Finish, GoTo, At, sockets
<1>2. conn = None /\ open = {} /\ batch = <<>>
  BY <1>1, BatchEmpty, NoneOpen DEF IInv, Disconnected
<1>3. ChannelTypes /\ StreamTypes
  BY TypedParts DEF IInv
<1>4. /\ attempt' \in 0 .. AttemptBound
      /\ attempt + 1 >= maxAttempts => attempt' >= maxAttempts
  BY <1>1, <1>3, AttemptCounts
<1>5. errs' \in Seq(Errors) /\ Len(errs') <= ErrsCap
  BY <1>1, <1>3, TryEmitErrFacts DEF Errors, ChannelTypes
<1>6. CASE pc' = "done"
  <2>1. 0 < maxAttempts /\ attempt' >= maxAttempts /\ closed' = TRUE
    BY <1>1, <1>3, <1>4, <1>6 DEF StreamTypes
  <2> QED
    BY <1>1, <1>2, <1>3, <1>4, <1>5, <1>6, <2>1, FinishStep DEF StreamTypes
<1>7. CASE pc' = "top"
  <2>1. Disconnected' /\ closed' = closed
    BY <1>1, <1>2, <1>7 DEF Disconnected
  <2>2. pc \in Between \cup {"deliver"} /\ pc' \in Between
    BY <1>1, <1>7 DEF Between
  <2> QED
    BY <1>1, <1>2, <1>3, <1>4, <1>5, <2>1, <2>2, BetweenStep DEF StreamTypes
<1> QED
  BY <1>1, <1>6, <1>7

-----------------------------------------------------------------------------
(* Updates on their way: read, delivered, handled. *)

(* A step that moves updates along and leaves the connection as it is. *)
LEMMA MovesUpdates ==
  ASSUME IInv, UNCHANGED <<conn, sockets, cause, attempt, maxAttempts, closed, cancelled>>,
         pc' = pc \/ (pc = "read" /\ pc' = "deliver"),
         ChannelTypes', StreamTypes', RunTypes', InHand', Drained', Numbered'
  PROVE  IInv'
<1>1. Typed'
  BY TypedWhole
<1>2. Disconnected' /\ OneConnection'
  BY DEF IInv, Disconnected, OneConnection, sockets
<1>3. ClosedByStream'
  BY DEF IInv, ClosedByStream, At
<1>4. StreamSurvives'
  BY DEF IInv, StreamSurvives
<1> QED
  BY <1>1, <1>2, <1>3, <1>4 DEF IInv

LEMMA ReadUpdatesStep ==
  ASSUME IInv, NEW n \in FrameSizes, ReadUpdates(n)
  PROVE  IInv'
<1>1. /\ pc = "read" /\ pc' = "deliver" /\ received + n <= UpdateBound
      /\ batch' = [i \in 1 .. n |-> [serial |-> received + i, at |-> clock]]
      /\ received' = received + n
      /\ UNCHANGED <<cause, attempt, conn, sockets, shared, run, clock, maxAttempts>>
  BY DEF ReadUpdates, At, GoTo
<1>2. ChannelTypes /\ StreamTypes /\ RunTypes
  BY TypedParts DEF IInv
<1>3. batch = <<>>
  BY <1>1, BatchEmpty
<1>4. n \in Nat /\ received \in Nat /\ clock \in 0 .. ClockBound
  BY <1>2 DEF StreamTypes
<1>5. batch' \in Seq(Update) /\ Len(batch') = n
  <2>1. \A i \in 1 .. n : [serial |-> received + i, at |-> clock] \in Update
    BY <1>1, <1>4 DEF Update
  <2>2. batch' \in [1 .. n -> Update]
    BY <1>1, <2>1
  <2> QED
    BY <1>4, <2>2
<1>6. \A i \in 1 .. n : batch'[i].serial = received + i
  BY <1>1
<1>7. ChannelTypes' /\ RunTypes'
  BY <1>1, <1>2 DEF ChannelTypes, RunTypes, shared, run
<1>8. StreamTypes'
  <2>1. received' \in 0 .. UpdateBound
    BY <1>1, <1>4
  <2> QED
    BY <1>1, <1>2, <1>5, <2>1 DEF StreamTypes, sockets
<1>9. InHand' /\ Drained'
  BY <1>1 DEF IInv, InHand, Drained, At, run, shared
<1>10. Numbered'
  <2>1. UNCHANGED <<updates, cancelled, handled>>
    BY <1>1 DEF shared, run
  <2>2. CASE ~cancelled
    <3>1. received = handled + Len(updates) /\ \A i \in 1 .. Len(updates) : updates[i].serial = handled + i
      BY <1>2, <1>3, <2>2 DEF IInv, Numbered, RunTypes, ChannelTypes
    <3>2. \A i \in 1 .. Len(batch') : batch'[i].serial = handled' + Len(updates') + i
      BY <1>5, <1>6, <2>1, <3>1
    <3>3. received' = handled' + Len(updates') + Len(batch')
      BY <1>1, <1>5, <2>1, <3>1
    <3> QED
      BY <2>1, <3>1, <3>2, <3>3 DEF Numbered
  <2> QED
    BY <2>1, <2>2 DEF Numbered
<1>11. UNCHANGED <<closed, cancelled>>
  BY <1>1 DEF shared
<1> QED
  BY <1>1, <1>7, <1>8, <1>9, <1>10, <1>11, MovesUpdates

LEMMA DeliverStep ==
  ASSUME IInv, Deliver
  PROVE  IInv'
<1>1. /\ pc = "deliver" /\ batch # <<>> /\ Len(updates) < UpdatesCap
      /\ updates' = Append(updates, Head(batch)) /\ batch' = Tail(batch)
      /\ UNCHANGED <<pc, cause, attempt, conn, sockets, errs, closed, cancelled, run, world>>
  BY DEF Deliver, At
<1>2. ChannelTypes /\ StreamTypes /\ RunTypes
  BY TypedParts DEF IInv
<1>3. updates \in Seq(Update) /\ batch \in Seq(Update) /\ handled \in Nat
  BY <1>2 DEF ChannelTypes, StreamTypes, RunTypes
<1>4. /\ batch' \in Seq(Update) /\ Len(batch) > 0 /\ Len(batch') = Len(batch) - 1
      /\ \A i \in 1 .. Len(batch') : batch'[i] = batch[i + 1]
  BY <1>1, <1>3
<1>5. /\ updates' \in Seq(Update) /\ Len(updates') = Len(updates) + 1
      /\ \A i \in 1 .. Len(updates) : updates'[i] = updates[i]
      /\ updates'[Len(updates) + 1] = batch[1]
  BY <1>1, <1>3, <1>4
<1>6. ChannelTypes'
  <2>1. Len(updates') <= UpdatesCap
    BY <1>1, <1>3, <1>5
  <2> QED
    BY <1>1, <1>2, <1>5, <2>1 DEF ChannelTypes
<1>7. StreamTypes' /\ RunTypes'
  BY <1>1, <1>2, <1>4 DEF StreamTypes, RunTypes, sockets, world, run
<1>8. InHand' /\ Drained'
  BY <1>1 DEF IInv, InHand, Drained, ClosedByStream, At, run
<1>9. Numbered'
  <2>1. UNCHANGED <<received, cancelled, handled>>
    BY <1>1 DEF world, run
  <2>2. CASE ~cancelled
    <3>1. /\ \A i \in 1 .. Len(updates) : updates[i].serial = handled + i
          /\ \A i \in 1 .. Len(batch) : batch[i].serial = handled + Len(updates) + i
          /\ received = handled + Len(updates) + Len(batch)
      BY <2>2 DEF IInv, Numbered
    <3>2. \A i \in 1 .. Len(updates') : updates'[i].serial = handled + i
      <4> TAKE i \in 1 .. Len(updates')
      <4>1. CASE i \in 1 .. Len(updates)
        BY <1>5, <3>1, <4>1
      <4>2. CASE i = Len(updates) + 1
        BY <1>3, <1>4, <1>5, <3>1, <4>2
      <4> QED
        BY <1>3, <1>5, <4>1, <4>2
    <3>3. \A i \in 1 .. Len(batch') : batch'[i].serial = handled + Len(updates') + i
      <4> TAKE i \in 1 .. Len(batch')
      <4>1. i + 1 \in 1 .. Len(batch) /\ batch'[i] = batch[i + 1]
        BY <1>3, <1>4
      <4>2. batch[i + 1].serial = handled + Len(updates) + (i + 1)
        BY <3>1, <4>1
      <4> QED
        BY <1>3, <1>5, <4>1, <4>2
    <3>4. received = handled + Len(updates') + Len(batch')
      BY <1>3, <1>4, <1>5, <3>1
    <3> QED
      BY <2>1, <3>2, <3>3, <3>4 DEF Numbered
  <2> QED
    BY <2>1, <2>2 DEF Numbered
<1>10. UNCHANGED maxAttempts
  BY <1>1 DEF world
<1> QED
  BY <1>1, <1>6, <1>7, <1>8, <1>9, <1>10, MovesUpdates

LEMMA RunUpdateStep ==
  ASSUME IInv, RunUpdate
  PROVE  IInv'
<1>1. /\ ~updatesNil /\ updates # <<>> /\ updates' = Tail(updates) /\ runner = "select"
      /\ current' = Head(updates) /\ handled' = Head(updates).serial /\ runner' = "busy"
      /\ UNCHANGED <<client, sockets, errs, closed, cancelled, updatesNil, errsNil, oldestOrder, world>>
  BY DEF RunUpdate, Selecting
<1>2. ChannelTypes /\ StreamTypes /\ RunTypes
  BY TypedParts DEF IInv
<1>3. updates \in Seq(Update) /\ batch \in Seq(Update) /\ handled \in Nat
  BY <1>2 DEF ChannelTypes, StreamTypes, RunTypes
<1>4. /\ updates' \in Seq(Update) /\ Len(updates) > 0 /\ Len(updates') = Len(updates) - 1
      /\ \A i \in 1 .. Len(updates') : updates'[i] = updates[i + 1]
      /\ Head(updates) = updates[1] /\ updates[1] \in Update
  BY <1>1, <1>3
<1>5. ChannelTypes'
  <2>1. Len(updates') <= UpdatesCap
    BY <1>2, <1>3, <1>4 DEF ChannelTypes
  <2> QED
    BY <1>1, <1>2, <1>4, <2>1 DEF ChannelTypes
<1>6. RunTypes'
  <2>1. /\ updates[1] \in [serial : 0 .. UpdateBound, at : 0 .. ClockBound]
        /\ updates[1].serial \in 0 .. UpdateBound
    BY <1>4 DEF Update
  <2> QED
    BY <1>1, <1>2, <1>4, <2>1 DEF RunTypes
<1>7. StreamTypes'
  BY <1>1, <1>2 DEF StreamTypes, sockets, world, client
<1>8. InHand' /\ Drained'
  BY <1>1 DEF IInv, InHand, Drained, At, client
<1>9. Numbered'
  <2>1. UNCHANGED <<received, cancelled, batch>>
    BY <1>1 DEF world, client
  <2>2. CASE ~cancelled
    <3>1. /\ \A i \in 1 .. Len(updates) : updates[i].serial = handled + i
          /\ \A i \in 1 .. Len(batch) : batch[i].serial = handled + Len(updates) + i
          /\ received = handled + Len(updates) + Len(batch)
      BY <2>2 DEF IInv, Numbered
    <3>2. handled' = handled + 1
      BY <1>1, <1>3, <1>4, <3>1
    <3>3. \A i \in 1 .. Len(updates') : updates'[i].serial = handled' + i
      <4> TAKE i \in 1 .. Len(updates')
      <4>1. i + 1 \in 1 .. Len(updates) /\ updates'[i] = updates[i + 1]
        BY <1>3, <1>4
      <4>2. updates[i + 1].serial = handled + (i + 1)
        BY <3>1, <4>1
      <4> QED
        BY <1>3, <3>2, <4>1, <4>2
    <3>4. handled' + Len(updates') = handled + Len(updates)
      BY <1>3, <1>4, <3>2
    <3> QED
      BY <2>1, <3>1, <3>3, <3>4 DEF Numbered
  <2> QED
    BY <2>1, <2>2 DEF Numbered
<1>10. UNCHANGED <<pc, conn, cause, attempt, maxAttempts>>
  BY <1>1 DEF world, client
<1> QED
  BY <1>1, <1>5, <1>6, <1>7, <1>8, <1>9, <1>10, MovesUpdates

-----------------------------------------------------------------------------
(* The other steps of Run, and those of the world. *)

(* A step that moves no update. *)
LEMMA QueuesStay ==
  ASSUME IInv,
         UNCHANGED <<pc, cause, attempt, conn, batch, open, updates, closed, handled, received, maxAttempts>>,
         errs' \in Seq(Errors), Len(errs') <= ErrsCap, pingers' \subseteq Conns, UNCHANGED pingDone,
         cancelled' = cancelled \/ cancelled' = TRUE, clock' \in 0 .. ClockBound, RunTypes', Drained'
  PROVE  IInv'
<1>1. ChannelTypes /\ StreamTypes
  BY TypedParts DEF IInv
<1>2. cancelled' \in BOOLEAN /\ (cancelled => cancelled')
  BY <1>1 DEF ChannelTypes
<1>3. ChannelTypes' /\ StreamTypes'
  BY <1>1, <1>2 DEF ChannelTypes, StreamTypes
<1>4. Typed'
  BY <1>3, TypedWhole
<1>5. Disconnected' /\ InHand' /\ ClosedByStream' /\ OneConnection'
  BY DEF IInv, Disconnected, InHand, ClosedByStream, OneConnection, At
<1>6. Numbered' /\ StreamSurvives'
  BY <1>2 DEF IInv, Numbered, StreamSurvives
<1> QED
  BY <1>4, <1>5, <1>6 DEF IInv

LEMMA RunExecutesStep ==
  ASSUME IInv, RunExecutes
  PROVE  IInv'
<1>1. /\ oldestOrder' = Max({oldestOrder, clock - current.at}) /\ runner' = "reconcile"
      /\ UNCHANGED <<client, sockets, shared, current, updatesNil, errsNil, handled, world>>
  BY DEF RunExecutes
<1>2. ChannelTypes /\ StreamTypes /\ RunTypes
  BY TypedParts DEF IInv
<1>3. current.at \in 0 .. ClockBound /\ clock \in 0 .. ClockBound /\ oldestOrder \in 0 .. ClockBound
  BY <1>2 DEF RunTypes, StreamTypes
<1>4. oldestOrder' \in 0 .. ClockBound
  <2>1. oldestOrder' = IF oldestOrder >= clock - current.at THEN oldestOrder ELSE clock - current.at
    BY <1>1, <1>3, GreaterOfTwo
  <2> QED
    BY <1>3, <2>1
<1>5. RunTypes'
  BY <1>1, <1>2, <1>4 DEF RunTypes
<1>6. UNCHANGED <<pc, cause, attempt, conn, batch, open, pingers, pingDone, updates, errs, closed,
                  cancelled, updatesNil, handled, received, maxAttempts, clock>>
  BY <1>1 DEF client, sockets, shared, world
<1>7. Drained'
  BY <1>1, <1>6 DEF IInv, Drained
<1> QED
  BY <1>2, <1>5, <1>6, <1>7, QueuesStay DEF ChannelTypes, StreamTypes

LEMMA RunHandledStep ==
  ASSUME IInv, RunHandled
  PROVE  IInv'
<1>1. /\ runner' = "select" /\ current' = NoUpdate
      /\ UNCHANGED <<pc, cause, attempt, conn, batch, open, pingers, pingDone, updates, errs, closed,
                     cancelled, updatesNil, errsNil, oldestOrder, handled, received, maxAttempts, clock>>
  BY DEF RunHandled, client, sockets, shared, world
<1>2. ChannelTypes /\ StreamTypes /\ RunTypes
  BY TypedParts DEF IInv
<1>3. NoUpdate \in [serial : 0 .. UpdateBound, at : 0 .. ClockBound]
  BY DEF NoUpdate
<1>4. RunTypes'
  BY <1>1, <1>2, <1>3 DEF RunTypes
<1>5. Drained'
  BY <1>1 DEF IInv, Drained
<1> QED
  BY <1>1, <1>2, <1>4, <1>5, QueuesStay DEF ChannelTypes, StreamTypes

LEMMA RunErrorStep ==
  ASSUME IInv, RunError
  PROVE  IInv'
<1>1. /\ errs # <<>> /\ errs' = Tail(errs)
      /\ UNCHANGED <<pc, cause, attempt, conn, batch, open, pingers, pingDone, updates, closed, cancelled,
                     run, received, maxAttempts, clock>>
  BY DEF RunError, client, sockets, world
<1>2. ChannelTypes /\ StreamTypes /\ RunTypes
  BY TypedParts DEF IInv
<1>3. errs' \in Seq(Errors) /\ Len(errs') <= ErrsCap
  BY <1>1, <1>2 DEF ChannelTypes
<1>4. RunTypes' /\ Drained'
  BY <1>1, <1>2 DEF RunTypes, IInv, Drained, run
<1>5. UNCHANGED handled
  BY <1>1 DEF run
<1> QED
  BY <1>1, <1>2, <1>3, <1>4, <1>5, QueuesStay DEF StreamTypes

LEMMA RunClosedStep ==
  ASSUME IInv, RunUpdatesClosed \/ RunErrsClosed \/ RunEnds
  PROVE  IInv'
<1>1. UNCHANGED <<pc, cause, attempt, conn, batch, open, pingers, pingDone, updates, errs, closed, cancelled,
                  current, handled, oldestOrder, received, maxAttempts, clock>>
  BY DEF RunUpdatesClosed, RunErrsClosed, RunEnds, client, sockets, shared, world
<1>2. ChannelTypes /\ StreamTypes /\ RunTypes
  BY TypedParts DEF IInv
<1>3. /\ updatesNil' = updatesNil \/ updatesNil' = TRUE
      /\ errsNil' = errsNil \/ errsNil' = TRUE
      /\ runner' = runner \/ runner' = "returned"
  BY DEF RunUpdatesClosed, RunErrsClosed, RunEnds
<1>4. RunTypes'
  BY <1>1, <1>2, <1>3 DEF RunTypes
<1>5. Drained'
  <2>1. CASE RunUpdatesClosed
    BY <1>1, <2>1 DEF RunUpdatesClosed, Drained
  <2>2. CASE RunErrsClosed
    BY <1>1, <2>2 DEF RunErrsClosed, IInv, Drained
  <2>3. CASE RunEnds
    BY <1>1, <2>3 DEF RunEnds, IInv, Drained
  <2> QED
    BY <2>1, <2>2, <2>3
<1> QED
  BY <1>1, <1>2, <1>4, <1>5, QueuesStay DEF ChannelTypes, StreamTypes

LEMMA WorldStep ==
  ASSUME IInv, Cancel \/ Tick \/ (\E c \in Conns : PingerStops(c)) \/ UNCHANGED vars
  PROVE  IInv'
<1>1. UNCHANGED <<pc, cause, attempt, conn, batch, open, pingDone, updates, errs, closed, run, received, maxAttempts>>
  BY DEF Cancel, Tick, PingerStops, client, sockets, shared, world, vars
<1>2. /\ cancelled' = cancelled \/ cancelled' = TRUE
      /\ clock' = clock \/ (clock < ClockBound /\ clock' = clock + 1)
      /\ pingers' \subseteq pingers
  BY DEF Cancel, Tick, PingerStops, client, sockets, shared, world, vars
<1>3. ChannelTypes /\ StreamTypes /\ RunTypes
  BY TypedParts DEF IInv
<1>4. clock' \in 0 .. ClockBound
  BY <1>2, <1>3 DEF StreamTypes
<1>5. RunTypes'
  BY <1>1, <1>3 DEF RunTypes, run
<1>6. Drained'
  BY <1>1, <1>2 DEF IInv, Drained, run
<1>7. UNCHANGED handled /\ pingers' \subseteq Conns
  BY <1>1, <1>2, <1>3 DEF run, StreamTypes
<1> QED
  BY <1>1, <1>2, <1>3, <1>4, <1>5, <1>6, <1>7, QueuesStay DEF ChannelTypes

-----------------------------------------------------------------------------
LEMMA NextStep == IInv /\ [Next]_vars => IInv'
<1> SUFFICES ASSUME IInv, [Next]_vars PROVE IInv'
  OBVIOUS
<1>1. CASE StreamStep
  BY <1>1, LoopTopStep, DialStep, DialFailsStep, SubscribeStep, SubscribeFailsStep, ReadTopStep,
     LeaveCancelledStep, DeliverStep, WaitElapsesStep, WaitCancelledStep DEF StreamStep
<1>2. CASE Read
  BY <1>2, ReadTopStep, ReadUndecodableStep, ReadFailsStep, LeaveCancelledStep, ReadUpdatesStep DEF Read
<1>3. CASE RunStep
  BY <1>3, RunUpdateStep, RunExecutesStep, RunHandledStep, RunErrorStep, RunClosedStep DEF RunStep
<1>4. CASE Cancel \/ Tick \/ (\E c \in Conns : PingerStops(c)) \/ UNCHANGED vars
  BY <1>4, WorldStep
<1> QED
  BY <1>1, <1>2, <1>3, <1>4 DEF Next

LEMMA Inductive == Spec => []IInv
BY Initially, NextStep, PTL DEF Spec

(* The updates between the reader and Run are the two queues in a row. *)
LEMMA NumberedInARow ==
  ASSUME Typed, Numbered
  PROVE  NothingLost
<1> DEFINE waiting == updates \o batch
<1>1. updates \in Seq(Update) /\ batch \in Seq(Update) /\ handled \in Nat
  BY DEF Typed, TypeOK
<1>2. /\ Len(waiting) = Len(updates) + Len(batch)
      /\ \A i \in 1 .. Len(waiting) :
           waiting[i] = IF i <= Len(updates) THEN updates[i] ELSE batch[i - Len(updates)]
  BY <1>1
<1>3. DOMAIN waiting = 1 .. Len(waiting)
  BY <1>1
<1>4. CASE ~cancelled
  <2>1. ASSUME NEW i \in DOMAIN waiting
        PROVE  waiting[i].serial = handled + i
    <3>1. CASE i <= Len(updates)
      BY <1>1, <1>2, <1>3, <1>4, <2>1, <3>1 DEF Numbered
    <3>2. CASE i > Len(updates)
      <4>1. i - Len(updates) \in 1 .. Len(batch) /\ waiting[i] = batch[i - Len(updates)]
        BY <1>1, <1>2, <1>3, <2>1, <3>2
      <4>2. batch[i - Len(updates)].serial = handled + Len(updates) + (i - Len(updates))
        BY <1>4, <4>1 DEF Numbered
      <4> QED
        BY <1>1, <1>3, <2>1, <4>1, <4>2
    <3> QED
      BY <1>1, <1>3, <2>1, <3>1, <3>2
  <2>2. received = handled + Len(waiting)
    BY <1>1, <1>2, <1>4 DEF Numbered
  <2> QED
    BY <2>1, <2>2 DEF NothingLost
<1> QED
  BY <1>4 DEF NothingLost

(* Every variable keeps its type, the channels their capacities. *)
THEOREM TypeCorrect == Spec => []TypeOK
<1>1. IInv => TypeOK
  BY DEF IInv, Typed
<1> QED
  BY <1>1, Inductive, PTL

(* Stream has at most its current connection open, whichever way it left   *)
(* the earlier ones.                                                       *)
THEOREM OneConnectionAtATime == Spec => []OneConnection
<1>1. IInv => OneConnection
  BY DEF IInv
<1> QED
  BY <1>1, Inductive, PTL

(* What was read is what Run has handled, what the channel holds and what  *)
(* the reader still has in its hands, in this order and without a gap.     *)
THEOREM NothingIsLost == Spec => []NothingLost
<1>1. IInv => NothingLost
  BY NumberedInARow DEF IInv
<1> QED
  BY <1>1, Inductive, PTL

(* Run returns from a stream that has ended only after the last update. *)
THEOREM RunDrains == Spec => []DrainedBeforeReturn
<1>1. IInv => DrainedBeforeReturn
  <2> SUFFICES ASSUME IInv, runner = "returned", ~cancelled PROVE handled = received
    BY DEF DrainedBeforeReturn
  <2>1. closed /\ updates = <<>>
    BY DEF IInv, Drained
  <2>2. batch = <<>>
    BY <2>1 DEF IInv, ClosedByStream, InHand, At
  <2>3. received = handled + Len(updates) + Len(batch) /\ handled \in Nat
    BY DEF IInv, Numbered, Typed, TypeOK
  <2> QED
    BY <2>1, <2>2, <2>3
<1> QED
  BY <1>1, Inductive, PTL

(* Only a cancelled context and the configured number of failures in a row *)
(* end the stream.                                                         *)
THEOREM OnlyTheLimitEndsStream == Spec => []StreamSurvives
<1>1. IInv => StreamSurvives
  BY DEF IInv
<1> QED
  BY <1>1, Inductive, PTL
=============================================================================
