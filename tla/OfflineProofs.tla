---------------------------- MODULE OfflineProofs ----------------------------
(***************************************************************************)
(* Proofs about the parts that run apart from the worker: PaperRouter, for *)
(* any orders, caps and whitelists; RawLedger, for any stream and any      *)
(* operators; AssetPicker, for any venue and flags.                        *)
(***************************************************************************)
EXTENDS PaperRouter, RawLedger, AssetPicker, RiskGateProofs, FunctionTheorems, SequenceTheorems

-----------------------------------------------------------------------------
(* The paper router. *)

(* Each step keeps the types. *)
LEMMA PaperTypeStep == TypeOK /\ [Next]_vars => TypeOK'
<1> SUFFICES ASSUME TypeOK, [Next]_vars PROVE TypeOK'
  OBVIOUS
<1> USE DEF TypeOK
<1>1. ASSUME NEW o \in Orders, Submit(o) PROVE TypeOK'
  <2>1. o \in LiveOrder /\ o.market \in Markets \cup {Empty} /\ o.notional \in Int
    BY PaperAssumption DEF LiveOrder
  <2>2. paper' \in [exposure : [Markets \cup {Empty} -> Nat], dayPnL : Int, halted : BOOLEAN]
    <3>1. CASE PaperTakes(o)
      <4>1. PaperNextExposure(o) \in Nat
        BY <2>1, <3>1 DEF PaperTakes, PaperNextExposure
      <4> QED BY <1>1, <2>1, <3>1, <4>1 DEF Submit
    <3>2. CASE ~PaperTakes(o)
      BY <1>1, <3>2 DEF Submit
    <3> QED BY <3>1, <3>2
  <2>3. live' \in Router
    <3>1. CASE LiveTakes(o)
      <4>1. ~Fails(live, o, 0).invalid_live_order
        BY <3>1, AdmitsEach DEF LiveTakes
      <4>2. o.key # Empty
        BY <4>1 DEF Fails
      <4> QED BY <1>1, <2>1, <3>1, <4>2, CommitType, NextExposureType DEF Submit
    <3>2. CASE ~LiveTakes(o)
      BY <1>1, <3>2 DEF Submit
    <3> QED BY <3>1, <3>2
  <2>4. PaperTakes(o) \in BOOLEAN /\ LiveTakes(o) \in BOOLEAN /\ OnlyLiveRefuses(o) \in BOOLEAN
    BY DEF PaperTakes, LiveTakes, OnlyLiveRefuses, Admits
  <2> QED
    BY <1>1, <2>2, <2>3, <2>4 DEF Submit
<1>2. ASSUME NEW pnl \in PnLs, RecordPnL(pnl) PROVE TypeOK'
  <2>1. pnl \in Int
    BY PaperAssumption
  <2>2. Halted(paper.dayPnL + pnl) \in BOOLEAN /\ LossCapExceeded(live') \in BOOLEAN
    BY DEF Halted, LossCapExceeded, Exceeds
  <2>3. live' \in Router
    BY <1>2, <2>1 DEF RecordPnL, Router
  <2>4. paper' \in [exposure : [Markets \cup {Empty} -> Nat], dayPnL : Int, halted : BOOLEAN]
    <3> DEFINE Typed == [exposure : [Markets \cup {Empty} -> Nat], dayPnL : Int, halted : BOOLEAN]
    <3>1. ASSUME NEW d \in Int, NEW h \in BOOLEAN
          PROVE  [paper EXCEPT !.dayPnL = d, !.halted = h] \in Typed
      OBVIOUS
    <3>2. paper.dayPnL + pnl \in Int
      BY <2>1
    <3>3. paper' = [paper EXCEPT !.dayPnL = paper.dayPnL + pnl, !.halted = Halted(paper.dayPnL + pnl)]
      BY <1>2 DEF RecordPnL
    <3> HIDE DEF Typed
    <3> QED
      BY <2>2, <3>1, <3>2, <3>3, Zenon DEF Typed
  <2>5. killed' \in BOOLEAN /\ verdicts' = verdicts /\ parted' = parted
    BY <1>2, <2>2, Zenon DEF RecordPnL
  <2> QED
    BY <2>3, <2>4, <2>5
<1>3. CASE OperatorTrigger \/ Reset
  BY <1>3 DEF OperatorTrigger, Reset
<1>4. CASE UNCHANGED vars
  BY <1>4 DEF vars
<1> QED
  BY <1>1, <1>2, <1>3, <1>4 DEF Next

(* The initial states are well typed. *)
LEMMA PaperTypeInit == Init => TypeOK
<1> SUFFICES ASSUME Init PROVE TypeOK
  OBVIOUS
<1>1. paper \in [exposure : [Markets \cup {Empty} -> Nat], dayPnL : Int, halted : BOOLEAN]
  BY DEF Init
<1>2. NewLiveRouter \in Router
  BY DEF NewLiveRouter, Router
<1>3. /\ live \in Router /\ killed \in BOOLEAN /\ parted \in BOOLEAN
      /\ verdicts \in [paper : BOOLEAN, live : BOOLEAN]
  BY <1>2 DEF Init
<1> QED
  BY <1>1, <1>3 DEF TypeOK

(* Every variable keeps its type and no paper exposure is ever negative,   *)
(* for any orders, caps and PnLs.                                          *)
THEOREM PaperTypeCorrect == Spec => []TypeOK
<1> QED BY PaperTypeInit, PaperTypeStep, PTL DEF Spec

(* PaperRouter.Submit keeps every market within its cap, whatever orders   *)
(* and losses come in whatever order.                                      *)
THEOREM PaperCapAlwaysHolds == Spec => []PaperCapHolds
<1>1. Init => PaperCapHolds
  <2> SUFFICES ASSUME Init, PerMarketExposureCap > 0, NEW m \in Markets
               PROVE  paper.exposure[m] <= PerMarketExposureCap
    BY DEF PaperCapHolds
  <2>1. paper.exposure = [n \in Markets \cup {Empty} |-> 0]
    BY DEF Init
  <2> QED
    BY <2>1, RiskGateAssumption
<1>2. TypeOK /\ PaperCapHolds /\ [Next]_vars => PaperCapHolds'
  <2> SUFFICES ASSUME TypeOK, PaperCapHolds, [Next]_vars,
                      PerMarketExposureCap > 0, NEW m \in Markets
               PROVE  paper'.exposure[m] <= PerMarketExposureCap
    BY DEF PaperCapHolds
  <2>1. ASSUME NEW o \in Orders, Submit(o)
        PROVE  paper'.exposure[m] <= PerMarketExposureCap
    <3>1. CASE PaperTakes(o)
      <4>1. paper' = [paper EXCEPT !.exposure[o.market] = PaperNextExposure(o)]
        BY <2>1, <3>1 DEF Submit
      <4>2. o.notional \in Int /\ o.market \in Markets \cup {Empty}
        BY PaperAssumption DEF LiveOrder
      <4>3. PaperNextExposure(o) <= PerMarketExposureCap
        BY <3>1, <4>2, RiskGateAssumption DEF PaperTakes, PaperNextExposure, Exceeds, TypeOK
      <4> QED BY <4>1, <4>2, <4>3 DEF PaperCapHolds, TypeOK
    <3>2. CASE ~PaperTakes(o)
      BY <2>1, <3>2 DEF Submit, PaperCapHolds
    <3> QED BY <3>1, <3>2
  <2>2. CASE \E pnl \in PnLs : RecordPnL(pnl)
    BY <2>2 DEF RecordPnL, TypeOK, PaperCapHolds
  <2>3. CASE OperatorTrigger \/ Reset \/ UNCHANGED vars
    BY <2>3 DEF OperatorTrigger, Reset, vars, PaperCapHolds
  <2> QED
    BY <2>1, <2>2, <2>3 DEF Next
<1> QED
  BY <1>1, <1>2, PaperTypeCorrect, PTL DEF Spec

(* An order that no check of the live router alone refuses gets one        *)
(* verdict from two routers with the same exposure and the same halt.      *)
LEMMA SameVerdict ==
  ASSUME NEW o \in LiveOrder, TypeOK,
         paper.exposure = live.exposure, paper.halted = killed,
         LossCapExceeded(live) => killed,
         ~OnlyLiveRefuses(o)
  PROVE  PaperTakes(o) = LiveTakes(o)
<1>1. PaperNextExposure(o) = NextExposure(live, o)
  BY DEF PaperNextExposure, NextExposure
<1>4. LiveTakes(o) <=>
        /\ ~killed /\ ~Fails(live, o, 0).daily_loss_cap
        /\ ~Fails(live, o, 0).invalid_live_order
        /\ ~Fails(live, o, 0).market_exposure_cap
  BY AdmitsEach DEF LiveTakes, OnlyLiveRefuses
<1>5. /\ Fails(live, o, 0).daily_loss_cap = LossCapExceeded(live)
      /\ Fails(live, o, 0).invalid_live_order
           = (Empty \in {o.key, o.market, o.country} \/ o.notional <= 0)
      /\ Fails(live, o, 0).market_exposure_cap
           = Exceeds(NextExposure(live, o), PerMarketExposureCap)
  BY DEF Fails
<1>6. o.country # Empty /\ o.notional \in Int
  BY DEF OnlyLiveRefuses, LiveOrder
<1>7. LiveTakes(o) \in BOOLEAN /\ PaperTakes(o) \in BOOLEAN
  BY DEF LiveTakes, PaperTakes, Admits
<1>8. PaperTakes(o) <=>
        /\ ~killed /\ ~(Empty \in {o.key, o.market} \/ o.notional <= 0)
        /\ ~Exceeds(NextExposure(live, o), PerMarketExposureCap)
  <2>1. o.notional > 0 <=> ~(o.notional <= 0)
    BY <1>6
  <2> QED
    BY <1>1, <2>1, Zenon DEF PaperTakes
<1>9. LiveTakes(o) <=> PaperTakes(o)
  BY <1>4, <1>5, <1>6, <1>8, Zenon
<1> QED
  BY <1>7, <1>9

(* Until the routers part, the kill switch remembers a breach as the       *)
(* paper router's halt does.                                               *)
BreachKills == ~parted => (LossCapExceeded(live) => killed)

ParityInv == Parity /\ BreachKills

(* Each step keeps the routers together, or is seen to part them. *)
LEMMA ParityStep == TypeOK /\ ParityInv /\ [Next]_vars => ParityInv'
<1> SUFFICES ASSUME TypeOK, ParityInv, [Next]_vars, ~parted'
             PROVE  /\ paper'.exposure = live'.exposure
                    /\ paper'.dayPnL = live'.dayPnL
                    /\ paper'.halted = killed'
                    /\ verdicts'.paper = verdicts'.live
                    /\ LossCapExceeded(live') => killed'
  BY DEF ParityInv, Parity, BreachKills, LossCapExceeded
<1>1. ASSUME NEW o \in Orders, Submit(o)
      PROVE  /\ paper'.exposure = live'.exposure
             /\ paper'.dayPnL = live'.dayPnL
             /\ paper'.halted = killed'
             /\ verdicts'.paper = verdicts'.live
             /\ LossCapExceeded(live') => killed'
  <2>1. ~parted /\ ~OnlyLiveRefuses(o) /\ o \in LiveOrder
    BY <1>1, PaperAssumption DEF Submit, TypeOK
  <2>2. /\ paper.exposure = live.exposure /\ paper.dayPnL = live.dayPnL
        /\ paper.halted = killed /\ (LossCapExceeded(live) => killed)
    BY <2>1 DEF ParityInv, Parity, BreachKills
  <2>3. PaperTakes(o) = LiveTakes(o)
    BY <2>1, <2>2, SameVerdict
  <2>4. PaperNextExposure(o) = NextExposure(live, o)
    BY <2>2 DEF PaperNextExposure, NextExposure
  <2>5. paper'.exposure = live'.exposure
    BY <1>1, <2>2, <2>3, <2>4 DEF Submit, Commit, TypeOK, Router
  <2>6. /\ paper'.dayPnL = paper.dayPnL /\ paper'.halted = paper.halted
        /\ live'.dayPnL = live.dayPnL /\ killed' = killed
    BY <1>1 DEF Submit, Commit, TypeOK, Router
  <2> QED
    BY <1>1, <2>2, <2>3, <2>5, <2>6 DEF Submit, LossCapExceeded
<1>2. ASSUME NEW pnl \in PnLs, RecordPnL(pnl)
      PROVE  /\ paper'.exposure = live'.exposure
             /\ paper'.dayPnL = live'.dayPnL
             /\ paper'.halted = killed'
             /\ verdicts'.paper = verdicts'.live
             /\ LossCapExceeded(live') => killed'
  <2>1. /\ paper.exposure = live.exposure /\ paper.dayPnL = live.dayPnL
        /\ paper.halted = killed /\ verdicts.paper = verdicts.live
    BY <1>2 DEF RecordPnL, ParityInv, Parity
  <2>2. paper'.dayPnL = paper.dayPnL + pnl /\ live'.dayPnL = live.dayPnL + pnl
    BY <1>2 DEF RecordPnL, TypeOK, Router
  <2>3. paper'.halted = (paper.halted \/ Exceeds(-(paper.dayPnL + pnl), DailyLossCap))
    BY <1>2 DEF RecordPnL, Halted, TypeOK
  <2>4. killed' = (killed \/ Exceeds(-(live.dayPnL + pnl), DailyLossCap))
    BY <1>2, <2>2 DEF RecordPnL, LossCapExceeded
  <2>5. paper'.exposure = paper.exposure /\ live'.exposure = live.exposure
    BY <1>2 DEF RecordPnL, TypeOK, Router
  <2> QED
    BY <1>2, <2>1, <2>2, <2>3, <2>4, <2>5 DEF RecordPnL, LossCapExceeded
<1>3. CASE OperatorTrigger \/ Reset
  BY <1>3 DEF OperatorTrigger, Reset, ParityInv, Parity, BreachKills, TypeOK
<1>4. CASE UNCHANGED vars
  BY <1>4 DEF vars, ParityInv, Parity, BreachKills
<1> QED
  BY <1>1, <1>2, <1>3, <1>4 DEF Next

(* Paper/live parity, for any orders, keys, caps and losses: as long as no *)
(* check that only LiveRouter has refused an order and no operator has set *)
(* or cleared the kill switch, the paper router's exposure, halt and       *)
(* verdicts are the live router's.                                         *)
THEOREM PaperLiveParity == Spec => []Parity
<1>1. Init => ParityInv
  <2> SUFFICES ASSUME Init PROVE ParityInv
    OBVIOUS
  <2>1. Parity
    BY DEF Init, Parity, NewLiveRouter
  <2>2. live.dayPnL = 0
    BY DEF Init, NewLiveRouter
  <2>3. ~LossCapExceeded(live)
    BY <2>2, RiskGateAssumption DEF LossCapExceeded, Exceeds
  <2> QED
    BY <2>1, <2>3 DEF ParityInv, BreachKills
<1>2. ParityInv => Parity
  BY DEF ParityInv
<1> QED
  BY <1>1, <1>2, ParityStep, PaperTypeCorrect, PTL DEF Spec

-----------------------------------------------------------------------------
(* The ledger of raw events. *)

Event == Stream \cup Markers

(* Events are told by their ids, and a marker's id is its number.          *)
LEMMA EventFacts ==
  ASSUME NEW e \in Event
  PROVE  /\ e.id \in Int /\ e.seq \in 0..MaxSequence /\ e.seq \in Int
         /\ e.id <= MaxSequence => e.seq = e.id
<1>1. MaxSequence \in Nat
  BY LedgerAssumption
<1>2. CASE e \in Stream
  BY <1>1, <1>2, LedgerAssumption
<1>3. CASE e \in Markers
  <2>1. PICK n \in 1..MaxSequence, base \in Bases : e = Marker(n, base)
    BY <1>3 DEF Markers
  <2> QED
    BY <1>1, <2>1 DEF Marker
<1> QED
  BY <1>2, <1>3 DEF Event

LEMMA MarkerFacts ==
  ASSUME NEW e \in Markers
  PROVE  e \in Event /\ e.seq \in 1..MaxSequence /\ e.id = e.seq /\ e.id <= MaxSequence
<1>1. PICK n \in 1..MaxSequence, base \in Bases : e = Marker(n, base)
  BY DEF Markers
<1> QED
  BY <1>1, LedgerAssumption DEF Marker, Event

LEMMA NumberFacts ==
  ASSUME NEW events \in Seq(Event)
  PROVE  Numbers(events) \in SUBSET (1..MaxSequence)
<1>1. \A i \in DOMAIN events : events[i] \in Event
  OBVIOUS
<1>2. \A i \in DOMAIN events : events[i].seq \in 0..MaxSequence
  BY <1>1, EventFacts
<1> QED
  BY <1>2, LedgerAssumption DEF Numbers

(* What a write leaves: the events that were there, and one with its id.   *)
LEMMA WriteFacts ==
  ASSUME NEW events \in Seq(Event), NEW e \in Event,
         \A i, j \in DOMAIN events : events[i].id = events[j].id => i = j
  PROVE  /\ Write(events, e) \in Seq(Event)
         /\ \A i, j \in DOMAIN Write(events, e) :
              Write(events, e)[i].id = Write(events, e)[j].id => i = j
         /\ Numbers(events) \subseteq Numbers(Write(events, e))
         /\ \E i \in DOMAIN Write(events, e) : Write(events, e)[i].id = e.id
<1>1. CASE \E i \in DOMAIN events : events[i].id = e.id
  BY <1>1 DEF Write
<1>2. CASE ~\E i \in DOMAIN events : events[i].id = e.id
  <2> DEFINE after == Append(events, e)
  <2>1. Write(events, e) = after
    BY <1>2 DEF Write
  <2>2. /\ after \in Seq(Event) /\ DOMAIN events = 1..Len(events) /\ Len(events) \in Nat
        /\ DOMAIN after = 1..Len(events) + 1
        /\ \A i \in DOMAIN events : after[i] = events[i]
        /\ after[Len(events) + 1] = e
    OBVIOUS
  <2> HIDE DEF after
  <2>3. \A i, j \in DOMAIN after : after[i].id = after[j].id => i = j
    <3> SUFFICES ASSUME NEW i \in DOMAIN after, NEW j \in DOMAIN after, after[i].id = after[j].id
                 PROVE  i = j
      OBVIOUS
    <3>1. CASE i \in DOMAIN events /\ j \in DOMAIN events
      BY <2>2, <3>1
    <3>2. CASE i = Len(events) + 1 \/ j = Len(events) + 1
      BY <1>2, <2>2, <3>2
    <3> QED
      BY <2>2, <3>1, <3>2
  <2>4. Numbers(events) \subseteq Numbers(after)
    BY <2>2 DEF Numbers
  <2> QED
    BY <2>1, <2>2, <2>3, <2>4
<1> QED
  BY <1>1, <1>2

(* DetectSequenceGaps misses no number between two that are there.         *)
LEMMA GapsCover ==
  ASSUME NEW events \in Seq(Event), NEW a \in Numbers(events), NEW b \in Numbers(events),
         NEW n \in a..b, n \notin Numbers(events)
  PROVE  \E g \in Gaps(events) : n \in g.from..g.to
<1> DEFINE N == Numbers(events)
<1>1. N \subseteq 1..MaxSequence /\ MaxSequence \in Nat
  BY NumberFacts, LedgerAssumption
<1>2. n \in Nat /\ \A m \in N : m \in Nat
  BY <1>1
<1>3. a \in N /\ b \in N /\ a < n /\ n < b /\ n \notin N
  BY <1>2
<1> HIDE DEF N
<1>4. PICK q \in {m \in N : m > n} : \A m \in {k \in N : k > n} : q <= m
  BY <1>2, <1>3, LeastNat
<1>5. PICK d \in {n - m : m \in {k \in N : k < n}} : \A e \in {n - m : m \in {k \in N : k < n}} : d <= e
  <2>1. {n - m : m \in {k \in N : k < n}} # {}
    BY <1>3
  <2>2. {n - m : m \in {k \in N : k < n}} \subseteq Nat
    BY <1>2
  <2> QED
    BY <2>1, <2>2, LeastNat
<1>6. PICK p \in N : p < n /\ d = n - p
  BY <1>5
<1>7. \A m \in N : m < n => m <= p
  <2> SUFFICES ASSUME NEW m \in N, m < n PROVE m <= p
    OBVIOUS
  <2>1. d <= n - m
    BY <1>5
  <2> QED
    BY <1>2, <1>6, <2>1
<1>8. q - p > 1 /\ \A m \in N : m <= p \/ q <= m
  BY <1>2, <1>3, <1>4, <1>6, <1>7
<1>9. [from |-> p + 1, to |-> q - 1] \in Gaps(events)
  <2>1. <<p, q>> \in N \X N
    BY <1>4, <1>6
  <2> QED
    BY <1>8, <2>1 DEF Gaps, N
<1>10. n \in p + 1..q - 1
  BY <1>2, <1>4, <1>6
<1> QED
  BY <1>9, <1>10

(* Gaps hold numbers of the stream only. *)
LEMMA GapTypes ==
  ASSUME NEW events \in Seq(Event), NEW base \in Bases
  PROVE  Filled(Gaps(events), base) \in SUBSET Markers
<1>1. \A m \in Numbers(events) : m \in 1..MaxSequence /\ MaxSequence \in Nat
  BY NumberFacts, LedgerAssumption
<1>2. ASSUME NEW g \in Gaps(events), NEW n \in g.from..g.to
      PROVE  n \in 1..MaxSequence
  <2>1. PICK p \in Numbers(events) \X Numbers(events) :
          g = [from |-> p[1] + 1, to |-> p[2] - 1]
    BY DEF Gaps
  <2>2. p[1] \in Numbers(events) /\ p[2] \in Numbers(events)
    BY <2>1
  <2> QED
    BY <1>1, <1>2, <2>1, <2>2
<1> QED
  BY <1>2 DEF Filled, Markers

-----------------------------------------------------------------------------
(* The inductive invariant: what a recovery saw missing is written or      *)
(* still to be written.                                                    *)
Closing ==
  \A o \in Operators : \A a, b \in seen[o] : \A n \in a..b :
    n \in Numbers(ledger) \/ \E e \in todo[o] : e.seq = n

LedgerIInv == LedgerTypeOK /\ Closing

LEMMA LedgerInitially == LedgerInit => LedgerIInv
<1> SUFFICES ASSUME LedgerInit PROVE LedgerIInv
  OBVIOUS
<1>1. recovered \in [Operators -> 0..MaxRecoveries]
  <2>1. 0 \in 0..MaxRecoveries
    BY LedgerAssumption
  <2> QED
    BY <2>1 DEF LedgerInit
<1>2. seen \in [Operators -> SUBSET (1..MaxSequence)] /\ \A o \in Operators : seen[o] = {}
  BY DEF LedgerInit
<1>3. ledger = <<>> /\ ledger \in Seq(Stream \cup Markers) /\ todo \in [Operators -> SUBSET Markers]
  BY DEF LedgerInit
<1> QED
  BY <1>1, <1>2, <1>3 DEF LedgerIInv, LedgerTypeOK, Closing

(* A write of an event of the ledger's type. *)
LEMMA WriteStep ==
  ASSUME LedgerTypeOK, NEW e \in Event, ledger' = Write(ledger, e)
  PROVE  /\ ledger' \in Seq(Stream \cup Markers)
         /\ \A i, j \in DOMAIN ledger' : ledger'[i].id = ledger'[j].id => i = j
         /\ Numbers(ledger) \subseteq Numbers(ledger')
         /\ e \in Markers => e.seq \in Numbers(ledger')
<1>1. /\ ledger \in Seq(Event)
      /\ \A i, j \in DOMAIN ledger : ledger[i].id = ledger[j].id => i = j
  BY DEF LedgerTypeOK, Event
<1>2. /\ ledger' \in Seq(Event)
      /\ \A i, j \in DOMAIN ledger' : ledger'[i].id = ledger'[j].id => i = j
      /\ Numbers(ledger) \subseteq Numbers(ledger')
      /\ \E i \in DOMAIN ledger' : ledger'[i].id = e.id
  <2> DEFINE s == Write(ledger, e)
  <2>1. /\ s \in Seq(Event) /\ \A i, j \in DOMAIN s : s[i].id = s[j].id => i = j
        /\ Numbers(ledger) \subseteq Numbers(s)
        /\ \E i \in DOMAIN s : s[i].id = e.id
    BY <1>1, WriteFacts
  <2>2. ledger' = s
    OBVIOUS
  <2> HIDE DEF s
  <2> QED
    BY <2>1, <2>2
<1>3. ASSUME e \in Markers PROVE e.seq \in Numbers(ledger')
  <2>1. PICK i \in DOMAIN ledger' : ledger'[i].id = e.id
    BY <1>2
  <2>2. e.seq \in 1..MaxSequence /\ e.id = e.seq /\ e.id <= MaxSequence
    BY <1>3, MarkerFacts
  <2>3. ledger'[i] \in Event
    BY <1>2, <2>1
  <2>4. ledger'[i].seq = e.seq
    BY <2>1, <2>2, <2>3, EventFacts
  <2> QED
    BY <2>1, <2>2, <2>4, LedgerAssumption DEF Numbers
<1> QED
  BY <1>2, <1>3 DEF Event

LEMMA ArriveStep ==
  ASSUME LedgerIInv, NEW e \in Stream, Arrive(e)
  PROVE  LedgerIInv'
<1>1. e \in Event /\ ledger' = Write(ledger, e) /\ UNCHANGED <<todo, recovered, seen>>
  BY DEF Arrive, Event
<1>2. /\ ledger' \in Seq(Stream \cup Markers)
      /\ \A i, j \in DOMAIN ledger' : ledger'[i].id = ledger'[j].id => i = j
      /\ Numbers(ledger) \subseteq Numbers(ledger')
  BY <1>1, WriteStep DEF LedgerIInv
<1>3. LedgerTypeOK'
  BY <1>1, <1>2 DEF LedgerIInv, LedgerTypeOK
<1>4. Closing'
  BY <1>1, <1>2 DEF LedgerIInv, Closing
<1> QED
  BY <1>3, <1>4 DEF LedgerIInv

(* The operator's gaps are those of the ledger it looked at.               *)
LEMMA RecoverStep ==
  ASSUME LedgerIInv, NEW o \in Operators, Recover(o)
  PROVE  LedgerIInv'
<1>1. PICK base \in Bases : todo' = [todo EXCEPT ![o] = Filled(Gaps(ledger), base)]
  BY DEF Recover
<1>2. /\ recovered[o] < MaxRecoveries /\ recovered' = [recovered EXCEPT ![o] = @ + 1]
      /\ seen' = [seen EXCEPT ![o] = Numbers(ledger)] /\ ledger' = ledger
  BY DEF Recover
<1>3. /\ ledger \in Seq(Event) /\ todo \in [Operators -> SUBSET Markers]
      /\ recovered \in [Operators -> 0..MaxRecoveries]
      /\ seen \in [Operators -> SUBSET (1..MaxSequence)]
  BY DEF LedgerIInv, LedgerTypeOK, Event
<1>4. Filled(Gaps(ledger), base) \in SUBSET Markers /\ Numbers(ledger) \in SUBSET (1..MaxSequence)
  BY <1>3, GapTypes, NumberFacts
<1>5. LedgerTypeOK'
  <2>1. todo' \in [Operators -> SUBSET Markers]
    BY <1>1, <1>3, <1>4
  <2>2. seen' \in [Operators -> SUBSET (1..MaxSequence)]
    BY <1>2, <1>3, <1>4
  <2>3. recovered' \in [Operators -> 0..MaxRecoveries]
    <3>1. recovered[o] + 1 \in 0..MaxRecoveries
      BY <1>2, <1>3, LedgerAssumption
    <3> QED
      BY <1>2, <1>3, <3>1
  <2> QED
    BY <1>2, <2>1, <2>2, <2>3 DEF LedgerIInv, LedgerTypeOK
<1>6. ASSUME NEW a \in Numbers(ledger), NEW b \in Numbers(ledger), NEW n \in a..b,
             n \notin Numbers(ledger)
      PROVE  \E e \in Filled(Gaps(ledger), base) : e.seq = n
  <2>1. PICK g \in Gaps(ledger) : n \in g.from..g.to
    BY <1>3, <1>6, GapsCover
  <2>2. Marker(n, base) \in Filled(Gaps(ledger), base)
    BY <2>1 DEF Filled
  <2> QED
    BY <2>2 DEF Marker
<1>7. Closing'
  <2> SUFFICES ASSUME NEW p \in Operators, NEW a \in seen'[p], NEW b \in seen'[p], NEW n \in a..b,
                      n \notin Numbers(ledger)
               PROVE  \E e \in todo'[p] : e.seq = n
    BY <1>2 DEF Closing
  <2>1. CASE p = o
    <3>1. seen'[p] = Numbers(ledger) /\ todo'[p] = Filled(Gaps(ledger), base)
      BY <1>1, <1>2, <1>3, <2>1
    <3> QED
      BY <1>6, <3>1
  <2>2. CASE p # o
    <3>1. seen'[p] = seen[p] /\ todo'[p] = todo[p]
      BY <1>1, <1>2, <1>3, <2>2
    <3> QED
      BY <3>1 DEF LedgerIInv, Closing
  <2> QED
    BY <2>1, <2>2
<1> QED
  BY <1>5, <1>7 DEF LedgerIInv

LEMMA WriteMarkerStep ==
  ASSUME LedgerIInv, NEW o \in Operators, WriteMarker(o)
  PROVE  LedgerIInv'
<1>1. PICK e \in todo[o] : /\ ledger' = Write(ledger, e)
                           /\ todo' = [todo EXCEPT ![o] = @ \ {e}]
                           /\ UNCHANGED <<recovered, seen>>
  BY DEF WriteMarker
<1>2. todo \in [Operators -> SUBSET Markers] /\ e \in Markers /\ e \in Event
  BY MarkerFacts DEF LedgerIInv, LedgerTypeOK
<1>3. /\ ledger' \in Seq(Stream \cup Markers)
      /\ \A i, j \in DOMAIN ledger' : ledger'[i].id = ledger'[j].id => i = j
      /\ Numbers(ledger) \subseteq Numbers(ledger')
      /\ e.seq \in Numbers(ledger')
  BY <1>1, <1>2, WriteStep DEF LedgerIInv
<1>4. LedgerTypeOK'
  <2>1. todo' \in [Operators -> SUBSET Markers]
    BY <1>1, <1>2
  <2> QED
    BY <1>1, <1>3, <2>1 DEF LedgerIInv, LedgerTypeOK
<1>5. Closing'
  <2> SUFFICES ASSUME NEW p \in Operators, NEW a \in seen[p], NEW b \in seen[p], NEW n \in a..b,
                      n \notin Numbers(ledger')
               PROVE  \E f \in todo'[p] : f.seq = n
    BY <1>1 DEF Closing
  <2>1. PICK f \in todo[p] : f.seq = n
    BY <1>3 DEF LedgerIInv, Closing
  <2>2. f # e
    BY <1>3, <2>1
  <2>3. f \in todo'[p]
    BY <1>1, <1>2, <2>1, <2>2
  <2> QED
    BY <2>1, <2>3
<1> QED
  BY <1>4, <1>5 DEF LedgerIInv

LEMMA LedgerStep == LedgerIInv /\ [LedgerNext]_ledgerVars => LedgerIInv'
<1> SUFFICES ASSUME LedgerIInv, [LedgerNext]_ledgerVars PROVE LedgerIInv'
  OBVIOUS
<1>1. CASE UNCHANGED ledgerVars
  BY <1>1 DEF ledgerVars, LedgerIInv, LedgerTypeOK, Closing
<1> QED
  BY <1>1, ArriveStep, RecoverStep, WriteMarkerStep DEF LedgerNext

LEMMA LedgerInductive == LedgerSpec => []LedgerIInv
BY LedgerInitially, LedgerStep, PTL DEF LedgerSpec

(* Ledger, markers and recoveries keep their types, and no id is in the    *)
(* ledger twice, for any stream and any number of operators.               *)
THEOREM LedgerTypeCorrect == LedgerSpec => []LedgerTypeOK
<1>1. LedgerIInv => LedgerTypeOK
  BY DEF LedgerIInv
<1> QED
  BY <1>1, LedgerInductive, PTL

(* When its last marker is written, a recovery has closed every gap that   *)
(* was in the ledger when it looked, whatever arrived meanwhile and        *)
(* whoever else was recovering.                                            *)
THEOREM RecoveriesClose == LedgerSpec => []GapsClosed
<1>1. LedgerIInv => GapsClosed
  BY DEF LedgerIInv, Closing, GapsClosed
<1> QED
  BY <1>1, LedgerInductive, PTL

-----------------------------------------------------------------------------
(* Replays. *)

Distinct(events) == \A i, j \in DOMAIN events : events[i].id = events[j].id => i = j

(* Of two different events one comes before the other.                     *)
LEMMA BeforeFacts ==
  ASSUME NEW e \in Event, NEW f \in Event
  PROVE  /\ ~(Before(e, f) /\ Before(f, e))
         /\ e.id # f.id => Before(e, f) \/ Before(f, e)
BY EventFacts DEF Before

(* An event's place depends on the set of events only.                     *)
LEMMA PlaceInTheSet ==
  ASSUME NEW events \in Seq(Event), Distinct(events), NEW i \in DOMAIN events
  PROVE  Place(events, i) = Cardinality({x \in ToSet(events) : ~Before(events[i], x)})
<1> DEFINE J == {j \in DOMAIN events : ~Before(events[i], events[j])}
           X == {x \in ToSet(events) : ~Before(events[i], x)}
           g == [j \in J |-> events[j]]
<1>1. /\ DOMAIN events = 1..Len(events) /\ Len(events) \in Nat
      /\ \A j \in DOMAIN events : events[j] \in Event
  OBVIOUS
<1>2. ASSUME NEW j \in DOMAIN events
      PROVE  (Before(events[j], events[i]) \/ (j <= i /\ ~Before(events[i], events[j])))
               <=> ~Before(events[i], events[j])
  <2>1. CASE j = i
    BY <1>1, <2>1, BeforeFacts
  <2>2. CASE j # i
    <3>1. events[i].id # events[j].id
      BY <2>2 DEF Distinct
    <3> QED
      BY <1>1, <3>1, BeforeFacts
  <2> QED
    BY <2>1, <2>2
<1>3. Place(events, i) = Cardinality(J)
  <2>1. {j \in DOMAIN events : \/ Before(events[j], events[i])
                               \/ j <= i /\ ~Before(events[i], events[j])} = J
    BY <1>2
  <2> QED
    BY <2>1 DEF Place
<1>4. IsFiniteSet(J)
  <2>1. IsFiniteSet(1..Len(events)) /\ J \in SUBSET (1..Len(events))
    BY <1>1, FS_Interval
  <2> HIDE DEF J
  <2> QED
    BY <2>1, FS_Subset
<1>5. g \in Bijection(J, X)
  <2>1. g \in [J -> X]
    BY DEF ToSet
  <2>2. \A j, k \in J : g[j] = g[k] => j = k
    BY DEF Distinct
  <2>3. \A x \in X : \E j \in J : g[j] = x
    BY DEF ToSet
  <2> HIDE DEF J, X, g
  <2> QED
    BY <2>1, <2>2, <2>3, Fun_IsBij
<1> HIDE DEF J, X, g
<1>6. Cardinality(X) = Cardinality(J)
  BY <1>4, <1>5, FS_Bijection DEF ExistsBijection
<1> QED
  BY <1>3, <1>6 DEF X

(* Two ledgers of the same events are replayed alike.                      *)
LEMMA ReplayOfTheSet ==
  ASSUME NEW s \in Seq(Event), NEW t \in Seq(Event), Distinct(s), Distinct(t),
         DOMAIN s = DOMAIN t, ToSet(s) = ToSet(t)
  PROVE  Replay(s) = Replay(t)
<1> DEFINE E == ToSet(s)
           P(e) == Cardinality({x \in E : ~Before(e, x)})
<1>1. ASSUME NEW r \in Seq(Event), Distinct(r), ToSet(r) = E, NEW k
      PROVE  AtPlace(r, k) = {e \in E : P(e) = k}
  <2>1. \A i \in DOMAIN r : Place(r, i) = P(r[i])
    BY <1>1, PlaceInTheSet
  <2>2. \A e : e \in E <=> \E i \in DOMAIN r : r[i] = e
    BY <1>1 DEF ToSet
  <2> HIDE DEF E, P
  <2> QED
    BY <1>1, <2>1, <2>2 DEF AtPlace
<1>2. \A k : AtPlace(s, k) = AtPlace(t, k)
  BY <1>1
<1> QED
  BY <1>2 DEF Replay

LEMMA SwappedFacts ==
  ASSUME NEW events \in Seq(Event), Distinct(events), NEW i \in 1..Len(events)-1
  PROVE  /\ Swapped(events, i) \in Seq(Event) /\ Distinct(Swapped(events, i))
         /\ DOMAIN Swapped(events, i) = DOMAIN events
         /\ ToSet(Swapped(events, i)) = ToSet(events)
<1> DEFINE t == Swapped(events, i)
<1>1. Len(events) \in Nat /\ DOMAIN events = 1..Len(events) /\ i \in DOMAIN events /\ i + 1 \in DOMAIN events
  OBVIOUS
<1>2. /\ DOMAIN t = DOMAIN events /\ t[i] = events[i + 1] /\ t[i + 1] = events[i]
      /\ \A j \in DOMAIN events : j # i /\ j # i + 1 => t[j] = events[j]
      /\ t \in Seq(Event)
  BY <1>1 DEF Swapped
<1> HIDE DEF t
<1>3. Distinct(t)
  BY <1>1, <1>2 DEF Distinct
<1>4. ToSet(t) = ToSet(events)
  <2>1. \A j \in DOMAIN t : \E k \in DOMAIN events : t[j] = events[k]
    BY <1>1, <1>2
  <2>2. \A j \in DOMAIN events : \E k \in DOMAIN t : events[j] = t[k]
    BY <1>1, <1>2
  <2> QED
    BY <2>1, <2>2 DEF ToSet
<1> QED
  BY <1>2, <1>3, <1>4 DEF t

(* The order in which events came and markers were written between them    *)
(* does not show in a replay.                                              *)
THEOREM ReplaysAgree == LedgerSpec => []ReplayAgrees
<1>1. LedgerTypeOK => ReplayAgrees
  <2> SUFFICES ASSUME LedgerTypeOK, NEW i \in 1..Len(ledger)-1
               PROVE  Replay(Swapped(ledger, i)) = Replay(ledger)
    BY DEF ReplayAgrees
  <2>1. ledger \in Seq(Event) /\ Distinct(ledger)
    BY DEF LedgerTypeOK, Event, Distinct
  <2> QED
    BY <2>1, SwappedFacts, ReplayOfTheSet
<1> QED
  BY <1>1, LedgerTypeCorrect, PTL


-----------------------------------------------------------------------------
(* The asset picker. *)

LEMMA SmallerOfTwo ==
  ASSUME NEW a \in Int, NEW b \in Int
  PROVE  Min({a, b}) \in {a, b} /\ Min({a, b}) \in Int /\ Min({a, b}) <= a /\ Min({a, b}) <= b
<1>1. \E x \in {a, b} : \A y \in {a, b} : x <= y
  OBVIOUS
<1>2. Min({a, b}) \in {a, b} /\ \A y \in {a, b} : Min({a, b}) <= y
  BY <1>1 DEF Min
<1> QED
  BY <1>2

LEMMA PickerConstants ==
  /\ IsFiniteSet(Venue) /\ Venue \subseteq Market
  /\ PageSize \in Nat \ {0} /\ MaxFetch \in Nat \ {0} /\ MaxSelected \in Int /\ MaxAssetIDs \in Int
  /\ MaxChanges \in Nat
BY PickerAssumption

LEMMA FirstNumbers ==
  ASSUME NEW n \in Nat
  PROVE  IsFiniteSet(1..n) /\ Cardinality(1..n) = n
<1>1. IsFiniteSet(1..n) /\ Cardinality(1..n) = IF 1 > n THEN 0 ELSE n - 1 + 1
  BY FS_Interval
<1> QED
  BY <1>1

LEMMA SmallerThanLength ==
  ASSUME NEW a \in Int, NEW s, Len(s) \in Nat
  PROVE  /\ Min({a, Len(s)}) \in {a, Len(s)} /\ Min({a, Len(s)}) \in Int
         /\ Min({a, Len(s)}) <= a /\ Min({a, Len(s)}) <= Len(s)
<1> DEFINE l == Len(s)
<1>1. l \in Int
  OBVIOUS
<1> HIDE DEF l
<1>2. Min({a, l}) \in {a, l} /\ Min({a, l}) \in Int /\ Min({a, l}) <= a /\ Min({a, l}) <= l
  BY <1>1, SmallerOfTwo
<1> QED
  BY <1>2 DEF l

(* A set that is written as a sequence has all its members there, once.    *)
LEMMA WrittenOut ==
  ASSUME NEW S, IsFiniteSet(S), NEW s \in SetToSeqs(S)
  PROVE  /\ Cardinality(S) \in Nat /\ s \in Seq(S) /\ Len(s) = Cardinality(S)
         /\ DOMAIN s = 1..Cardinality(S) /\ \A i \in DOMAIN s : s[i] \in S
         /\ \A i, j \in DOMAIN s : s[i] = s[j] => i = j
         /\ \A x \in S : \E i \in DOMAIN s : s[i] = x
<1> DEFINE n == Cardinality(S)
<1>1. n \in Nat
  BY FS_CardinalityType
<1>2. s \in [1..n -> S] /\ \A i, j \in 1..n : i # j => s[i] # s[j]
  BY DEF SetToSeqs
<1>3. IsFiniteSet(1..n) /\ Cardinality(1..n) = n
  BY <1>1, FS_Interval
<1> HIDE DEF n
<1>4. ASSUME NEW x \in S, \A i \in 1..n : s[i] # x PROVE FALSE
  <2>1. IsFiniteSet(S \ {x}) /\ Cardinality(S \ {x}) = n - 1
    BY FS_RemoveElement DEF n
  <2>2. s \in [1..n -> S \ {x}] /\ Cardinality(S \ {x}) < Cardinality(1..n)
    BY <1>1, <1>2, <1>3, <1>4, <2>1
  <2>3. \E i, j \in 1..n : i # j /\ s[i] = s[j]
    BY <1>3, <2>1, <2>2, FS_PigeonHole
  <2> QED
    BY <1>2, <2>3
<1>5. s \in Seq(S) /\ Len(s) = n /\ DOMAIN s = 1..n
  BY <1>1, <1>2
<1> QED
  BY <1>1, <1>2, <1>4, <1>5 DEF n

(* Of some pairs of numbers, one comes first. *)
LEMMA FirstPair ==
  ASSUME NEW S \in SUBSET (Nat \X Nat), S # {}
  PROVE  \E p \in S : \A q \in S : p = q \/ Earlier(p, q)
<1> DEFINE A == {i \in Nat : \E p \in S : p[1] = i}
<1>1. A \in SUBSET Nat /\ A # {}
  OBVIOUS
<1>2. PICK a \in A : \A i \in A : a <= i
  BY <1>1, LeastNat
<1> DEFINE B == {j \in Nat : <<a, j>> \in S}
<1>3. B \in SUBSET Nat /\ B # {}
  <2>1. PICK p \in S : p[1] = a
    BY <1>2
  <2>2. p = <<a, p[2]>> /\ p[2] \in Nat
    BY <2>1
  <2> QED
    BY <2>2
<1>4. PICK b \in B : \A j \in B : b <= j
  BY <1>3, LeastNat
<1>5. <<a, b>> \in S /\ a \in Nat /\ b \in Nat
  BY <1>2, <1>4
<1>6. ASSUME NEW q \in S PROVE <<a, b>> = q \/ Earlier(<<a, b>>, q)
  <2>1. q = <<q[1], q[2]>> /\ q[1] \in Nat /\ q[2] \in Nat
    OBVIOUS
  <2>2. a <= q[1]
    BY <1>2, <2>1
  <2>3. q[1] = a => b <= q[2]
    BY <1>4, <2>1
  <2>4. a < q[1] \/ (a = q[1] /\ (b < q[2] \/ b = q[2]))
    BY <1>5, <2>1, <2>2, <2>3
  <2>5. a = q[1] /\ b = q[2] => <<a, b>> = q
    BY <2>1
  <2>6. Earlier(<<a, b>>, q) <=> a < q[1] \/ (a = q[1] /\ b < q[2])
    BY DEF Earlier
  <2> QED
    BY <2>4, <2>5, <2>6
<1> QED
  BY <1>5, <1>6

(* The tokens of a snapshot are those of a market of the venue.            *)
Readable(m) == m.tokens # <<>> /\ \E v \in Venue : m.tokens = v.tokens

LEMMA PlaceFacts ==
  ASSUME NEW sel \in Seq(Market)
  PROVE  /\ \A p \in Places(sel) : /\ p = <<p[1], p[2]>> /\ p[1] \in DOMAIN sel
                                   /\ p[2] \in DOMAIN sel[p[1]].tokens
                                   /\ p \in Nat \X Nat /\ TokenAt(sel, p) \in Int
         /\ \A i \in DOMAIN sel : \A j \in DOMAIN sel[i].tokens : <<i, j>> \in Places(sel)
         /\ IsFiniteSet(FirstPlaces(sel))
<1>1. ASSUME NEW i \in DOMAIN sel
      PROVE  /\ sel[i].tokens \in Seq(Int) /\ DOMAIN sel[i].tokens = 1..Len(sel[i].tokens)
             /\ Len(sel[i].tokens) \in Nat /\ i \in Nat
  <2>1. sel[i] \in Market /\ i \in Nat
    OBVIOUS
  <2>2. sel[i].tokens \in Seq(Int)
    BY <2>1 DEF Market
  <2> DEFINE t == sel[i].tokens
  <2>3. t \in Seq(Int)
    BY <2>2
  <2> HIDE DEF t
  <2>4. DOMAIN t = 1..Len(t) /\ Len(t) \in Nat
    BY <2>3
  <2> QED
    BY <2>1, <2>3, <2>4 DEF t
<1>2. ASSUME NEW p \in Places(sel)
      PROVE  /\ p = <<p[1], p[2]>> /\ p[1] \in DOMAIN sel /\ p[2] \in DOMAIN sel[p[1]].tokens
             /\ p \in Nat \X Nat /\ TokenAt(sel, p) \in Int
  <2>1. PICK i \in DOMAIN sel : p \in {i} \X DOMAIN sel[i].tokens
    BY DEF Places
  <2>2. p = <<p[1], p[2]>> /\ p[1] = i /\ p[2] \in DOMAIN sel[i].tokens
    BY <2>1
  <2>3. p[2] \in Nat /\ sel[i].tokens[p[2]] \in Int
    BY <1>1, <2>2
  <2> QED
    BY <1>1, <2>2, <2>3 DEF TokenAt
<1>3. \A i \in DOMAIN sel : \A j \in DOMAIN sel[i].tokens : <<i, j>> \in Places(sel)
  BY DEF Places
<1>4. IsFiniteSet(Places(sel))
  <2> DEFINE f == [i \in DOMAIN sel |-> {i} \X DOMAIN sel[i].tokens]
             T == {f[i] : i \in DOMAIN sel}
  <2>1. IsFiniteSet(DOMAIN sel)
    <3>1. DOMAIN sel = 1..Len(sel) /\ Len(sel) \in Nat
      OBVIOUS
    <3> QED
      BY <3>1, FS_Interval
  <2>2. f \in Surjection(DOMAIN sel, T)
    BY DEF Surjection
  <2>3. IsFiniteSet(T)
    BY <2>1, <2>2, FS_Surjection
  <2>4. ASSUME NEW i \in DOMAIN sel PROVE IsFiniteSet({i} \X DOMAIN sel[i].tokens)
    <3>1. IsFiniteSet(DOMAIN sel[i].tokens)
      BY <1>1, FirstNumbers
    <3>2. IsFiniteSet({i})
      BY FS_Singleton
    <3> QED
      BY <3>1, <3>2, FS_Product
  <2>5. \A U \in T : IsFiniteSet(U)
    BY <2>4
  <2>6. Places(sel) = UNION T
    BY DEF Places
  <2> HIDE DEF f, T
  <2> QED
    BY <2>3, <2>5, <2>6, FS_UNION
<1>5. IsFiniteSet(FirstPlaces(sel))
  <2>1. FirstPlaces(sel) \in SUBSET Places(sel)
    BY DEF FirstPlaces
  <2> QED
    BY <1>4, <2>1, FS_Subset
<1> QED
  BY <1>2, <1>3, <1>5

(* Every token that is listed is listed first somewhere. *)
LEMMA ListedFirst ==
  ASSUME NEW sel \in Seq(Market), NEW p \in Places(sel)
  PROVE  \E q \in FirstPlaces(sel) : TokenAt(sel, q) = TokenAt(sel, p)
<1> DEFINE S == {q \in Places(sel) : TokenAt(sel, q) = TokenAt(sel, p)}
<1>1. S \in SUBSET (Nat \X Nat) /\ S # {}
  BY PlaceFacts
<1>2. PICK q \in S : \A r \in S : q = r \/ Earlier(q, r)
  BY <1>1, FirstPair
<1>3. q \in FirstPlaces(sel)
  BY <1>2 DEF FirstPlaces
<1> QED
  BY <1>2, <1>3

(* Two first places have different tokens. *)
LEMMA FirstPlacesDiffer ==
  ASSUME NEW sel \in Seq(Market), NEW p \in FirstPlaces(sel), NEW q \in FirstPlaces(sel),
         TokenAt(sel, p) = TokenAt(sel, q)
  PROVE  p = q
<1>1. p \in Places(sel) /\ q \in Places(sel)
  BY DEF FirstPlaces
<1>2. p[1] \in Nat /\ p[2] \in Nat /\ q[1] \in Nat /\ q[2] \in Nat
  BY <1>1, PlaceFacts
<1>3. (q = p \/ Earlier(p, q)) /\ (p = q \/ Earlier(q, p))
  BY <1>1 DEF FirstPlaces
<1>4. ~(Earlier(p, q) /\ Earlier(q, p))
  BY <1>2 DEF Earlier
<1> QED
  BY <1>3, <1>4

LEMMA FactorsGrow ==
  ASSUME NEW a \in Nat, NEW b \in Nat, NEW c \in Nat, a <= b
  PROVE  a * c <= b * c
<1>1. PICK d \in Nat : b = a + d
  <2>1. b - a \in Nat /\ b = a + (b - a)
    OBVIOUS
  <2> QED
    BY <2>1
<1>2. b * c = a * c + d * c
  BY <1>1
<1>3. d * c \in Nat /\ a * c \in Nat
  BY <1>1
<1> QED
  BY <1>2, <1>3

(* There is room for the tokens of a selection. *)
LEMMA RoomForTokens ==
  ASSUME RoomForAll, MaxAssetIDs >= 0, NEW sel \in Seq(Market), Len(sel) <= MaxSelected,
         \A i \in DOMAIN sel : Readable(sel[i])
  PROVE  Cardinality(FirstPlaces(sel)) <= MaxAssetIDs
<1>1. /\ MaxAssetIDs \in Nat /\ MaxSelected \in Nat /\ MaxSelected > 0 /\ Len(sel) \in Nat
      /\ DOMAIN sel = 1..Len(sel)
      /\ \A v \in Venue : MaxAssetIDs >= Len(v.tokens) * MaxSelected
  BY PickerConstants DEF RoomForAll
<1>2. \A v \in Venue : v.tokens \in Seq(Int) /\ Len(v.tokens) \in Nat
  BY PickerConstants DEF Market
<1> DEFINE Bounds == {w \in Nat : \A v \in Venue : Len(v.tokens) <= w}
<1>3. MaxAssetIDs \in Bounds
  <2> SUFFICES ASSUME NEW v \in Venue PROVE Len(v.tokens) <= MaxAssetIDs
    BY <1>1
  <2> DEFINE k == Len(v.tokens)
  <2>1. k \in Nat /\ k * MaxSelected <= MaxAssetIDs
    BY <1>1, <1>2
  <2> HIDE DEF k
  <2>2. 1 \in Nat /\ 1 * k <= MaxSelected * k /\ MaxSelected * k = k * MaxSelected /\ 1 * k = k
    BY <1>1, <2>1, FactorsGrow
  <2>3. MaxSelected * k \in Nat
    BY <1>1, <2>1
  <2>4. k <= MaxAssetIDs
    BY <1>1, <2>1, <2>2, <2>3
  <2> QED
    BY <2>4 DEF k
<1>4. PICK w \in Bounds : \A x \in Bounds : w <= x
  <2>1. Bounds \in SUBSET Nat /\ Bounds # {}
    BY <1>3
  <2> QED
    BY <2>1, LeastNat
<1>w. w \in Nat /\ \A v \in Venue : Len(v.tokens) <= w
  BY <1>4
<1>5. w * MaxSelected <= MaxAssetIDs
  <2>1. CASE w = 0
    BY <1>1, <2>1
  <2>2. CASE \E v \in Venue : Len(v.tokens) = w
    BY <1>1, <2>2
  <2>3. ASSUME w # 0, \A v \in Venue : Len(v.tokens) # w PROVE FALSE
    <3>1. w - 1 \in Nat /\ \A v \in Venue : Len(v.tokens) <= w - 1
      BY <1>2, <1>w, <2>3
    <3>2. w - 1 \in Bounds
      BY <3>1
    <3>3. w <= w - 1
      BY <1>4, <3>2
    <3> QED
      BY <1>w, <3>3
  <2> QED
    BY <2>1, <2>2, <2>3
<1>6. FirstPlaces(sel) \in SUBSET ((1..Len(sel)) \X (1..w))
  <2> SUFFICES ASSUME NEW p \in FirstPlaces(sel) PROVE p \in (1..Len(sel)) \X (1..w)
    OBVIOUS
  <2>1. /\ p = <<p[1], p[2]>> /\ p[1] \in DOMAIN sel /\ p[2] \in DOMAIN sel[p[1]].tokens
        /\ p \in Nat \X Nat
    BY PlaceFacts DEF FirstPlaces
  <2>2. PICK v \in Venue : sel[p[1]].tokens = v.tokens
    BY <2>1 DEF Readable
  <2>3. p[2] \in 1..Len(v.tokens) /\ Len(v.tokens) <= w
    BY <1>2, <1>4, <2>1, <2>2
  <2>4. p[2] \in 1..w
    BY <1>2, <1>4, <2>3
  <2> QED
    BY <1>1, <2>1, <2>4
<1>7. /\ IsFiniteSet((1..Len(sel)) \X (1..w))
      /\ Cardinality((1..Len(sel)) \X (1..w)) = Len(sel) * w
  <2>1. IsFiniteSet(1..Len(sel)) /\ Cardinality(1..Len(sel)) = Len(sel)
    BY <1>1, FirstNumbers
  <2>2. IsFiniteSet(1..w) /\ Cardinality(1..w) = w
    BY <1>w, FirstNumbers
  <2> DEFINE S == 1..Len(sel)
             T == 1..w
  <2>3. IsFiniteSet(S) /\ IsFiniteSet(T) /\ Cardinality(S) = Len(sel) /\ Cardinality(T) = w
    BY <2>1, <2>2
  <2> HIDE DEF S, T
  <2>4. IsFiniteSet(S \X T) /\ Cardinality(S \X T) = Cardinality(S) * Cardinality(T)
    BY <2>3, FS_Product
  <2>5. Cardinality(S \X T) = Len(sel) * w
    BY <2>3, <2>4
  <2> QED
    BY <2>4, <2>5 DEF S, T
<1>8. Cardinality(FirstPlaces(sel)) <= Len(sel) * w /\ Cardinality(FirstPlaces(sel)) \in Nat
  <2> DEFINE all == (1..Len(sel)) \X (1..w)
  <2>1. FirstPlaces(sel) \in SUBSET all /\ IsFiniteSet(all) /\ Cardinality(all) = Len(sel) * w
    BY <1>6, <1>7
  <2> HIDE DEF all
  <2>2. IsFiniteSet(FirstPlaces(sel)) /\ Cardinality(FirstPlaces(sel)) <= Cardinality(all)
    BY <2>1, FS_Subset
  <2> QED
    BY <2>1, <2>2, FS_CardinalityType
<1>9. /\ Len(sel) * w <= MaxSelected * w /\ MaxSelected * w = w * MaxSelected
      /\ Len(sel) * w \in Nat /\ w * MaxSelected \in Nat
  <2>1. Len(sel) * w <= MaxSelected * w
    BY <1>1, <1>w, FactorsGrow
  <2> QED
    BY <1>1, <1>w, <2>1
<1> QED
  BY <1>1, <1>5, <1>8, <1>9
(* The cut of a list of tokens. *)
LEMMA AssetIDsCut ==
  ASSUME NEW tokens \in Seq(Int), NEW limit \in Int
  PROVE  /\ AssetIDs(tokens, limit) \in Seq(Int)
         /\ Len(AssetIDs(tokens, limit)) \in 0..Len(tokens)
         /\ limit >= 0 => Len(AssetIDs(tokens, limit)) <= limit
         /\ limit < 0 \/ Len(tokens) <= limit => Len(AssetIDs(tokens, limit)) = Len(tokens)
         /\ \A i \in 1..Len(AssetIDs(tokens, limit)) : AssetIDs(tokens, limit)[i] = tokens[i]
<1>1. Len(tokens) \in Nat
  OBVIOUS
<1>2. CASE limit < 0
  BY <1>1, <1>2 DEF AssetIDs
<1>3. CASE limit >= 0
  <2> DEFINE n == Min({limit, Len(tokens)})
             cut == SubSeq(tokens, 1, n)
  <2>1. n \in {limit, Len(tokens)} /\ n \in Int /\ n <= limit /\ n <= Len(tokens)
    BY <1>1, SmallerThanLength
  <2>2. n \in 0..Len(tokens)
    BY <1>1, <1>3, <2>1
  <2>3. AssetIDs(tokens, limit) = cut
    <3>1. ~(limit < 0)
      BY <1>3
    <3> QED
      BY <3>1, Zenon DEF AssetIDs
  <2> HIDE DEF n
  <2>4. cut \in Seq(Int) /\ Len(cut) = n /\ \A i \in 1..n : cut[i] = tokens[i]
    BY <1>1, <2>2
  <2> HIDE DEF cut
  <2>5. Len(tokens) <= limit => n = Len(tokens)
    BY <1>1, <2>1, <2>2
  <2> QED
    BY <1>1, <1>3, <2>1, <2>2, <2>3, <2>4, <2>5
<1> QED
  BY <1>2, <1>3

(* What is selected was fetched, and is no more than the flag allows.      *)
LEMMA SelectionFacts ==
  ASSUME fetched \in Seq(Market), \A i \in DOMAIN fetched : Readable(fetched[i]),
         NEW ranked \in SetToSeqs(Candidates)
  PROVE  /\ Selection(ranked) \in Seq(Market)
         /\ \A i \in DOMAIN Selection(ranked) : Readable(Selection(ranked)[i])
         /\ MaxSelected > 0 => Len(Selection(ranked)) <= MaxSelected
<1>1. Candidates \in SUBSET DOMAIN fetched /\ IsFiniteSet(DOMAIN fetched)
  <2>1. DOMAIN fetched = 1..Len(fetched) /\ Len(fetched) \in Nat
    OBVIOUS
  <2> QED
    BY <2>1, FirstNumbers DEF Candidates, Valid
<1>2. IsFiniteSet(Candidates)
  BY <1>1, FS_Subset
<1>3. ranked \in Seq(Candidates) /\ Len(ranked) \in Nat /\ DOMAIN ranked = 1..Len(ranked)
  BY <1>2, WrittenOut
<1> DEFINE n == IF MaxSelected > 0 THEN Min({MaxSelected, Len(ranked)}) ELSE Len(ranked)
           sel == [k \in 1..n |-> fetched[ranked[k]]]
<1>4. n \in 0..Len(ranked) /\ (MaxSelected > 0 => n <= MaxSelected)
  <2>1. MaxSelected \in Int
    BY PickerConstants
  <2>2. /\ Min({MaxSelected, Len(ranked)}) \in {MaxSelected, Len(ranked)}
        /\ Min({MaxSelected, Len(ranked)}) \in Int
        /\ Min({MaxSelected, Len(ranked)}) <= MaxSelected
        /\ Min({MaxSelected, Len(ranked)}) <= Len(ranked)
    BY <1>3, <2>1, SmallerThanLength
  <2>3. CASE MaxSelected > 0
    <3>1. n = Min({MaxSelected, Len(ranked)})
      BY <2>3
    <3> HIDE DEF n
    <3> QED
      BY <1>3, <2>1, <2>2, <2>3, <3>1
  <2>4. CASE ~(MaxSelected > 0)
    BY <1>3, <2>4
  <2> QED
    BY <2>3, <2>4
<1>5. Selection(ranked) = sel
  BY DEF Selection
<1> HIDE DEF n
<1>6. ASSUME NEW k \in 1..n PROVE fetched[ranked[k]] \in Market /\ Readable(fetched[ranked[k]])
  <2>1. k \in DOMAIN ranked /\ ranked[k] \in Candidates
    BY <1>3, <1>4
  <2>2. ranked[k] \in DOMAIN fetched
    BY <1>1, <2>1
  <2> QED
    BY <2>2
<1>7. sel \in Seq(Market) /\ Len(sel) = n /\ DOMAIN sel = 1..n
  BY <1>3, <1>4, <1>6
<1>8. \A k \in DOMAIN sel : Readable(sel[k])
  BY <1>6
<1> HIDE DEF sel
<1> QED
  BY <1>4, <1>5, <1>7, <1>8

(* The tokens of a selection, in the order of their first places.          *)
LEMMA TokensOfSelection ==
  ASSUME NEW sel \in Seq(Market), NEW places \in SetToSeqs(FirstPlaces(sel)), NEW tokens,
         tokens = [k \in DOMAIN places |-> TokenAt(sel, places[k])]
  PROVE  /\ tokens \in Seq(Int) /\ Len(tokens) = Cardinality(FirstPlaces(sel))
         /\ \A j, k \in 1..Len(tokens) : tokens[j] = tokens[k] => j = k
         /\ \A p \in Places(sel) : \E k \in 1..Len(tokens) : tokens[k] = TokenAt(sel, p)
<1> DEFINE n == Cardinality(FirstPlaces(sel))
<1>1. /\ n \in Nat /\ DOMAIN places = 1..n /\ \A k \in 1..n : places[k] \in FirstPlaces(sel)
      /\ \A j, k \in 1..n : places[j] = places[k] => j = k
      /\ \A p \in FirstPlaces(sel) : \E k \in 1..n : places[k] = p
  <2>1. IsFiniteSet(FirstPlaces(sel))
    BY PlaceFacts
  <2>2. /\ n \in Nat /\ DOMAIN places = 1..n
        /\ \A k \in DOMAIN places : places[k] \in FirstPlaces(sel)
        /\ \A j, k \in DOMAIN places : places[j] = places[k] => j = k
        /\ \A p \in FirstPlaces(sel) : \E k \in DOMAIN places : places[k] = p
    BY <2>1, WrittenOut
  <2> HIDE DEF n
  <2> QED
    BY <2>2
<1> HIDE DEF n
<1>2. \A k \in 1..n : tokens[k] = TokenAt(sel, places[k]) /\ TokenAt(sel, places[k]) \in Int
  BY <1>1, PlaceFacts DEF FirstPlaces
<1>3. tokens \in Seq(Int) /\ Len(tokens) = n
  <2>1. tokens \in [1..n -> Int]
    BY <1>1, <1>2
  <2> QED
    BY <1>1, <2>1
<1>4. ASSUME NEW j \in 1..n, NEW k \in 1..n, tokens[j] = tokens[k] PROVE j = k
  <2>1. places[j] = places[k]
    BY <1>1, <1>2, <1>4, FirstPlacesDiffer
  <2> QED
    BY <1>1, <2>1
<1>5. ASSUME NEW p \in Places(sel) PROVE \E k \in 1..n : tokens[k] = TokenAt(sel, p)
  <2>1. PICK q \in FirstPlaces(sel) : TokenAt(sel, q) = TokenAt(sel, p)
    BY ListedFirst
  <2>2. PICK k \in 1..n : places[k] = q
    BY <1>1
  <2> QED
    BY <1>2, <2>1, <2>2
<1> QED
  BY <1>3, <1>4, <1>5 DEF n

(* The pair are two different tokens of the selection, or there is none.   *)
LEMMA PairOfSelection ==
  ASSUME NEW sel \in Seq(Market), \A i \in DOMAIN sel : Readable(sel[i]), NEW tokens \in Seq(Int),
         \A j, k \in 1..Len(tokens) : tokens[j] = tokens[k] => j = k,
         \A p \in Places(sel) : \E k \in 1..Len(tokens) : tokens[k] = TokenAt(sel, p)
  PROVE  \/ SuggestPair(sel, tokens) = <<>>
         \/ \E j, k \in 1..Len(tokens) :
              tokens[j] # tokens[k] /\ SuggestPair(sel, tokens) = <<tokens[j], tokens[k]>>
<1> DEFINE pairs == {p \in (DOMAIN sel) \X (DOMAIN sel) :
                       p[1] < p[2] /\ Pairable(sel[p[1]], sel[p[2]])}
           two == AssetIDs(tokens, 2)
           First(p) == \A q \in pairs : p = q \/ Earlier(p, q)
           pair == CHOOSE p \in pairs : First(p)
<1>1. SuggestPair(sel, tokens) =
        IF pairs # {} THEN <<sel[pair[1]].tokens[1], sel[pair[2]].tokens[1]>>
        ELSE IF Len(two) = 2 THEN <<two[1], two[2]>> ELSE <<>>
  BY DEF SuggestPair
<1>2. CASE pairs # {}
  <2>1. pairs \in SUBSET (Nat \X Nat)
    OBVIOUS
  <2>2. \E p \in pairs : First(p)
    BY <1>2, <2>1, FirstPair
  <2>3. pair \in pairs
    BY <2>2
  <2> HIDE DEF pair
  <2>4. /\ pair[1] \in DOMAIN sel /\ pair[2] \in DOMAIN sel
        /\ sel[pair[1]].tokens[1] # sel[pair[2]].tokens[1]
    BY <2>3 DEF Pairable
  <2> HIDE DEF pairs
  <2>5. ASSUME NEW i \in DOMAIN sel
        PROVE  \E k \in 1..Len(tokens) : tokens[k] = sel[i].tokens[1]
    <3> DEFINE t == sel[i].tokens
    <3>0. sel[i] \in Market /\ Readable(sel[i])
      OBVIOUS
    <3>1. t \in Seq(Int) /\ t # <<>>
      BY <3>0 DEF Market, Readable
    <3> HIDE DEF t
    <3>2. 1 \in DOMAIN t
      BY <3>1
    <3>3. <<i, 1>> \in Places(sel)
      BY <3>2, PlaceFacts DEF t
    <3>4. TokenAt(sel, <<i, 1>>) = sel[i].tokens[1]
      BY DEF TokenAt
    <3> QED
      BY <3>3, <3>4
  <2>6. PICK j \in 1..Len(tokens) : tokens[j] = sel[pair[1]].tokens[1]
    BY <2>4, <2>5
  <2>7. PICK k \in 1..Len(tokens) : tokens[k] = sel[pair[2]].tokens[1]
    BY <2>4, <2>5
  <2>8. SuggestPair(sel, tokens) = <<tokens[j], tokens[k]>>
    BY <1>1, <1>2, <2>6, <2>7
  <2> QED
    BY <2>4, <2>6, <2>7, <2>8
<1>3. CASE pairs = {} /\ Len(two) = 2
  <2>1. SuggestPair(sel, tokens) = <<two[1], two[2]>>
    BY <1>1, <1>3
  <2> HIDE DEF pairs
  <2>2. /\ two \in Seq(Int) /\ Len(two) \in 0..Len(tokens)
        /\ \A i \in 1..Len(two) : two[i] = tokens[i]
    <3>1. 2 \in Int
      OBVIOUS
    <3> QED
      BY <3>1, AssetIDsCut
  <2> HIDE DEF two
  <2>3. /\ 1 \in 1..Len(tokens) /\ 2 \in 1..Len(tokens)
        /\ two[1] = tokens[1] /\ two[2] = tokens[2]
    BY <1>3, <2>2
  <2>4. tokens[1] # tokens[2]
    BY <2>3
  <2> QED
    BY <2>1, <2>3, <2>4
<1>4. CASE pairs = {} /\ Len(two) # 2
  BY <1>1, <1>4
<1> QED
  BY <1>2, <1>3, <1>4

(* What is printed of a selection. *)
LEMMA PrintedFacts ==
  ASSUME NEW sel \in Seq(Market), \A i \in DOMAIN sel : Readable(sel[i]),
         MaxSelected > 0 => Len(sel) <= MaxSelected,
         NEW places \in SetToSeqs(FirstPlaces(sel)), NEW out, out = Printed(sel, places)
  PROVE  /\ out \in [ids : Seq(Int), pair : {<<>>} \cup (Int \X Int)]
         /\ MaxAssetIDs >= 0 => Len(out.ids) <= MaxAssetIDs
         /\ out.pair # <<>> /\ RoomForAll =>
              out.pair[1] # out.pair[2] /\ ToSet(out.pair) \subseteq ToSet(out.ids)
<1> DEFINE tokens == [k \in DOMAIN places |-> TokenAt(sel, places[k])]
<1>1. /\ out = [ids |-> AssetIDs(tokens, MaxAssetIDs), pair |-> SuggestPair(sel, tokens)]
  BY DEF Printed
<1>2. /\ tokens \in Seq(Int) /\ Len(tokens) = Cardinality(FirstPlaces(sel))
      /\ \A j, k \in 1..Len(tokens) : tokens[j] = tokens[k] => j = k
      /\ \A p \in Places(sel) : \E k \in 1..Len(tokens) : tokens[k] = TokenAt(sel, p)
  BY TokensOfSelection
<1> HIDE DEF tokens
<1>3. /\ out.ids \in Seq(Int) /\ (MaxAssetIDs >= 0 => Len(out.ids) <= MaxAssetIDs)
      /\ (MaxAssetIDs < 0 \/ Len(tokens) <= MaxAssetIDs => Len(out.ids) = Len(tokens))
      /\ \A i \in 1..Len(out.ids) : out.ids[i] = tokens[i]
  <2> DEFINE ids == AssetIDs(tokens, MaxAssetIDs)
  <2>1. MaxAssetIDs \in Int
    BY PickerConstants
  <2>2. /\ ids \in Seq(Int) /\ (MaxAssetIDs >= 0 => Len(ids) <= MaxAssetIDs)
        /\ (MaxAssetIDs < 0 \/ Len(tokens) <= MaxAssetIDs => Len(ids) = Len(tokens))
        /\ \A i \in 1..Len(ids) : ids[i] = tokens[i]
    BY <1>2, <2>1, AssetIDsCut
  <2>3. out.ids = ids
    BY <1>1
  <2> HIDE DEF ids
  <2> QED
    BY <2>2, <2>3
<1>4. \/ out.pair = <<>>
      \/ \E j, k \in 1..Len(tokens) :
           tokens[j] # tokens[k] /\ out.pair = <<tokens[j], tokens[k]>>
  <2>1. \/ SuggestPair(sel, tokens) = <<>>
        \/ \E j, k \in 1..Len(tokens) :
             tokens[j] # tokens[k] /\ SuggestPair(sel, tokens) = <<tokens[j], tokens[k]>>
    BY <1>2, PairOfSelection
  <2>2. out.pair = SuggestPair(sel, tokens)
    BY <1>1
  <2> QED
    BY <2>1, <2>2
<1>5. out.pair \in {<<>>} \cup (Int \X Int)
  <2>1. ASSUME NEW j \in 1..Len(tokens), NEW k \in 1..Len(tokens),
               out.pair = <<tokens[j], tokens[k]>>
        PROVE  out.pair \in Int \X Int
    <3>1. tokens[j] \in Int /\ tokens[k] \in Int
      BY <1>2
    <3> QED
      BY <2>1, <3>1
  <2> QED
    BY <1>4, <2>1
<1>6. ASSUME out.pair # <<>>, RoomForAll
      PROVE  out.pair[1] # out.pair[2] /\ ToSet(out.pair) \subseteq ToSet(out.ids)
  <2>1. PICK j \in 1..Len(tokens), k \in 1..Len(tokens) :
          tokens[j] # tokens[k] /\ out.pair = <<tokens[j], tokens[k]>>
    BY <1>4, <1>6
  <2>2. MaxAssetIDs < 0 \/ Len(tokens) <= MaxAssetIDs
    <3>1. MaxAssetIDs \in Int /\ (MaxAssetIDs < 0 \/ MaxSelected > 0)
      BY <1>6, PickerConstants DEF RoomForAll
    <3>2. CASE MaxAssetIDs >= 0
      <4>1. Cardinality(FirstPlaces(sel)) <= MaxAssetIDs
        BY <1>6, <3>1, <3>2, RoomForTokens
      <4> QED
        BY <1>2, <4>1
    <3> QED
      BY <3>1, <3>2
  <2>3. Len(out.ids) = Len(tokens) /\ DOMAIN out.ids = 1..Len(tokens)
    BY <1>3, <2>2
  <2>4. out.ids[j] = tokens[j] /\ out.ids[k] = tokens[k] /\ {j, k} \subseteq DOMAIN out.ids
    BY <1>3, <2>3
  <2>5. ToSet(out.pair) = {tokens[j], tokens[k]}
    <3> DEFINE t == <<tokens[j], tokens[k]>>
    <3>1. DOMAIN t = {1, 2} /\ t[1] = tokens[j] /\ t[2] = tokens[k]
      OBVIOUS
    <3> HIDE DEF t
    <3>2. ToSet(t) = {t[1], t[2]}
      BY <3>1 DEF ToSet
    <3> QED
      BY <2>1, <3>1, <3>2 DEF t
  <2>6. {tokens[j], tokens[k]} \subseteq ToSet(out.ids)
    BY <2>4 DEF ToSet
  <2>7. ToSet(out.pair) \subseteq ToSet(out.ids)
    BY <2>5, <2>6
  <2>8. out.pair[1] = tokens[j] /\ out.pair[2] = tokens[k] /\ tokens[j] # tokens[k]
    BY <2>1
  <2> QED
    BY <2>7, <2>8
<1>7. out \in [ids : Seq(Int), pair : {<<>>} \cup (Int \X Int)]
  <2> DEFINE Pair == {<<>>} \cup (Int \X Int)
  <2>1. out.ids \in Seq(Int) /\ out.pair \in Pair
    BY <1>3, <1>5
  <2> HIDE DEF Pair
  <2>2. out = [ids |-> out.ids, pair |-> out.pair]
    BY <1>1
  <2>3. out \in [ids : Seq(Int), pair : Pair]
    BY <2>1, <2>2
  <2> QED
    BY <2>3 DEF Pair
<1> QED
  BY <1>3, <1>6, <1>7

(* The inductive invariant: what was fetched fits the pages asked for, and *)
(* each of its markets has tokens, those of a market of the venue.         *)
PickerIInv ==
  /\ PickerTypeOK
  /\ PairIsSubscribed
  /\ pc = "events" => offset = 0 /\ fetched = <<>>
  /\ pc = "markets" => Len(fetched) <= offset /\ offset < MaxFetch
  /\ \A i \in DOMAIN fetched : Readable(fetched[i])

(* A page holds no more than was asked for, and only markets of the venue. *)
LEMMA PageFacts ==
  ASSUME PickerTypeOK, offset < MaxFetch
  PROVE  /\ Step \in Nat /\ BatchLimit \in Nat /\ BatchLimit <= Step
         /\ offset + BatchLimit <= MaxFetch
         /\ IsFiniteSet(Page) /\ Cardinality(Page) \in Nat /\ Cardinality(Page) <= BatchLimit
         /\ \A i \in Page : listing[i] \in Venue /\ listing[i].tokens # <<>>
<1>1. /\ offset \in Nat /\ MaxFetch \in Nat /\ PageSize \in Nat /\ listing \in Seq(Venue)
      /\ Len(listing) \in Nat /\ DOMAIN listing = 1..Len(listing)
  BY PickerConstants DEF PickerTypeOK
<1>2. Step \in Nat
  <2>1. PageSize \in Int /\ MaxFetch \in Int
    BY <1>1
  <2>2. Min({PageSize, MaxFetch}) \in {PageSize, MaxFetch}
    BY <2>1, SmallerOfTwo
  <2> QED
    BY <1>1, <2>2 DEF Step
<1>3. BatchLimit \in Nat /\ BatchLimit <= Step /\ offset + BatchLimit <= MaxFetch
  <2> DEFINE rest == MaxFetch - offset
  <2>1. rest \in Nat /\ offset + rest = MaxFetch
    BY <1>1
  <2> HIDE DEF rest
  <2>2. /\ Min({Step, rest}) \in {Step, rest} /\ Min({Step, rest}) \in Int
        /\ Min({Step, rest}) <= Step /\ Min({Step, rest}) <= rest
    BY <1>2, <2>1, SmallerOfTwo
  <2>3. BatchLimit = Min({Step, rest})
    BY DEF BatchLimit, rest
  <2> QED
    BY <1>1, <1>2, <2>1, <2>2, <2>3
<1> DEFINE last == Min({offset + BatchLimit, Len(listing)})
<1>4. last \in Int /\ last <= offset + BatchLimit /\ last <= Len(listing)
  <2>1. offset + BatchLimit \in Int
    BY <1>1, <1>3
  <2> QED
    BY <1>1, <2>1, SmallerThanLength
<1>5. Page \in SUBSET ((offset + 1)..last) /\ \A i \in Page : listing[i].tokens # <<>>
  BY DEF Page
<1> HIDE DEF last
<1>6. \A i \in Page : listing[i] \in Venue
  BY <1>1, <1>4, <1>5
<1>7. Page \in SUBSET ((offset + 1)..(offset + BatchLimit))
  BY <1>1, <1>3, <1>4, <1>5
<1>8. /\ IsFiniteSet((offset + 1)..(offset + BatchLimit))
      /\ Cardinality((offset + 1)..(offset + BatchLimit)) = BatchLimit
  <2> DEFINE a == offset + 1
             b == offset + BatchLimit
  <2>1. a \in Int /\ b \in Int /\ b - a + 1 = BatchLimit /\ (a > b => BatchLimit = 0)
    BY <1>1, <1>3
  <2> HIDE DEF a, b
  <2>2. IsFiniteSet(a..b) /\ Cardinality(a..b) = IF a > b THEN 0 ELSE b - a + 1
    BY <2>1, FS_Interval
  <2>3. Cardinality(a..b) = BatchLimit
    BY <2>1, <2>2
  <2> QED
    BY <2>2, <2>3 DEF a, b
<1>9. IsFiniteSet(Page) /\ Cardinality(Page) \in Nat /\ Cardinality(Page) <= BatchLimit
  BY <1>7, <1>8, FS_Subset, FS_CardinalityType
<1> QED
  BY <1>2, <1>3, <1>5, <1>6, <1>9

(* What is kept of a market of the venue. *)
LEMMA SnapshotFacts ==
  ASSUME NEW m \in Venue, m.tokens # <<>>
  PROVE  Snapshot(m) \in Market /\ Readable(Snapshot(m))
<1>1. m \in Market
  BY PickerConstants
<1>2. Category(m) \in STRING
  BY <1>1 DEF Market, Category, Unknown
<1>3. Snapshot(m) \in Market /\ Snapshot(m).tokens = m.tokens
  BY <1>1, <1>2 DEF Market, Snapshot
<1> QED
  BY <1>3 DEF Readable

LEMMA PickerInitOK == PickerInit => PickerIInv
<1> SUFFICES ASSUME PickerInit PROVE PickerIInv
  OBVIOUS
<1>1. IsFiniteSet(Venue) /\ MaxFetch \in Nat /\ MaxFetch > 0 /\ MaxChanges \in Nat
  BY PickerConstants
<1>2. listing \in Seq(Venue)
  BY <1>1, WrittenOut DEF PickerInit
<1>3. fetched = <<>> /\ fetched \in Seq(Market) /\ Len(fetched) = 0 /\ DOMAIN fetched = {}
  BY DEF PickerInit
<1>4. /\ output \in [ids : Seq(Int), pair : {<<>>} \cup (Int \X Int)]
      /\ output.pair = <<>> /\ Len(output.ids) = 0
  BY DEF PickerInit, NoOutput
<1>5. 0 \in 0..MaxFetch /\ 0 \in 0..MaxChanges
  BY <1>1
<1>6. PickerTypeOK
  <2>1. pc = "events" /\ changes = 0 /\ categories = FALSE /\ offset = 0
    BY DEF PickerInit
  <2>2. MaxAssetIDs >= 0 => Len(output.ids) <= MaxAssetIDs
    BY <1>4
  <2>3. Len(fetched) <= MaxFetch
    BY <1>1, <1>3
  <2> QED
    BY <1>2, <1>3, <1>4, <1>5, <2>1, <2>2, <2>3 DEF PickerTypeOK
<1>7. PairIsSubscribed
  BY <1>4 DEF PairIsSubscribed
<1> QED
  BY <1>1, <1>3, <1>6, <1>7 DEF PickerInit, PickerIInv

(* Nothing is printed before the last step. *)
LEMMA OutputKept ==
  ASSUME PickerIInv, UNCHANGED output
  PROVE  PairIsSubscribed'
BY DEF PickerIInv, PairIsSubscribed, RoomForAll

LEMMA FetchPageOK ==
  ASSUME PickerIInv, FetchPage
  PROVE  PickerIInv'
<1>1. /\ PickerTypeOK /\ pc = "markets" /\ offset < MaxFetch /\ Len(fetched) <= offset
      /\ \A i \in DOMAIN fetched : Readable(fetched[i])
  BY DEF PickerIInv, FetchPage
<1>2. PICK batch \in SetToSeqs(Page) :
        fetched' = fetched \o [k \in DOMAIN batch |-> Snapshot(listing[batch[k]])]
  BY DEF FetchPage, InOrder
<1>3. /\ Step \in Nat /\ BatchLimit \in Nat /\ BatchLimit <= Step
      /\ offset + BatchLimit <= MaxFetch
      /\ IsFiniteSet(Page) /\ Cardinality(Page) \in Nat /\ Cardinality(Page) <= BatchLimit
      /\ \A i \in Page : listing[i] \in Venue /\ listing[i].tokens # <<>>
  BY <1>1, PageFacts
<1>4. /\ DOMAIN batch = 1..Cardinality(Page)
      /\ \A k \in 1..Cardinality(Page) : batch[k] \in Page
  <2>1. DOMAIN batch = 1..Cardinality(Page) /\ \A k \in DOMAIN batch : batch[k] \in Page
    BY <1>3, WrittenOut
  <2> QED
    BY <2>1
<1> DEFINE n == Cardinality(Page)
           more == [k \in DOMAIN batch |-> Snapshot(listing[batch[k]])]
<1>5. /\ n \in Nat /\ more \in Seq(Market) /\ Len(more) = n /\ DOMAIN more = 1..n
      /\ \A k \in 1..n : Readable(more[k])
  <2>1. \A k \in 1..n : Snapshot(listing[batch[k]]) \in Market /\ Readable(Snapshot(listing[batch[k]]))
    BY <1>3, <1>4, SnapshotFacts
  <2>2. more \in [1..n -> Market] /\ \A k \in 1..n : Readable(more[k])
    BY <1>4, <2>1
  <2> QED
    BY <1>3, <2>2
<1>6. n <= BatchLimit /\ fetched' = fetched \o more
  BY <1>2, <1>3
<1> HIDE DEF n, more
<1>7. /\ fetched \in Seq(Market) /\ Len(fetched) \in Nat /\ offset \in Nat /\ MaxFetch \in Nat
      /\ DOMAIN fetched = 1..Len(fetched)
  BY <1>1, PickerConstants DEF PickerTypeOK
<1>8. fetched' \in Seq(Market) /\ Len(fetched') = Len(fetched) + n
  BY <1>5, <1>6, <1>7
<1>9. \A i \in DOMAIN fetched' : Readable(fetched'[i])
  <2> SUFFICES ASSUME NEW i \in DOMAIN fetched' PROVE Readable(fetched'[i])
    OBVIOUS
  <2>1. i \in 1..(Len(fetched) + n)
    BY <1>8
  <2>2. CASE i \in 1..Len(fetched)
    BY <1>1, <1>5, <1>6, <1>7, <2>2
  <2>3. CASE i \notin 1..Len(fetched)
    <3>1. i - Len(fetched) \in 1..n
      BY <1>5, <1>7, <2>1, <2>3
    <3>2. fetched'[i] = more[i - Len(fetched)]
      BY <1>5, <1>6, <1>7, <2>1, <2>3
    <3> QED
      BY <1>5, <3>1, <3>2
  <2> QED
    BY <2>2, <2>3
<1>10. PICK l \in Nat, m \in Nat : l = Len(fetched) /\ m = Len(fetched')
  <2>1. Len(fetched) \in Nat /\ Len(fetched') \in Nat
    BY <1>7, <1>8
  <2> QED
    BY <2>1
<1>11. m = l + n /\ l <= offset /\ m <= offset + BatchLimit /\ m <= MaxFetch
  BY <1>1, <1>3, <1>5, <1>6, <1>7, <1>8, <1>10
<1>12. /\ listing \in Seq(Venue) /\ changes \in 0..MaxChanges /\ categories \in BOOLEAN
       /\ offset \in 0..MaxFetch
       /\ output \in [ids : Seq(Int), pair : {<<>>} \cup (Int \X Int)]
       /\ MaxAssetIDs >= 0 => Len(output.ids) <= MaxAssetIDs
  BY <1>1 DEF PickerTypeOK
<1>13. listing' = listing /\ changes' = changes /\ categories' = categories /\ output' = output
  BY DEF FetchPage
<1>14. \/ pc' = "select" /\ offset' = offset
       \/ offset' = offset + Step /\ pc' = "markets" /\ offset + Step < MaxFetch
  <2>1. IF Cardinality(Page) < BatchLimit \/ offset + Step >= MaxFetch
        THEN pc' = "select" /\ UNCHANGED offset
        ELSE offset' = offset + Step /\ UNCHANGED pc
    BY DEF FetchPage
  <2>2. offset + Step >= MaxFetch \/ offset + Step < MaxFetch
    BY <1>3, <1>7
  <2>3. pc = "markets"
    BY <1>1
  <2>4. CASE Cardinality(Page) < BatchLimit \/ offset + Step >= MaxFetch
    BY <2>1, <2>4
  <2>5. CASE ~(Cardinality(Page) < BatchLimit \/ offset + Step >= MaxFetch)
    BY <2>1, <2>2, <2>3, <2>5
  <2> QED
    BY <2>4, <2>5
<1>15. /\ offset' \in 0..MaxFetch /\ pc' \in {"events", "markets", "select", "done", "exited"}
       /\ pc' # "events" /\ (pc' = "markets" => m <= offset' /\ offset' < MaxFetch)
  BY <1>3, <1>7, <1>11, <1>12, <1>14
<1>16. PickerTypeOK'
  BY <1>8, <1>10, <1>11, <1>12, <1>13, <1>15 DEF PickerTypeOK
<1>17. PairIsSubscribed'
  BY <1>13, OutputKept
<1> QED
  BY <1>9, <1>10, <1>15, <1>16, <1>17 DEF PickerIInv

LEMMA SelectOK ==
  ASSUME PickerIInv, Select
  PROVE  PickerIInv'
<1>1. /\ PickerTypeOK /\ fetched \in Seq(Market) /\ \A i \in DOMAIN fetched : Readable(fetched[i])
  BY DEF PickerIInv, PickerTypeOK
<1>2. UNCHANGED <<listing, changes, categories, offset, fetched>>
  BY DEF Select
<1>3. CASE pc' = "exited" /\ UNCHANGED output
  <2>1. PickerTypeOK'
    BY <1>1, <1>2, <1>3 DEF PickerTypeOK
  <2>2. PairIsSubscribed'
    BY <1>3, OutputKept
  <2> QED
    BY <1>2, <1>3, <2>1, <2>2 DEF PickerIInv
<1>4. ASSUME NEW ranked \in SetToSeqs(Candidates),
             NEW places \in SetToSeqs(FirstPlaces(Selection(ranked))),
             output' = Printed(Selection(ranked), places), pc' = "done"
      PROVE  PickerIInv'
  <2> DEFINE sel == Selection(ranked)
  <2>1. /\ sel \in Seq(Market) /\ \A i \in DOMAIN sel : Readable(sel[i])
        /\ MaxSelected > 0 => Len(sel) <= MaxSelected
    BY <1>1, SelectionFacts
  <2> HIDE DEF sel
  <2>2. places \in SetToSeqs(FirstPlaces(sel)) /\ output' = Printed(sel, places)
    BY <1>4 DEF sel
  <2>3. /\ output' \in [ids : Seq(Int), pair : {<<>>} \cup (Int \X Int)]
        /\ MaxAssetIDs >= 0 => Len(output'.ids) <= MaxAssetIDs
        /\ output'.pair # <<>> /\ RoomForAll =>
             output'.pair[1] # output'.pair[2] /\ ToSet(output'.pair) \subseteq ToSet(output'.ids)
    BY <2>1, <2>2, PrintedFacts
  <2>4. PickerTypeOK'
    BY <1>1, <1>2, <1>4, <2>3 DEF PickerTypeOK
  <2>5. PairIsSubscribed'
    BY <2>3 DEF PairIsSubscribed
  <2> QED
    BY <1>2, <1>4, <2>4, <2>5 DEF PickerIInv
<1>5. PICK ranked \in SetToSeqs(Candidates) :
        \/ pc' = "exited" /\ UNCHANGED output
        \/ /\ pc' = "done"
           /\ \E places \in SetToSeqs(FirstPlaces(Selection(ranked))) :
                output' = Printed(Selection(ranked), places)
  BY DEF Select, InOrder
<1> QED
  BY <1>3, <1>4, <1>5

LEMMA ListingChangesOK ==
  ASSUME PickerIInv, ListingChanges
  PROVE  PickerIInv'
<1>1. /\ PickerTypeOK /\ changes < MaxChanges /\ changes \in 0..MaxChanges /\ listing \in Seq(Venue)
  BY DEF PickerIInv, PickerTypeOK, ListingChanges
<1>2. PICK i \in DOMAIN listing :
        listing' \in {<<listing[i]>> \o RemoveAt(listing, i), RemoveAt(listing, i)}
  BY DEF ListingChanges
<1>3. RemoveAt(listing, i) \in Seq(Venue) /\ <<listing[i]>> \in Seq(Venue)
  <2> DEFINE a == SubSeq(listing, 1, i - 1)
             b == SubSeq(listing, i + 1, Len(listing))
  <2>1. i \in 1..Len(listing) /\ Len(listing) \in Nat
    BY <1>1
  <2>2. a \in Seq(Venue) /\ b \in Seq(Venue)
    BY <1>1, <2>1
  <2>3. RemoveAt(listing, i) = a \o b
    BY DEF RemoveAt
  <2> HIDE DEF a, b
  <2>4. a \o b \in Seq(Venue)
    BY <2>2
  <2> QED
    BY <1>1, <2>1, <2>3, <2>4
<1>4. listing' \in Seq(Venue)
  BY <1>2, <1>3
<1>5. changes' \in 0..MaxChanges /\ UNCHANGED <<pc, categories, offset, fetched, output>>
  BY <1>1, PickerConstants DEF ListingChanges
<1>6. PickerTypeOK'
  BY <1>1, <1>4, <1>5 DEF PickerTypeOK
<1>7. PairIsSubscribed'
  BY <1>5, OutputKept
<1> QED
  BY <1>5, <1>6, <1>7 DEF PickerIInv

LEMMA PickerStepOK == PickerIInv /\ [PickerNext]_pickerVars => PickerIInv'
<1> SUFFICES ASSUME PickerIInv, [PickerNext]_pickerVars PROVE PickerIInv'
  OBVIOUS
<1>1. CASE FetchEvents
  <2>1. /\ pc' = "markets" /\ categories' \in BOOLEAN /\ offset = 0 /\ fetched = <<>>
        /\ UNCHANGED <<listing, changes, offset, fetched, output>>
    BY <1>1 DEF PickerIInv, FetchEvents
  <2>2. Len(fetched) = 0 /\ MaxFetch \in Nat /\ MaxFetch > 0
    BY <2>1, PickerConstants
  <2>3. PickerTypeOK'
    BY <2>1 DEF PickerIInv, PickerTypeOK
  <2>4. PairIsSubscribed'
    BY <2>1, OutputKept
  <2> QED
    BY <2>1, <2>2, <2>3, <2>4 DEF PickerIInv
<1>2. CASE FetchPage
  BY <1>2, FetchPageOK
<1>3. CASE FetchFails
  <2>1. pc' = "exited" /\ UNCHANGED <<listing, changes, categories, offset, fetched, output>>
    BY <1>3 DEF FetchFails
  <2>2. PickerTypeOK'
    BY <2>1 DEF PickerIInv, PickerTypeOK
  <2>3. PairIsSubscribed'
    BY <2>1, OutputKept
  <2> QED
    BY <2>1, <2>2, <2>3 DEF PickerIInv
<1>4. CASE Select
  BY <1>4, SelectOK
<1>5. CASE ListingChanges
  BY <1>5, ListingChangesOK
<1>6. CASE UNCHANGED pickerVars
  <2>1. UNCHANGED <<pc, listing, changes, categories, offset, fetched, output>>
    BY <1>6 DEF pickerVars
  <2> QED
    BY <2>1 DEF PickerIInv, PickerTypeOK, PairIsSubscribed, RoomForAll, Readable
<1> QED
  BY <1>1, <1>2, <1>3, <1>4, <1>5, <1>6 DEF PickerNext

(* The asset picker keeps every variable in its type, and fetches and      *)
(* prints no more than its flags allow, however the listing changes.       *)
THEOREM PickerTypeCorrect == PickerSpec => []PickerTypeOK
<1>1. PickerIInv => PickerTypeOK
  BY DEF PickerIInv
<1> QED
  BY <1>1, PickerInitOK, PickerStepOK, PTL DEF PickerSpec

(* The suggested pair are two different tokens that the worker subscribes  *)
(* to, for any venue and any flags that leave room for them.               *)
THEOREM PairsAreSubscribed == PickerSpec => []PairIsSubscribed
<1>1. PickerIInv => PairIsSubscribed
  BY DEF PickerIInv
<1> QED
  BY <1>1, PickerInitOK, PickerStepOK, PTL DEF PickerSpec

=============================================================================
