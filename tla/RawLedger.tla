------------------------------ MODULE RawLedger ------------------------------
(***************************************************************************)
(* The ledger of raw events (internal/ingestion) and the recovery the      *)
(* runbook replay-backfill.md prescribes: detect missing sequences, write  *)
(* closure markers for them, replay (internal/ops/replay.go).  Events come *)
(* in any order, more than once or not at all, also between the steps of a *)
(* recovery, and several operators may recover at once.                    *)
(* An event is told by its id, its sequence and its time; source and       *)
(* payload follow from the id.                                             *)
(***************************************************************************)
EXTENDS Integers, Sequences, FiniteSets, SequencesExt

CONSTANTS
  Operators,    \* who run recoveries
  Stream,       \* events of the source: [id, seq, at]
  MaxSequence,  \* bound: the largest sequence number of the stream
  Bases,        \* times operators give to FillGaps
  MaxRecoveries \* bound: recoveries of an operator

(* Ids compare as integers here; a marker's is its sequence number.        *)
ASSUME LedgerAssumption ==
  /\ MaxSequence \in Nat /\ MaxRecoveries \in Nat
  /\ \A e \in Stream : e.id \in Int /\ e.id > MaxSequence /\ e.seq \in 0..MaxSequence
  /\ \A e, f \in Stream : e.id = f.id => e = f

Marker(n, base) == [id |-> n, seq |-> n, at |-> base]
Markers == {Marker(n, base) : n \in 1..MaxSequence, base \in Bases}

VARIABLES
  ledger,      \* what List returns
  todo,        \* markers each operator has still to write
  recovered,   \* how many recoveries were begun
  seen         \* history: the sequences the last recovery found

ledgerVars == <<ledger, todo, recovered, seen>>

LedgerInit ==
  /\ ledger = <<>>
  /\ todo = [o \in Operators |-> {}]
  /\ recovered = [o \in Operators |-> 0]
  /\ seen = [o \in Operators |-> {}]

(* MemoryRawWriter.Write: the first event with an id stays.                *)
Write(events, e) ==
  IF \E i \in DOMAIN events : events[i].id = e.id THEN events ELSE Append(events, e)

(* Worker.Run of internal/runtime/worker.go, or another source, writes.    *)
Arrive(e) ==
  /\ ledger' = Write(ledger, e)
  /\ UNCHANGED <<todo, recovered, seen>>

(* Events without a sequence number are not looked at.                     *)
Numbers(events) == {n \in {events[i].seq : i \in DOMAIN events} : n > 0}

(* Mutant: a gap ends before its last number. *)
GapsShort(events) ==
  {[from |-> g[1] + 1, to |-> g[2] - 2] :
     g \in {p \in Numbers(events) \X Numbers(events) :
              p[2] - p[1] > 1 /\ \A n \in Numbers(events) : n <= p[1] \/ p[2] <= n}}

(* DetectSequenceGaps: what lies between neighbours.                       *)
Gaps(events) ==
  {[from |-> g[1] + 1, to |-> g[2] - 1] :
     g \in {p \in Numbers(events) \X Numbers(events) :
              p[2] - p[1] > 1 /\ \A n \in Numbers(events) : n <= p[1] \/ p[2] <= n}}

(* FillGaps: a marker for every number that is missing.                    *)
Filled(gaps, base) == {Marker(n, base) : n \in UNION {g.from..g.to : g \in gaps}}

(* The operator lists the ledger; the markers are written one by one after *)
(* it, in ascending order.                                                 *)
Recover(o) ==
  /\ todo[o] = {} /\ recovered[o] < MaxRecoveries
  /\ \E base \in Bases : todo' = [todo EXCEPT ![o] = Filled(Gaps(ledger), base)]
  /\ recovered' = [recovered EXCEPT ![o] = @ + 1]
  /\ seen' = [seen EXCEPT ![o] = Numbers(ledger)]
  /\ UNCHANGED ledger

WriteMarker(o) ==
  \E e \in todo[o] :
    /\ \A f \in todo[o] : e.seq <= f.seq
    /\ ledger' = Write(ledger, e)
    /\ todo' = [todo EXCEPT ![o] = @ \ {e}]
    /\ UNCHANGED <<recovered, seen>>

LedgerNext ==
  (\E e \in Stream : Arrive(e)) \/ \E o \in Operators : Recover(o) \/ WriteMarker(o)

LedgerSpec == LedgerInit /\ [][LedgerNext]_ledgerVars

(* Mutant: events of one sequence number keep the order they came in.      *)
BeforeBySequence(e, f) == e.seq < f.seq

Before(e, f) == e.seq < f.seq \/ (e.seq = f.seq /\ e.id < f.id)

(* How many events come no later than the one at an index, which is its    *)
(* place in the order; of equal ones, the earlier come first.              *)
Place(events, i) ==
  Cardinality({j \in DOMAIN events : \/ Before(events[j], events[i])
                                     \/ j <= i /\ ~Before(events[i], events[j])})

Member(S) == CHOOSE e \in S : TRUE

AtPlace(events, k) ==
  {e \in ToSet(events) : \E i \in DOMAIN events : events[i] = e /\ Place(events, i) = k}

(* ReplayDeterministic: the checksum is that of this sequence.             *)
Replay(events) == [k \in DOMAIN events |-> Member(AtPlace(events, k))]

-----------------------------------------------------------------------------
(* Every variable has its type, and no id is in the ledger twice.          *)
LedgerTypeOK ==
  /\ ledger \in Seq(Stream \cup Markers)
  /\ \A i, j \in DOMAIN ledger : ledger[i].id = ledger[j].id => i = j
  /\ todo \in [Operators -> SUBSET Markers]
  /\ recovered \in [Operators -> 0..MaxRecoveries]
  /\ seen \in [Operators -> SUBSET (1..MaxSequence)]

Swapped(events, i) == [events EXCEPT ![i] = events[i + 1], ![i + 1] = events[i]]

(* The order in which events came and markers were written between them    *)
(* does not show in a replay: no swap of two neighbours changes it.  So a  *)
(* checksum that "drifts for identical input set" is not the replay's      *)
(* doing.                                                                  *)
ReplayAgrees ==
  \A i \in 1..Len(ledger)-1 : Replay(Swapped(ledger, i)) = Replay(ledger)

(* When its last marker is written, a recovery has closed every gap that   *)
(* was in the ledger when it looked, whatever arrived meanwhile and        *)
(* whoever else was recovering.                                            *)
GapsClosed ==
  \A o \in Operators : todo[o] = {} =>
    \A a, b \in seen[o] : a..b \subseteq Numbers(ledger)
=============================================================================
