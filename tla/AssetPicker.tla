---------------------------- MODULE AssetPicker ----------------------------
(***************************************************************************)
(* The asset picker (cmd/assetpicker/main.go, internal/assetpicker): it    *)
(* pages through the venue's markets, which change between two requests,   *)
(* keeps the busiest ones of each tier, and prints the tokens the worker   *)
(* subscribes to and the pair its strategy compares.                       *)
(* Percentiles are exact here: the code multiplies and adds floats, so     *)
(* scores that are equal here may be told apart there in the last digit.   *)
(***************************************************************************)
EXTENDS Integers, Sequences, FiniteSetsExt, SequencesExt

CONSTANTS
  Venue,          \* its markets
  CoreCategories, CoreTopPct, OtherTopPct,     \* percentages
  PageSize, MaxFetch, MaxSelected, MaxAssetIDs, Tier1Only,     \* flags
  MaxChanges      \* bound: changes of the listing while it is fetched

Unknown == "unknown"

Market == [id : Int, tag : STRING, event : STRING, volume : Int, liquidity : Int,
           tokens : Seq(Int), open : BOOLEAN]

ASSUME PickerAssumption ==
  /\ IsFiniteSet(Venue) /\ Venue \subseteq Market
  /\ \A m, n \in Venue : m.id = n.id => m = n
  /\ {PageSize, MaxFetch} \subseteq Nat \ {0} /\ {MaxSelected, MaxAssetIDs} \subseteq Int
  /\ MaxChanges \in Nat /\ {CoreTopPct, OtherTopPct} \subseteq 1..100

VARIABLES
  pc,          \* "events", "markets", "select", "done" or "exited"
  listing,     \* what the venue lists, in its order
  changes,
  categories,  \* whether the categories of events were fetched
  offset, fetched,
  output       \* the lines printed

pickerVars == <<pc, listing, changes, categories, offset, fetched, output>>

NoOutput == [ids |-> <<>>, pair |-> <<>>]

PickerInit ==
  /\ pc = "events"
  /\ listing \in SetToSeqs(Venue)
  /\ changes = 0
  /\ categories = FALSE
  /\ offset = 0 /\ fetched = <<>>
  /\ output = NoOutput

(* Without the events' categories only the markets' own tags are used.     *)
FetchEvents ==
  /\ pc = "events"
  /\ categories' \in BOOLEAN
  /\ pc' = "markets"
  /\ UNCHANGED <<listing, changes, offset, fetched, output>>

Step == Min({PageSize, MaxFetch})
BatchLimit == Min({Step, MaxFetch - offset})

Category(m) ==
  IF m.tag # Unknown THEN m.tag ELSE IF categories THEN m.event ELSE Unknown

(* The members of S, each once, from the first to the last.                *)
InOrder(S, Before(_, _)) ==
  {s \in SetToSeqs(S) : \A i, j \in DOMAIN s : i < j => Before(s[i], s[j])}

(* fetchMarketsPage: markets that are closed or cannot be read are skipped. *)
Page ==
  {i \in (offset + 1)..Min({offset + BatchLimit, Len(listing)}) :
     listing[i].open /\ listing[i].tokens # <<>>}

Snapshot(m) == [m EXCEPT !.tag = Category(m)]

(* A page that is shorter than asked for, after the skipping, is the last. *)
FetchPage ==
  /\ pc = "markets"
  /\ \E batch \in InOrder(Page, LAMBDA i, j : i < j) :
       fetched' = fetched \o [k \in DOMAIN batch |-> Snapshot(listing[batch[k]])]
  /\ IF Cardinality(Page) < BatchLimit \/ offset + Step >= MaxFetch
     THEN pc' = "select" /\ UNCHANGED offset
     ELSE offset' = offset + Step /\ UNCHANGED pc
  /\ UNCHANGED <<listing, changes, categories, output>>

FetchFails ==
  /\ pc = "markets"
  /\ pc' = "exited"
  /\ UNCHANGED <<listing, changes, categories, offset, fetched, output>>

Busier(a, b) ==
  \/ a.volume > b.volume
  \/ a.volume = b.volume /\ a.liquidity > b.liquidity
  \/ a.volume = b.volume /\ a.liquidity = b.liquidity /\ a.id < b.id

(* percentileRank, as a number of values. *)
RankOf(values, value) == Cardinality({i \in DOMAIN values : values[i] <= value})

(* percentileFloor(values, 1 - pct): the value at an index of the sorted   *)
(* ones, which has no more smaller ones before it.                         *)
Floor(values, pct) ==
  LET index == ((100 - pct) * Cardinality(DOMAIN values)) \div 100
  IN  CHOOSE v \in {values[i] : i \in DOMAIN values} :
        /\ Cardinality({i \in DOMAIN values : values[i] < v}) <= index
        /\ index < RankOf(values, v)

Core(m) == m.tag \in CoreCategories

(* SelectCandidates: the markets at or above their tier's floors, by the   *)
(* sum of their two ranks; markets are told by their indices.              *)
Valid == {i \in DOMAIN fetched : fetched[i].volume > 0 /\ fetched[i].liquidity > 0}
Volumes == [i \in Valid |-> fetched[i].volume]
Liquidities == [i \in Valid |-> fetched[i].liquidity]

Kept(i) ==
  LET pct == IF Core(fetched[i]) THEN CoreTopPct ELSE OtherTopPct
  IN  Volumes[i] >= Floor(Volumes, pct) /\ Liquidities[i] >= Floor(Liquidities, pct)

Score(i) == RankOf(Volumes, Volumes[i]) + RankOf(Liquidities, Liquidities[i])

(* The sorts are stable; only a market that was fetched twice is a tie.    *)
Better(i, j) ==
  \/ Score(i) > Score(j)
  \/ Score(i) = Score(j) /\ (Busier(fetched[i], fetched[j]) \/ (fetched[i] = fetched[j] /\ i < j))

(* keepTier. *)
Candidates == {i \in Valid : Kept(i) /\ (Tier1Only => Core(fetched[i]))}

(* The cut of main. *)
Selection(ranked) ==
  LET n == IF MaxSelected > 0 THEN Min({MaxSelected, Len(ranked)}) ELSE Len(ranked)
  IN  [k \in 1..n |-> fetched[ranked[k]]]

(* Where tokens are listed, and where each of them is listed first.        *)
Places(selection) == UNION {{i} \X DOMAIN selection[i].tokens : i \in DOMAIN selection}
TokenAt(selection, place) == selection[place[1]].tokens[place[2]]
Earlier(p, q) == p[1] < q[1] \/ (p[1] = q[1] /\ p[2] < q[2])
FirstPlaces(selection) ==
  {p \in Places(selection) : \A q \in Places(selection) :
     TokenAt(selection, q) = TokenAt(selection, p) => q = p \/ Earlier(p, q)}

(* BuildPOLYAssetIDs: each token once; no limit when it is negative.       *)
AssetIDs(tokens, limit) ==
  IF limit < 0 THEN tokens ELSE SubSeq(tokens, 1, Min({limit, Len(tokens)}))

(* Mutant: a market that was fetched twice makes a pair with itself.       *)
PairableTwice(a, b) == a.tag = b.tag

(* Two markets of one category, with different first tokens.               *)
Pairable(a, b) == a.tag = b.tag /\ a.tokens[1] # b.tokens[1]

(* SuggestPair: the first two such markets, or the first two tokens.       *)
SuggestPair(selection, tokens) ==
  LET pairs == {p \in (DOMAIN selection) \X (DOMAIN selection) :
                  p[1] < p[2] /\ Pairable(selection[p[1]], selection[p[2]])}
      two == AssetIDs(tokens, 2)
  IN  IF pairs # {}
      THEN LET p == CHOOSE p \in pairs : \A q \in pairs : p = q \/ Earlier(p, q)
           IN  <<selection[p[1]].tokens[1], selection[p[2]].tokens[1]>>
      ELSE IF Len(two) = 2 THEN <<two[1], two[2]>> ELSE <<>>

Printed(selection, places) ==
  LET tokens == [k \in DOMAIN places |-> TokenAt(selection, places[k])]
  IN  [ids |-> AssetIDs(tokens, MaxAssetIDs), pair |-> SuggestPair(selection, tokens)]

(* The rest of main: print, or exit when nothing is selected.              *)
Select ==
  /\ pc = "select"
  /\ \E ranked \in InOrder(Candidates, Better) :
       IF ranked = <<>>
       THEN pc' = "exited" /\ UNCHANGED output
       ELSE /\ pc' = "done"
            /\ \E places \in InOrder(FirstPlaces(Selection(ranked)), Earlier) :
                 output' = Printed(Selection(ranked), places)
  /\ UNCHANGED <<listing, changes, categories, offset, fetched>>

(* A market moves to the front, or leaves.                                 *)
ListingChanges ==
  /\ pc = "markets" /\ changes < MaxChanges
  /\ \E i \in DOMAIN listing :
       listing' \in {<<listing[i]>> \o RemoveAt(listing, i), RemoveAt(listing, i)}
  /\ changes' = changes + 1
  /\ UNCHANGED <<pc, categories, offset, fetched, output>>

PickerNext == FetchEvents \/ FetchPage \/ FetchFails \/ Select \/ ListingChanges

PickerSpec == PickerInit /\ [][PickerNext]_pickerVars

-----------------------------------------------------------------------------
(* Every variable has its type; no more is fetched than was allowed.       *)
PickerTypeOK ==
  /\ pc \in {"events", "markets", "select", "done", "exited"}
  /\ listing \in Seq(Venue) /\ changes \in 0..MaxChanges /\ categories \in BOOLEAN
  /\ fetched \in Seq(Market)
  /\ Len(fetched) <= MaxFetch /\ offset \in 0..MaxFetch
  /\ output \in [ids : Seq(Int), pair : {<<>>} \cup (Int \X Int)]
  /\ MaxAssetIDs >= 0 => Len(output.ids) <= MaxAssetIDs

(* The suggested pair are two different tokens that the worker also        *)
(* subscribes to, also when a market was fetched twice because the listing *)
(* moved: provided -max-asset-ids has room for the tokens of every         *)
(* selected market, as the defaults 24 and 12 do for two tokens each.      *)
RoomForAll ==
  MaxAssetIDs < 0 \/ (MaxSelected > 0 /\ \A m \in Venue : MaxAssetIDs >= Len(m.tokens) * MaxSelected)

PairIsSubscribed ==
  output.pair # <<>> /\ RoomForAll =>
    output.pair[1] # output.pair[2] /\ ToSet(output.pair) \subseteq ToSet(output.ids)
=============================================================================
