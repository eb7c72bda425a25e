--------------------------- MODULE CockpitProofs ----------------------------
(***************************************************************************)
(* The operator cockpit, for every set of runs, snapshots, marker names    *)
(* and bound: a row of the board is always selected, and archiving hides   *)
(* the archived run and no other.  And for every command it waits for: how *)
(* the command may be reported, left running, or leave the terminal.       *)
(***************************************************************************)
EXTENDS Cockpit, Launch, TablesProofs

(***************************************************************************)
(* Lists of the board.                                                     *)
(***************************************************************************)

Kinds == {"active", "stalled", "failed", "paused", "recent", "completed", "unknown"}

BoardRow == [id : Runs, kind : Kinds, snap : Snapshot]

\* The kinds of runs are the ones with a rank.
LEMMA KindsRanked == DOMAIN sort_rank = Kinds /\ \A k \in Kinds : sort_rank[k] \in Int
<1>1. DOMAIN sort_rank = Kinds
  BY DEF sort_rank, Kinds
<1>2. \A k \in Kinds : sort_rank[k] \in Int
  BY DEF sort_rank, Kinds
<1> QED
  BY <1>1, <1>2

\* A function on the first numbers is a list of its values.
LEMMA ListIn ==
  ASSUME NEW T, NEW n \in Nat, NEW f, f = [i \in 1..n |-> f[i]], \A i \in 1..n : f[i] \in T
  PROVE  f \in Seq(T) /\ Len(f) = n /\ DOMAIN f = 1..n
<1>1. [i \in 1..n |-> f[i]] \in [1..n -> T]
  OBVIOUS
<1> QED
  BY <1>1

\* What a filter keeps of a list.
LEMMA KeptIn ==
  ASSUME NEW T, NEW list \in Seq(T), NEW places \in SUBSET DOMAIN list
  PROVE  /\ Kept(list, places) \in Seq(T)
         /\ \A k \in DOMAIN Kept(list, places) : \E i \in places : Kept(list, places)[k] = list[i]
<1>1. Len(list) \in Nat /\ DOMAIN list = 1..Len(list)
  OBVIOUS
<1>2. IsFiniteSet(1..Len(list))
  BY <1>1, FS_Interval
<1>3. IsFiniteSet(places) /\ places \subseteq Int
  BY <1>1, <1>2, FS_Subset
<1>4. /\ Cardinality(places) \in Nat /\ DOMAIN Kept(list, places) = 1..Cardinality(places)
      /\ \A k \in DOMAIN Kept(list, places) : \E i \in places : Kept(list, places)[k] = list[i]
  BY <1>3, KeptRows
<1>5. \A i \in places : list[i] \in T
  BY <1>1
<1>6. \A k \in 1..Cardinality(places) : Kept(list, places)[k] \in T
  BY <1>4, <1>5
<1>7. Kept(list, places) = [k \in 1..Cardinality(places) |-> Kept(list, places)[k]]
  BY DEF Kept
<1>8. Kept(list, places) \in Seq(T)
  BY <1>4, <1>6, <1>7, ListIn
<1> QED
  BY <1>4, <1>8

\* A sorted set.
LEMMA InOrderIn ==
  ASSUME NEW S, IsFiniteSet(S), NEW before, Orders(before, S)
  PROVE  InOrder(S, before) \in Seq(S)
<1>1. /\ Cardinality(S) \in Nat /\ \A k \in 1..Cardinality(S) : InOrder(S, before)[k] \in S
  BY InOrderMembers
<1>2. InOrder(S, before) = [k \in 1..Cardinality(S) |-> InOrder(S, before)[k]]
  <2> DEFINE at(k) == CHOOSE x \in S : Cardinality({y \in S : <<y, x>> \in before}) = k - 1
  <2>1. InOrder(S, before) = [k \in 1..Cardinality(S) |-> at(k)]
    BY DEF InOrder
  <2> HIDE DEF at
  <2> QED
    BY <2>1
<1> QED
  BY <1>1, <1>2, ListIn

\* A sorted set of numbers.
LEMMA AscendingIn ==
  ASSUME NEW n \in Nat, NEW S \in SUBSET (1..n)
  PROVE  Ascending(S) \in Seq(1..n)
<1>1. IsFiniteSet(S) /\ S \subseteq Int
  <2>1. IsFiniteSet(1..n)
    BY FS_Interval
  <2>2. IsFiniteSet(S)
    BY <2>1, FS_Subset
  <2> QED
    BY <2>2
<1>2. /\ Cardinality(S) \in Nat /\ \A k \in 1..Cardinality(S) : Ascending(S)[k] \in S
  BY <1>1, AscendingMembers
<1>3. Ascending(S) = [k \in 1..Cardinality(S) |-> Ascending(S)[k]]
  <2> DEFINE at(k) == CHOOSE x \in S : Cardinality({y \in S : y < x}) = k - 1
  <2>1. Ascending(S) = [k \in 1..Cardinality(S) |-> at(k)]
    BY DEF Ascending
  <2> HIDE DEF at
  <2> QED
    BY <2>1
<1>4. \A k \in 1..Cardinality(S) : Ascending(S)[k] \in 1..n
  BY <1>2
<1> QED
  BY <1>2, <1>3, <1>4, ListIn

(***************************************************************************)
(* compare_runs is an order.                                               *)
(***************************************************************************)

LexBefore(a, b) == \E i \in 1..5 : a[i] < b[i] /\ \A j \in 1..(i - 1) : a[j] = b[j]

\* The lexicographic order of keys is transitive.
LEMMA LexTransitive ==
  ASSUME NEW a, NEW b, NEW c,
         \A i \in 1..5 : a[i] \in Int /\ b[i] \in Int /\ c[i] \in Int,
         LexBefore(a, b), LexBefore(b, c)
  PROVE  LexBefore(a, c)
<1>1. PICK i \in 1..5 : a[i] < b[i] /\ \A j \in 1..(i - 1) : a[j] = b[j]
  BY DEF LexBefore
<1>2. PICK k \in 1..5 : b[k] < c[k] /\ \A j \in 1..(k - 1) : b[j] = c[j]
  BY DEF LexBefore
<1>3. CASE i <= k
  <2>1. b[i] <= c[i]
    <3>1. CASE i = k
      BY <1>2, <3>1
    <3>2. CASE i < k
      <4>1. i \in 1..(k - 1)
        BY <3>2
      <4>2. b[i] = c[i]
        BY <1>2, <4>1
      <4> QED
        BY <4>2
    <3> QED
      BY <1>3, <3>1, <3>2
  <2>2. a[i] < c[i]
    BY <1>1, <2>1
  <2>3. \A j \in 1..(i - 1) : j \in 1..(k - 1)
    BY <1>3
  <2>4. \A j \in 1..(i - 1) : a[j] = c[j]
    BY <1>1, <1>2, <2>3
  <2> QED
    BY <2>2, <2>4 DEF LexBefore
<1>4. CASE k < i
  <2>1. k \in 1..(i - 1)
    BY <1>4
  <2>2. a[k] = b[k]
    BY <1>1, <2>1
  <2>3. a[k] < c[k]
    BY <1>2, <2>2
  <2>4. \A j \in 1..(k - 1) : j \in 1..(i - 1)
    BY <1>4
  <2>5. \A j \in 1..(k - 1) : a[j] = c[j]
    BY <1>1, <1>2, <2>4
  <2> QED
    BY <2>3, <2>5 DEF LexBefore
<1> QED
  BY <1>3, <1>4

\* Keys that differ in the last place compare.
LEMMA LexTotal ==
  ASSUME NEW a, NEW b, \A i \in 1..5 : a[i] \in Int /\ b[i] \in Int, a[5] # b[5]
  PROVE  LexBefore(a, b) \/ LexBefore(b, a)
<1>1. ASSUME NEW i \in 1..5, a[i] # b[i], \A j \in 1..(i - 1) : a[j] = b[j]
      PROVE  LexBefore(a, b) \/ LexBefore(b, a)
  <2>1. a[i] < b[i] \/ b[i] < a[i]
    BY <1>1
  <2>2. \A j \in 1..(i - 1) : b[j] = a[j]
    BY <1>1
  <2> QED
    BY <1>1, <2>1, <2>2 DEF LexBefore
<1>2. CASE a[1] # b[1]
  BY <1>1, <1>2
<1>3. CASE a[1] = b[1] /\ a[2] # b[2]
  BY <1>1, <1>3
<1>4. CASE a[1] = b[1] /\ a[2] = b[2] /\ a[3] # b[3]
  BY <1>1, <1>4
<1>5. CASE a[1] = b[1] /\ a[2] = b[2] /\ a[3] = b[3] /\ a[4] # b[4]
  BY <1>1, <1>5
<1>6. CASE a[1] = b[1] /\ a[2] = b[2] /\ a[3] = b[3] /\ a[4] = b[4]
  BY <1>1, <1>6
<1> QED
  BY <1>2, <1>3, <1>4, <1>5, <1>6

\* Rows with different ids compare, whatever their kinds and timestamps.
LEMMA RowsOrdered ==
  ASSUME NEW R \in SUBSET BoardRow, \A x, y \in R : x.id = y.id => x = y
  PROVE  Orders({p \in R \X R : compare_runs(p[1], p[2])}, R)
<1> DEFINE before == {p \in R \X R : compare_runs(p[1], p[2])}
<1>1. ASSUME NEW x \in R
      PROVE  (\A i \in 1..5 : SortKey(x)[i] \in Int) /\ SortKey(x)[5] = x.id
  <2>1. /\ sort_rank[x.kind] \in Int /\ x.id \in Int
        /\ x.snap.updated_at \in Int /\ x.snap.started_at \in Int /\ x.snap.last_heartbeat \in Int
    BY KindsRanked DEF BoardRow, Snapshot, Runs
  <2> QED
    BY <2>1 DEF SortKey
<1>2. \A x, y \in R : <<x, y>> \in before <=> LexBefore(SortKey(x), SortKey(y))
  BY DEF compare_runs, LexBefore
<1> HIDE DEF before
<1>3. \A x \in R : <<x, x>> \notin before
  <2>1. ASSUME NEW x \in R PROVE ~LexBefore(SortKey(x), SortKey(x))
    BY <1>1 DEF LexBefore
  <2> QED
    BY <1>2, <2>1
<1>4. ASSUME NEW x \in R, NEW y \in R, NEW z \in R, <<x, y>> \in before, <<y, z>> \in before
      PROVE  <<x, z>> \in before
  <2>1. LexBefore(SortKey(x), SortKey(y)) /\ LexBefore(SortKey(y), SortKey(z))
    BY <1>2, <1>4
  <2>2. \A i \in 1..5 : SortKey(x)[i] \in Int /\ SortKey(y)[i] \in Int /\ SortKey(z)[i] \in Int
    BY <1>1
  <2>3. LexBefore(SortKey(x), SortKey(z))
    BY <2>1, <2>2, LexTransitive
  <2> QED
    BY <1>2, <2>3
<1>5. ASSUME NEW x \in R, NEW y \in R, x # y
      PROVE  <<x, y>> \in before \/ <<y, x>> \in before
  <2>1. SortKey(x)[5] # SortKey(y)[5]
    BY <1>1, <1>5
  <2>2. \A i \in 1..5 : SortKey(x)[i] \in Int /\ SortKey(y)[i] \in Int
    BY <1>1
  <2>3. LexBefore(SortKey(x), SortKey(y)) \/ LexBefore(SortKey(y), SortKey(x))
    BY <2>1, <2>2, LexTotal
  <2> QED
    BY <1>2, <2>3
<1>6. Orders(before, R)
  BY <1>3, <1>4, <1>5 DEF Orders
<1> QED
  BY <1>6 DEF before

\* The rows of the board are rows of runs that have a file and are not archived.
LEMMA BoardRows ==
  ASSUME NEW fs, DOMAIN fs \subseteq Runs, \A r \in DOMAIN fs : fs[r] \in Snapshot,
         NEW ms, NEW t, NEW scope, NEW query
  PROVE  LET board == apply_run_filters(render_runs(fs, ms, t), scope, query)
         IN  board \in Seq(BoardRow) /\ \A i \in DOMAIN board : board[i].id \in load(fs, ms)
<1> DEFINE ids == load(fs, ms)
           rows == {RunRow(r, fs[r], t) : r \in ids}
           before == {p \in rows \X rows : compare_runs(p[1], p[2])}
           all == render_runs(fs, ms, t)
           places == {i \in DOMAIN all : InScope(all[i].kind, scope) /\ MatchLen[all[i].id] >= query}
           board == apply_run_filters(all, scope, query)
<1>1. ids \subseteq DOMAIN fs /\ ids \subseteq Runs
  BY DEF load
<1>2. IsFiniteSet(ids)
  <2>1. IsFiniteSet(Runs)
    BY BoardAssumption, FS_Interval DEF Runs
  <2> HIDE DEF ids
  <2> QED
    BY <1>1, <2>1, FS_Subset
<1>3. ASSUME NEW s \in Snapshot PROVE classify_run(s, t) \in Kinds
  BY DEF classify_run, Kinds
<1>4. ASSUME NEW r \in ids
      PROVE  RunRow(r, fs[r], t) \in BoardRow /\ RunRow(r, fs[r], t).id = r
  <2>1. r \in Runs /\ fs[r] \in Snapshot
    BY <1>1
  <2>2. classify_run(fs[r], t) \in Kinds
    BY <1>3, <2>1
  <2> QED
    BY <2>1, <2>2 DEF RunRow, BoardRow
<1>5. rows \in SUBSET BoardRow /\ (\A x \in rows : x.id \in ids /\ x = RunRow(x.id, fs[x.id], t))
  <2> HIDE DEF ids
  <2> QED
    BY <1>4
<1>6. \A x, y \in rows : x.id = y.id => x = y
  <2> HIDE DEF ids, rows
  <2> QED
    BY <1>5
<1>7. IsFiniteSet(rows)
  <2> DEFINE f == [r \in ids |-> RunRow(r, fs[r], t)]
  <2>1. f \in Surjection(ids, rows)
    <3> HIDE DEF ids
    <3> QED
      BY DEF Surjection
  <2> HIDE DEF f, ids, rows
  <2> QED
    BY <1>2, <2>1, FS_Surjection
<1>8. Orders(before, rows)
  <2> HIDE DEF rows
  <2> QED
    BY <1>5, <1>6, RowsOrdered
<1>9. all = InOrder(rows, before)
  BY DEF render_runs
<1>10. all \in Seq(rows)
  <2> HIDE DEF rows, before, all
  <2> QED
    BY <1>7, <1>8, <1>9, InOrderIn
<1>11. board = Kept(all, places)
  BY DEF apply_run_filters
<1>12. /\ Kept(all, places) \in Seq(rows)
  <2>1. places \in SUBSET DOMAIN all
    OBVIOUS
  <2> HIDE DEF rows, all, places
  <2> QED
    BY <1>10, <2>1, KeptIn
<1>13. board \in Seq(rows)
  BY <1>11, <1>12
<1> HIDE DEF rows, all, places, before, board, ids
<1>14. Len(board) \in Nat /\ DOMAIN board = 1..Len(board) /\ \A i \in DOMAIN board : board[i] \in rows
  BY <1>13
<1>15. board \in Seq(BoardRow)
  BY <1>5, <1>13
<1>16. \A i \in DOMAIN board : board[i].id \in ids
  BY <1>5, <1>14
<1> QED
  BY <1>15, <1>16 DEF board, all, ids

\* The lists of services and of prisms.
LEMMA SourceLists ==
  ASSUME NEW sf \in SUBSET Services, NEW ps \in SUBSET Prisms
  PROVE  current_summaries(sf) \in Seq(Services) /\ current_intents(ps) \in Seq(Prisms)
<1>1. NumServices \in Nat /\ Override \subseteq 1..NumServices /\ sf \ Override \subseteq 1..NumServices
  BY BoardAssumption DEF Services
<1>2. Ascending(Override) \in Seq(Services) /\ Ascending(sf \ Override) \in Seq(Services)
  <2>1. Ascending(Override) \in Seq(1..NumServices)
    BY <1>1, AscendingIn
  <2>2. Ascending(sf \ Override) \in Seq(1..NumServices)
    BY <1>1, AscendingIn
  <2> QED
    BY <2>1, <2>2 DEF Services
<1>3. current_summaries(sf) \in Seq(Services)
  BY <1>2 DEF current_summaries
<1> DEFINE later == {p \in ps \X ps : p[1] > p[2]}
           rows == InOrder(ps, later)
           most == IF Len(rows) < MaxIntents THEN Len(rows) ELSE MaxIntents
<1>4. IsFiniteSet(ps) /\ ps \subseteq Int
  <2>1. IsFiniteSet(1..NumPrisms)
    BY BoardAssumption, FS_Interval
  <2>2. IsFiniteSet(ps)
    BY <2>1, FS_Subset DEF Prisms
  <2> QED
    BY <2>2 DEF Prisms
<1>5. Orders(later, ps)
  <2>1. \A x, y \in ps : <<x, y>> \in later <=> x > y
    OBVIOUS
  <2> HIDE DEF later
  <2> QED
    BY <1>4, <2>1 DEF Orders
<1>6. rows \in Seq(ps)
  <2> HIDE DEF later
  <2> QED
    BY <1>4, <1>5, InOrderIn
<1>7. current_intents(ps) = SubSeq(rows, 1, most)
  BY DEF current_intents
<1> HIDE DEF rows
<1>8. rows \in Seq(Prisms) /\ Len(rows) \in Nat
  BY <1>6
<1>9. most \in Nat /\ most <= Len(rows)
  BY <1>8, BoardAssumption
<1> HIDE DEF most
<1>10. SubSeq(rows, 1, most) \in Seq(Prisms)
  BY <1>8, <1>9
<1> QED
  BY <1>3, <1>7, <1>10

\* The actions of the Controls tab are a list.
LEMMA ActionsListed ==
  ASSUME NEW rs \in Seq(BoardRow), NEW sel \in Nat,
         NEW sums \in Seq(Services), NEW ints \in Seq(Prisms)
  PROVE  /\ Len(deep_actions(rs, sel, sums, ints)) \in Nat
         /\ deep_actions(rs, sel, sums, ints) # <<>> => Len(deep_actions(rs, sel, sums, ints)) # 0
<1> DEFINE Word == {"attach", "resume", "report", "transcript", "root", "health", "prism", "skill"}
           Any == [kind : Word, of : Int]
           of == IF sel < Len(rs) THEN RunItems(rs[sel + 1]) ELSE <<>>
           health == [i \in DOMAIN sums |-> Item("health", sums[i])]
           prisms_ == [i \in DOMAIN ints |-> Item("prism", ints[i])]
           skills == [i \in Skills |-> Item("skill", i)]
<1>1. ASSUME NEW e \in BoardRow PROVE RunItems(e) \in Seq(Any)
  <2> DEFINE places == {i \in DOMAIN Offer : Offer[i] \in e.snap.offers}
             offers == Kept(Offer, places)
  <2>1. Offer \in Seq(Word)
    BY DEF Offer
  <2>2. offers \in Seq(Word)
    <3> HIDE DEF Offer
    <3> QED
      BY <2>1, KeptIn
  <2>3. RunItems(e) = [i \in DOMAIN offers |-> Item(offers[i], e.id)]
    BY DEF RunItems
  <2> HIDE DEF offers
  <2>4. e.id \in Int
    BY DEF BoardRow, Runs
  <2>5. Len(offers) \in Nat /\ DOMAIN offers = 1..Len(offers) /\ \A i \in DOMAIN offers : offers[i] \in Word
    BY <2>2
  <2>6. \A i \in DOMAIN offers : Item(offers[i], e.id) \in Any
    BY <2>4, <2>5 DEF Item
  <2> HIDE DEF Any
  <2>7. [i \in DOMAIN offers |-> Item(offers[i], e.id)] \in [1..Len(offers) -> Any]
    BY <2>5, <2>6
  <2> QED
    BY <2>3, <2>5, <2>7
<1>2. of \in Seq(Any)
  <2>1. CASE sel < Len(rs)
    <3>1. rs[sel + 1] \in BoardRow
      BY <2>1
    <3> HIDE DEF Any
    <3> QED
      BY <1>1, <2>1, <3>1
  <2>2. CASE ~(sel < Len(rs))
    <3> HIDE DEF Any
    <3> QED
      BY <2>2
  <2> QED
    BY <2>1, <2>2
<1>3. health \in Seq(Any)
  <2>a. Services \subseteq Int
    BY BoardAssumption DEF Services
  <2>b. Len(sums) \in Nat /\ DOMAIN sums = 1..Len(sums)
    OBVIOUS
  <2>c. \A i \in 1..Len(sums) : sums[i] \in Services
    OBVIOUS
  <2>1. Len(sums) \in Nat /\ DOMAIN sums = 1..Len(sums) /\ \A i \in DOMAIN sums : sums[i] \in Int
    BY <2>a, <2>b, <2>c
  <2>2. \A i \in DOMAIN sums : Item("health", sums[i]) \in Any
    BY <2>1 DEF Item
  <2> HIDE DEF Any
  <2>3. health \in [1..Len(sums) -> Any]
    BY <2>1, <2>2
  <2> QED
    BY <2>1, <2>3
<1>4. prisms_ \in Seq(Any)
  <2>a. Prisms \subseteq Int
    BY BoardAssumption DEF Prisms
  <2>b. Len(ints) \in Nat /\ DOMAIN ints = 1..Len(ints)
    OBVIOUS
  <2>c. \A i \in 1..Len(ints) : ints[i] \in Prisms
    OBVIOUS
  <2>1. Len(ints) \in Nat /\ DOMAIN ints = 1..Len(ints) /\ \A i \in DOMAIN ints : ints[i] \in Int
    BY <2>a, <2>b, <2>c
  <2>2. \A i \in DOMAIN ints : Item("prism", ints[i]) \in Any
    BY <2>1 DEF Item
  <2> HIDE DEF Any
  <2>3. prisms_ \in [1..Len(ints) -> Any]
    BY <2>1, <2>2
  <2> QED
    BY <2>1, <2>3
<1>5. skills \in Seq(Any)
  <2>1. NumSkills \in Nat
    BY BoardAssumption
  <2>2. \A i \in 1..NumSkills : Item("skill", i) \in Any
    BY <2>1 DEF Item
  <2> HIDE DEF Any
  <2>3. skills \in [1..NumSkills -> Any]
    BY <2>2 DEF Skills
  <2> QED
    BY <2>1, <2>3
<1>6. deep_actions(rs, sel, sums, ints) = of \o health \o prisms_ \o skills
  BY DEF deep_actions
<1> HIDE DEF Any, of, health, prisms_, skills
<1>7. of \o health \o prisms_ \o skills \in Seq(Any)
  BY <1>2, <1>3, <1>4, <1>5
<1> QED
  BY <1>6, <1>7

(***************************************************************************)
(* The inductive invariant.                                                *)
(***************************************************************************)

WorldTypes ==
    /\ DOMAIN files \subseteq Runs /\ \A r \in DOMAIN files : files[r] \in Snapshot
    /\ statusFiles \subseteq Services /\ prisms \subseteq Prisms
    /\ now \in 0..MaxNow /\ changes \in 0..MaxChanges

BoardTypes ==
    /\ runs \in Seq(BoardRow) /\ selected \in Nat /\ deep_selected \in Nat
    /\ mux_summaries \in Seq(Services) /\ polarize_intents \in Seq(Prisms)

ViewTypes ==
    /\ active_tab \in 0..2 /\ focus \in {"browse", "search", "overlay"}
    /\ queue_scope \in {"live", "history", "all"} /\ search_query \in 0..MaxQuery
    /\ pc \in {"poll", "quit"}

\* A whole marker is that of an archived run, under its own name; a marker that does
\* not parse was cut short by a crash; and the name of an archived run has a marker.
MarkersKnown ==
    /\ archived \subseteq Runs /\ torn \subseteq Runs
    /\ \A x \in archived : MarkerName[x] \in DOMAIN markers
    /\ \A n \in DOMAIN markers :
        \/ markers[n] \in archived /\ MarkerName[markers[n]] = n
        \/ markers[n] = Torn /\ \E r \in torn : MarkerName[r] = n

NoneHidden == \A i \in DOMAIN runs : runs[i].id \notin archived_run_ids(markers)

CockpitIInv ==
    WorldTypes /\ BoardTypes /\ ViewTypes /\ SelectionInRange /\ MarkersKnown /\ NoneHidden

\* An archived run is hidden unless its marker is another's now.
LEMMA StaysHidden ==
  ASSUME MarkersKnown, NEW x \in archived, ~Displaced(x)
  PROVE  x \in archived_run_ids(markers)
<1> DEFINE n == MarkerName[x]
<1>1. n \in DOMAIN markers /\ x \in Runs /\ x # Torn
  BY DEF MarkersKnown, Runs, Torn
<1>2. CASE markers[n] = Torn
  <2>1. n = x
    BY <1>2 DEF Displaced
  <2> QED
    BY <1>1, <1>2, <2>1 DEF archived_run_ids
<1>3. CASE markers[n] # Torn
  <2>1. markers[n] \in archived /\ MarkerName[markers[n]] = n
    BY <1>1, <1>3 DEF MarkersKnown
  <2>2. markers[n] = x
    BY <2>1 DEF Displaced
  <2> QED
    BY <1>1, <2>2 DEF archived_run_ids
<1> QED
  BY <1>2, <1>3

\* A run that is hidden has its own marker, or the name of a marker cut short.
LEMMA HiddenFor ==
  ASSUME MarkersKnown, NEW x \in archived_run_ids(markers)
  PROVE  x \in {y \in archived : ~Displaced(y)} \cup {MarkerName[r] : r \in torn}
<1>1. ASSUME NEW n \in DOMAIN markers, markers[n] # Torn, x = markers[n]
      PROVE  x \in archived /\ ~Displaced(x)
  <2>1. x \in archived /\ MarkerName[x] = n
    BY <1>1 DEF MarkersKnown
  <2> QED
    BY <1>1, <2>1 DEF Displaced
<1>2. ASSUME NEW n \in DOMAIN markers, markers[n] = Torn PROVE n \in {MarkerName[r] : r \in torn}
  <2>1. markers[n] \notin archived
    BY <1>2 DEF MarkersKnown, Runs, Torn
  <2> QED
    BY <1>2, <2>1 DEF MarkersKnown
<1> QED
  BY <1>1, <1>2 DEF archived_run_ids

\* Adopting a board selects a row of it.
LEMMA Adopted ==
  ASSUME WorldTypes, BoardTypes, NEW board \in Seq(BoardRow), Adopt(board)
  PROVE  BoardTypes' /\ SelectionInRange' /\ runs' = board
<1> DEFINE sel == IF selected >= Len(board) /\ board # <<>> THEN Len(board) - 1 ELSE selected
           len == Len(deep_actions(board, sel, mux_summaries, polarize_intents))
<1>1. /\ runs' = board /\ selected' = sel
      /\ deep_selected' = IF len = 0 THEN 0 ELSE IF deep_selected >= len THEN len - 1 ELSE deep_selected
      /\ mux_summaries' = current_summaries(statusFiles)
      /\ polarize_intents' = current_intents(prisms)
  BY DEF Adopt
<1>2. sel \in Nat /\ (board # <<>> => sel < Len(board))
  <2>1. Len(board) \in Nat /\ (board # <<>> => Len(board) > 0) /\ selected \in Nat
    BY DEF BoardTypes
  <2> QED
    BY <2>1
<1> HIDE DEF sel
<1>3. len \in Nat
  BY <1>2, ActionsListed DEF BoardTypes
<1> HIDE DEF len
<1>4. deep_selected' \in Nat
  BY <1>1, <1>3 DEF BoardTypes
<1>5. mux_summaries' \in Seq(Services) /\ polarize_intents' \in Seq(Prisms)
  BY <1>1, SourceLists DEF WorldTypes
<1> QED
  BY <1>1, <1>2, <1>4, <1>5 DEF BoardTypes, SelectionInRange

\* A refresh, also one whose load fails, leaves a board without archived runs and
\* with a row selected.
LEMMA Refreshed ==
  ASSUME WorldTypes, BoardTypes, NEW ms, NEW scope, NEW query, refresh(ms, scope, query)
  PROVE  /\ DOMAIN files' \subseteq Runs /\ \A r \in DOMAIN files' : files'[r] \in Snapshot
         /\ changes' \in 0..MaxChanges
         /\ BoardTypes' /\ SelectionInRange'
         /\ \A i \in DOMAIN runs' : runs'[i].id \notin archived_run_ids(ms)
<1> DEFINE board == apply_run_filters(render_runs(files, ms, now), scope, query)
<1>1. CASE Adopt(board) /\ UNCHANGED <<files, changes>>
  <2>1. board \in Seq(BoardRow) /\ \A i \in DOMAIN board : board[i].id \in load(files, ms)
    BY BoardRows DEF WorldTypes
  <2> HIDE DEF board
  <2>2. BoardTypes' /\ SelectionInRange' /\ runs' = board
    BY <1>1, <2>1, Adopted
  <2>3. \A i \in DOMAIN runs' : runs'[i].id \notin archived_run_ids(ms)
    BY <2>1, <2>2 DEF load
  <2> QED
    BY <1>1, <2>2, <2>3 DEF WorldTypes
<1>2. CASE \E r \in DOMAIN files :
              /\ changes < MaxChanges /\ changes' = changes + 1
              /\ files' = [x \in DOMAIN files \ {r} |-> files[x]] /\ Adopt(<<>>)
  <2>1. PICK r \in DOMAIN files :
              /\ changes < MaxChanges /\ changes' = changes + 1
              /\ files' = [x \in DOMAIN files \ {r} |-> files[x]] /\ Adopt(<<>>)
    BY <1>2
  <2>2. <<>> \in Seq(BoardRow) /\ DOMAIN <<>> = {}
    BY NoRows
  <2>3. BoardTypes' /\ SelectionInRange' /\ runs' = <<>>
    BY <2>1, <2>2, Adopted
  <2>4. changes' \in 0..MaxChanges
    BY <2>1, CockpitAssumption DEF WorldTypes
  <2>5. DOMAIN files' \subseteq Runs /\ \A x \in DOMAIN files' : files'[x] \in Snapshot
    BY <2>1 DEF WorldTypes
  <2> QED
    BY <2>2, <2>3, <2>4, <2>5
<1> QED
  BY <1>1, <1>2 DEF refresh

\* A step that refreshes with the markers there are.
LEMMA RefreshStep ==
  ASSUME CockpitIInv, NEW scope, NEW query, refresh(markers, scope, query),
         UNCHANGED <<markers, statusFiles, prisms, now, archived, torn>>
  PROVE  WorldTypes' /\ BoardTypes' /\ SelectionInRange' /\ MarkersKnown' /\ NoneHidden'
<1>1. /\ DOMAIN files' \subseteq Runs /\ \A r \in DOMAIN files' : files'[r] \in Snapshot
      /\ changes' \in 0..MaxChanges
      /\ BoardTypes' /\ SelectionInRange'
      /\ \A i \in DOMAIN runs' : runs'[i].id \notin archived_run_ids(markers)
  BY Refreshed DEF CockpitIInv
<1>2. WorldTypes'
  BY <1>1 DEF WorldTypes, CockpitIInv
<1>3. MarkersKnown'
  BY DEF MarkersKnown, CockpitIInv
<1>4. NoneHidden'
  BY <1>1 DEF NoneHidden
<1> QED
  BY <1>1, <1>2, <1>3, <1>4

\* A step that only moves the selection.
LEMMA QuietStep ==
  ASSUME CockpitIInv, Quiet, selected' \in Nat, deep_selected' \in Nat,
         runs # <<>> => selected' < Len(runs)
  PROVE  WorldTypes' /\ BoardTypes' /\ SelectionInRange' /\ MarkersKnown' /\ NoneHidden'
<1> USE DEF Quiet, worldVars, historyVars, CockpitIInv
<1>1. WorldTypes' /\ BoardTypes' /\ SelectionInRange'
  BY DEF WorldTypes, BoardTypes, SelectionInRange
<1>2. MarkersKnown' /\ NoneHidden'
  BY DEF MarkersKnown, NoneHidden
<1> QED
  BY <1>1, <1>2

\* The marker of the selected run replaces whatever had its name.
LEMMA MarkerStep ==
  ASSUME MarkersKnown, NEW r \in Runs, NEW m \in {r, Torn},
         markers' = Put(markers, MarkerName[r], m),
         m = r => archived' = archived \cup {r} /\ torn' = {x \in torn : MarkerName[x] # MarkerName[r]},
         m # r => archived' = archived /\ torn' = torn \cup {r}
  PROVE  MarkersKnown'
<1> DEFINE name == MarkerName[r]
<1>1. /\ DOMAIN markers' = DOMAIN markers \cup {name} /\ markers'[name] = m
      /\ \A n \in DOMAIN markers : n # name => markers'[n] = markers[n]
  BY DEF Put
<1>2. r # Torn
  BY DEF Runs, Torn
<1>3. archived' \subseteq Runs /\ torn' \subseteq Runs /\ archived \subseteq archived'
  BY DEF MarkersKnown
<1>4. ASSUME NEW x \in archived' PROVE MarkerName[x] \in DOMAIN markers'
  <2>1. x \in archived \/ x = r
    OBVIOUS
  <2> QED
    BY <1>1, <2>1 DEF MarkersKnown
<1>5. ASSUME NEW n \in DOMAIN markers'
      PROVE  \/ markers'[n] \in archived' /\ MarkerName[markers'[n]] = n
             \/ markers'[n] = Torn /\ \E x \in torn' : MarkerName[x] = n
  <2>1. CASE n = name /\ m = r
    BY <1>1, <2>1
  <2>2. CASE n = name /\ m # r
    BY <1>1, <2>2
  <2>3. CASE n # name
    <3>1. n \in DOMAIN markers /\ markers'[n] = markers[n]
      BY <1>1, <2>3
    <3>2. CASE markers[n] \in archived /\ MarkerName[markers[n]] = n
      BY <1>3, <3>1, <3>2
    <3>3. CASE markers[n] = Torn /\ \E x \in torn : MarkerName[x] = n
      BY <2>3, <3>1, <3>3
    <3> QED
      BY <3>1, <3>2, <3>3 DEF MarkersKnown
  <2> QED
    BY <2>1, <2>2, <2>3
<1> QED
  BY <1>3, <1>4, <1>5 DEF MarkersKnown

\* The selection moves within the list, or goes to its other end.
LEMMA MovedWithin ==
  ASSUME NEW i \in Nat, NEW d \in {-1, 1}, NEW len \in Nat, len # 0
  PROVE  Moved(i, d, len) \in Nat /\ Moved(i, d, len) < len
  BY DEF Moved

\* The arrow keys stay on the rows of the board.
LEMMA SelectionMoved ==
  ASSUME BoardTypes, NEW d \in {-1, 1}, move_selection(d)
  PROVE  selected' \in Nat /\ (runs # <<>> => selected' < Len(runs))
<1>1. CASE runs = <<>>
  BY <1>1 DEF move_selection
<1>2. CASE runs # <<>>
  <2>1. Len(runs) \in Nat /\ Len(runs) # 0 /\ selected \in Nat
    BY <1>2 DEF BoardTypes
  <2>2. selected' = Moved(selected, d, Len(runs))
    BY <1>2 DEF move_selection
  <2> QED
    BY <2>1, <2>2, MovedWithin
<1> QED
  BY <1>1, <1>2

\* On the Controls tab they move over the deep actions.
LEMMA ActionMoved ==
  ASSUME BoardTypes, NEW d \in {-1, 1}, move_deep_selection(d)
  PROVE  deep_selected' \in Nat
<1>1. Len(Actions) \in Nat /\ (Actions # <<>> => Len(Actions) # 0)
  BY ActionsListed DEF Actions, BoardTypes
<1>2. CASE Actions # <<>>
  <2>1. Moved(deep_selected, d, Len(Actions)) \in Nat
    BY <1>1, <1>2, MovedWithin DEF BoardTypes
  <2> QED
    BY <1>2, <2>1 DEF move_deep_selection
<1>3. CASE Actions = <<>>
  BY <1>3 DEF move_deep_selection
<1> QED
  BY <1>2, <1>3

\* A key that opens or closes an overlay.
LEMMA FocusStep ==
  ASSUME CockpitIInv, NEW f \in {"browse", "search", "overlay"}, Focus(f)
  PROVE  CockpitIInv'
<1>1. Quiet /\ UNCHANGED <<selected, deep_selected, active_tab, queue_scope, search_query>> /\ focus' = f
  BY DEF Focus, viewVars
<1>2. selected' \in Nat /\ deep_selected' \in Nat /\ (runs # <<>> => selected' < Len(runs))
  BY <1>1 DEF CockpitIInv, BoardTypes, SelectionInRange
<1>3. WorldTypes' /\ BoardTypes' /\ SelectionInRange' /\ MarkersKnown' /\ NoneHidden'
  BY <1>1, <1>2, QuietStep
<1>4. ViewTypes'
  BY <1>1 DEF CockpitIInv, ViewTypes, Quiet
<1> QED
  BY <1>3, <1>4 DEF CockpitIInv

\* A key that refreshes.
LEMMA RefreshingStep ==
  ASSUME CockpitIInv, NEW scope \in {"live", "history", "all"}, NEW query \in 0..MaxQuery,
         Refreshing(scope, query)
  PROVE  CockpitIInv'
<1>1. /\ refresh(markers, scope, query) /\ UNCHANGED <<markers, statusFiles, prisms, now, archived, torn>>
      /\ queue_scope' = scope /\ search_query' = query /\ UNCHANGED <<active_tab, focus, pc>>
  BY DEF Refreshing, historyVars
<1>2. WorldTypes' /\ BoardTypes' /\ SelectionInRange' /\ MarkersKnown' /\ NoneHidden'
  BY <1>1, RefreshStep
<1>3. ViewTypes'
  BY <1>1 DEF CockpitIInv, ViewTypes
<1> QED
  BY <1>2, <1>3 DEF CockpitIInv

\* The keys that do not archive.
LEMMA KeyStep ==
  ASSUME CockpitIInv, handle_key, ~archive_selected_run
  PROVE  CockpitIInv'
<1> USE DEF worldVars, boardVars, viewVars, historyVars
<1>0. /\ queue_scope \in {"live", "history", "all"} /\ search_query \in 0..MaxQuery
      /\ selected \in Nat /\ deep_selected \in Nat /\ (runs # <<>> => selected < Len(runs))
  BY DEF CockpitIInv, ViewTypes, BoardTypes, SelectionInRange
<1>1. CASE KeyQuit
  <2>1. /\ runs' = <<>> /\ selected' = 0 /\ deep_selected' = 0 /\ mux_summaries' = <<>>
        /\ polarize_intents' = <<>> /\ active_tab' = 0 /\ queue_scope' = "live"
        /\ search_query' = 0 /\ focus' = "browse" /\ pc' = "quit"
        /\ UNCHANGED <<files, markers, statusFiles, prisms, now, changes, archived, torn>>
    BY <1>1 DEF KeyQuit
  <2>2. ViewTypes'
    BY <2>1, CockpitAssumption DEF ViewTypes
  <2>3. BoardTypes' /\ SelectionInRange' /\ NoneHidden'
    BY <2>1, NoRows DEF BoardTypes, SelectionInRange, NoneHidden
  <2>4. WorldTypes' /\ MarkersKnown'
    BY <2>1 DEF CockpitIInv, WorldTypes, MarkersKnown
  <2> QED
    BY <2>2, <2>3, <2>4 DEF CockpitIInv
<1>2. CASE KeyOverlay \/ KeyClose \/ KeySearch \/ KeyLaunchHalted \/ KeyOpenArtifact
  <2>1. Focus("overlay") \/ Focus("browse") \/ Focus("search")
    BY <1>2 DEF KeyOverlay, KeyClose, KeySearch, KeyLaunchHalted, KeyOpenArtifact
  <2> QED
    BY <2>1, FocusStep
<1>3. CASE KeySearchText
  <2>1. PICK q \in {search_query + 1, search_query - 1} \cap 0..MaxQuery : Refreshing(queue_scope, q)
    BY <1>3 DEF KeySearchText
  <2> QED
    BY <1>0, <2>1, RefreshingStep
<1>4. CASE KeyClearSearch \/ toggle_filter \/ KeyRefresh
  <2>1. NextScope[queue_scope] \in {"live", "history", "all"}
    BY <1>0 DEF NextScope
  <2>2. 0 \in 0..MaxQuery
    BY CockpitAssumption
  <2>3. \/ Refreshing(queue_scope, 0) \/ Refreshing(NextScope[queue_scope], search_query)
        \/ Refreshing(queue_scope, search_query)
    BY <1>4 DEF KeyClearSearch, toggle_filter, KeyRefresh
  <2> QED
    BY <1>0, <2>1, <2>2, <2>3, RefreshingStep
<1>5. CASE KeyTab \/ KeyEdit
  <2>1. /\ Quiet /\ UNCHANGED <<selected, deep_selected, queue_scope, search_query>>
        /\ active_tab' \in 0..2 /\ (focus' = focus \/ focus' = "overlay")
    BY <1>5 DEF KeyTab, KeyEdit
  <2>2. ViewTypes'
    BY <2>1 DEF CockpitIInv, ViewTypes, Quiet
  <2> QED
    BY <1>0, <2>1, <2>2, QuietStep DEF CockpitIInv
<1>6. CASE \E d \in {-1, 1} : KeyUpDown(d) \/ KeyLeftRight(d)
  <2>1. PICK d \in {-1, 1} : KeyUpDown(d) \/ KeyLeftRight(d)
    BY <1>6
  <2>2. /\ Quiet /\ UNCHANGED <<active_tab, queue_scope, search_query, focus>>
        /\ move_selection(d) \/ selected' = selected
        /\ move_deep_selection(d) \/ deep_selected' = deep_selected
    BY <2>1 DEF KeyUpDown, KeyLeftRight
  <2>3. selected' \in Nat /\ (runs # <<>> => selected' < Len(runs))
    BY <1>0, <2>2, SelectionMoved DEF CockpitIInv
  <2>4. deep_selected' \in Nat
    BY <1>0, <2>2, ActionMoved DEF CockpitIInv
  <2>5. ViewTypes'
    BY <2>2 DEF CockpitIInv, ViewTypes, Quiet
  <2> QED
    BY <2>2, <2>3, <2>4, <2>5, QuietStep DEF CockpitIInv
<1>7. CASE KeyLaunch \/ KeyRunAction
  <2>1. /\ refresh(markers, queue_scope, search_query) /\ focus' \in {"browse", "overlay"}
        /\ UNCHANGED <<markers, statusFiles, prisms, now, archived, torn>>
        /\ UNCHANGED <<active_tab, queue_scope, search_query, pc>>
    BY <1>7 DEF KeyLaunch, KeyRunAction, Ran
  <2>2. WorldTypes' /\ BoardTypes' /\ SelectionInRange' /\ MarkersKnown' /\ NoneHidden'
    BY <2>1, RefreshStep
  <2>3. ViewTypes'
    BY <2>1 DEF CockpitIInv, ViewTypes
  <2> QED
    BY <2>2, <2>3 DEF CockpitIInv
<1> QED
  BY <1>1, <1>2, <1>3, <1>4, <1>5, <1>6, <1>7 DEF handle_key

\* The selected row is that of a run.
LEMMA SelectedIsRun ==
  ASSUME BoardTypes, SelectedRow # None
  PROVE  SelectedRow.of \in Runs
<1>1. selected < Len(runs)
  BY DEF SelectedRow
<1>2. runs[selected + 1] \in BoardRow
  BY <1>1 DEF BoardTypes
<1>3. SelectedRow.of = runs[selected + 1].id
  BY <1>1 DEF SelectedRow, Item
<1> QED
  BY <1>2, <1>3 DEF BoardRow

\* Archiving hides the selected run; the runs whose marker had its name come back.
LEMMA ArchiveStep ==
  ASSUME CockpitIInv, archive_selected_run
  PROVE  CockpitIInv'
<1> USE DEF worldVars, boardVars, viewVars, historyVars
<1> DEFINE r == SelectedRow.of
           ms == Put(markers, MarkerName[r], r)
<1>1. /\ SelectedRow # None /\ markers' = ms /\ refresh(ms, queue_scope, search_query)
      /\ archived' = archived \cup {r} /\ torn' = {x \in torn : MarkerName[x] # MarkerName[r]}
      /\ UNCHANGED <<statusFiles, prisms, now, active_tab, queue_scope, search_query, focus, pc>>
  BY DEF archive_selected_run
<1>2. r \in Runs
  BY <1>1, SelectedIsRun DEF CockpitIInv
<1> HIDE DEF r
<1>3. MarkersKnown'
  BY <1>1, <1>2, MarkerStep DEF CockpitIInv
<1> HIDE DEF ms
<1>4. /\ DOMAIN files' \subseteq Runs /\ \A x \in DOMAIN files' : files'[x] \in Snapshot
      /\ changes' \in 0..MaxChanges
      /\ BoardTypes' /\ SelectionInRange'
      /\ \A k \in DOMAIN runs' : runs'[k].id \notin archived_run_ids(ms)
  BY <1>1, Refreshed DEF CockpitIInv
<1>5. NoneHidden'
  BY <1>1, <1>4 DEF NoneHidden
<1>6. WorldTypes' /\ ViewTypes'
  BY <1>1, <1>4 DEF WorldTypes, ViewTypes, CockpitIInv
<1> QED
  BY <1>3, <1>4, <1>5, <1>6 DEF CockpitIInv

\* The first board of a cockpit: nothing on it is archived, and its first row is
\* selected.
LEMMA FirstBoard ==
  ASSUME WorldTypes, NEW ms
  PROVE  LET app == NewApp(files, ms, statusFiles, prisms)
         IN  /\ app.runs \in Seq(BoardRow) /\ app.mux \in Seq(Services) /\ app.intents \in Seq(Prisms)
             /\ \A k \in DOMAIN app.runs : app.runs[k].id \notin archived_run_ids(ms)
             /\ app.runs # <<>> => 0 < Len(app.runs)
<1> DEFINE board == apply_run_filters(render_runs(files, ms, now), "live", 0)
           app == NewApp(files, ms, statusFiles, prisms)
<1>1. app.runs = board /\ app.mux = current_summaries(statusFiles) /\ app.intents = current_intents(prisms)
  BY DEF NewApp
<1>2. board \in Seq(BoardRow) /\ \A k \in DOMAIN board : board[k].id \in load(files, ms)
  BY BoardRows DEF WorldTypes
<1>3. current_summaries(statusFiles) \in Seq(Services) /\ current_intents(prisms) \in Seq(Prisms)
  BY SourceLists DEF WorldTypes
<1> HIDE DEF board
<1>4. board # <<>> => 0 < Len(board)
  BY <1>2
<1>5. \A k \in DOMAIN board : board[k].id \notin archived_run_ids(ms)
  BY <1>2 DEF load
<1> HIDE DEF app
<1>6. /\ app.runs \in Seq(BoardRow) /\ app.mux \in Seq(Services) /\ app.intents \in Seq(Prisms)
      /\ \A k \in DOMAIN app.runs : app.runs[k].id \notin archived_run_ids(ms)
      /\ app.runs # <<>> => 0 < Len(app.runs)
  BY <1>1, <1>2, <1>3, <1>4, <1>5
<1> QED
  BY <1>6 DEF app

\* A crash while the marker is written, and the cockpit started again.
LEMMA CrashStep ==
  ASSUME CockpitIInv, CrashInArchive
  PROVE  CockpitIInv'
<1> DEFINE r == SelectedRow.of
           ms == Put(markers, MarkerName[r], Torn)
           app == NewApp(files, ms, statusFiles, prisms)
<1>1. /\ SelectedRow # None /\ changes < MaxChanges /\ changes' = changes + 1
      /\ markers' = ms /\ runs' = app.runs /\ mux_summaries' = app.mux
      /\ polarize_intents' = app.intents
      /\ archived' = archived /\ torn' = torn \cup {r}
      /\ selected' = 0 /\ deep_selected' = 0 /\ active_tab' = 0 /\ queue_scope' = "live"
      /\ search_query' = 0 /\ UNCHANGED <<files, statusFiles, prisms, now, focus, pc>>
  BY DEF CrashInArchive
<1>2. r \in Runs /\ r # Torn
  BY <1>1, SelectedIsRun DEF CockpitIInv, Runs, Torn
<1>3. /\ app.runs \in Seq(BoardRow) /\ app.mux \in Seq(Services) /\ app.intents \in Seq(Prisms)
      /\ \A k \in DOMAIN app.runs : app.runs[k].id \notin archived_run_ids(ms)
      /\ app.runs # <<>> => 0 < Len(app.runs)
  <2> HIDE DEF ms
  <2> QED
    BY FirstBoard DEF CockpitIInv
<1> HIDE DEF r, app
<1>4. MarkersKnown'
  <2>1. markers' = Put(markers, MarkerName[r], Torn) /\ MarkersKnown
    BY <1>1 DEF CockpitIInv
  <2> HIDE DEF ms
  <2> QED
    BY <1>1, <1>2, <2>1, MarkerStep
<1> HIDE DEF ms
<1>5. NoneHidden'
  BY <1>1, <1>3 DEF NoneHidden
<1>6. BoardTypes' /\ SelectionInRange'
  BY <1>1, <1>3 DEF BoardTypes, SelectionInRange
<1>7. changes' \in 0..MaxChanges
  BY <1>1, CockpitAssumption DEF CockpitIInv, WorldTypes
<1>8. WorldTypes' /\ ViewTypes'
  BY <1>1, <1>7, CockpitAssumption DEF CockpitIInv, WorldTypes, ViewTypes
<1> QED
  BY <1>4, <1>5, <1>6, <1>8 DEF CockpitIInv

\* What other programs do does not touch the App.
LEMMA WorldStep ==
  ASSUME CockpitIInv, World
  PROVE  CockpitIInv'
<1> USE DEF boardVars, viewVars, historyVars
<1>1. ASSUME UNCHANGED <<boardVars, viewVars, focus, pc, historyVars, markers>>, WorldTypes'
      PROVE  CockpitIInv'
  <2>1. BoardTypes' /\ ViewTypes' /\ SelectionInRange'
    BY <1>1 DEF CockpitIInv, BoardTypes, ViewTypes, SelectionInRange
  <2>2. MarkersKnown' /\ NoneHidden'
    BY <1>1 DEF CockpitIInv, MarkersKnown, NoneHidden
  <2> QED
    BY <1>1, <2>1, <2>2 DEF CockpitIInv
<1>2. ASSUME Change PROVE changes' \in 0..MaxChanges /\ UNCHANGED <<boardVars, viewVars, focus, pc, historyVars, markers, now>>
  BY <1>2, CockpitAssumption DEF Change, CockpitIInv, WorldTypes
<1>3. ASSUME NEW r \in Runs, WriteRun(r) PROVE CockpitIInv'
  <2>1. PICK t \in Templates : files' = Put(files, r, [t EXCEPT !.updated_at = now, !.last_heartbeat = now])
    BY <1>3 DEF WriteRun
  <2>2. [t EXCEPT !.updated_at = now, !.last_heartbeat = now] \in Snapshot
    <3>1. t \in Snapshot /\ now \in Int
      BY CockpitAssumption DEF CockpitIInv, WorldTypes
    <3> QED
      BY <3>1 DEF Snapshot
  <2>3. DOMAIN files' \subseteq Runs /\ \A x \in DOMAIN files' : files'[x] \in Snapshot
    BY <2>1, <2>2 DEF Put, CockpitIInv, WorldTypes
  <2>4. Change /\ UNCHANGED <<statusFiles, prisms>>
    BY <1>3 DEF WriteRun
  <2>5. WorldTypes'
    BY <1>2, <2>3, <2>4 DEF CockpitIInv, WorldTypes
  <2> QED
    BY <1>1, <1>2, <2>4, <2>5
<1>4. ASSUME NEW r \in Runs, RemoveRun(r) PROVE CockpitIInv'
  <2>1. Change /\ UNCHANGED <<statusFiles, prisms>> /\ files' = [x \in DOMAIN files \ {r} |-> files[x]]
    BY <1>4 DEF RemoveRun
  <2>2. WorldTypes'
    BY <1>2, <2>1 DEF CockpitIInv, WorldTypes
  <2> QED
    BY <1>1, <1>2, <2>1, <2>2
<1>5. CASE ChangeStatusFiles \/ ChangePrisms
  <2>1. Change /\ UNCHANGED files /\ statusFiles' \subseteq Services /\ prisms' \subseteq Prisms
    BY <1>5 DEF ChangeStatusFiles, ChangePrisms, CockpitIInv, WorldTypes
  <2>2. WorldTypes'
    BY <1>2, <2>1 DEF CockpitIInv, WorldTypes
  <2> QED
    BY <1>1, <1>2, <2>1, <2>2
<1>6. CASE TimePasses
  <2>1. /\ UNCHANGED <<boardVars, viewVars, focus, pc, historyVars, markers, files, statusFiles, prisms, changes>>
        /\ now' = now + 1 /\ now < MaxNow
    BY <1>6 DEF TimePasses
  <2>2. now' \in 0..MaxNow
    BY <2>1, CockpitAssumption DEF CockpitIInv, WorldTypes
  <2>3. WorldTypes'
    BY <2>1, <2>2 DEF CockpitIInv, WorldTypes
  <2> QED
    BY <1>1, <2>1, <2>3
<1> QED
  BY <1>3, <1>4, <1>5, <1>6 DEF World

\* The board of a cockpit that starts is the one of the files it finds.
LEMMA CockpitStarts == Init => CockpitIInv
<1> SUFFICES ASSUME Init PROVE CockpitIInv
  OBVIOUS
<1>1. PICK S \in SUBSET Runs : files \in [S -> Templates]
  BY DEF Init
<1>2. DOMAIN files \subseteq Runs /\ \A r \in DOMAIN files : files[r] \in Snapshot
  BY <1>1, CockpitAssumption
<1>3. WorldTypes
  BY <1>2, CockpitAssumption DEF Init, WorldTypes
<1> DEFINE app == NewApp(files, markers, statusFiles, prisms)
<1>4. /\ app.runs \in Seq(BoardRow) /\ app.mux \in Seq(Services) /\ app.intents \in Seq(Prisms)
      /\ app.runs # <<>> => 0 < Len(app.runs)
  BY <1>3, FirstBoard
<1>5. /\ runs = app.runs /\ mux_summaries = app.mux /\ polarize_intents = app.intents
      /\ selected = 0 /\ deep_selected = 0 /\ archived = {} /\ torn = {} /\ markers = <<>>
  BY DEF Init
<1> HIDE DEF app
<1>6. BoardTypes /\ SelectionInRange
  BY <1>4, <1>5 DEF BoardTypes, SelectionInRange
<1>7. ViewTypes
  BY CockpitAssumption DEF Init, ViewTypes
<1>8. MarkersKnown
  BY <1>5, NoRows DEF MarkersKnown
<1>9. NoneHidden
  BY <1>3, <1>5, FirstBoard DEF NoneHidden, app
<1> QED
  BY <1>3, <1>6, <1>7, <1>8, <1>9 DEF CockpitIInv

\* Whatever the operator presses, other programs write, loads fail and crashes cut
\* short, the cockpit stays within its inductive invariant (run_app, handle_key,
\* App::refresh, archive_selected_run).
THEOREM CockpitCorrect == Spec => []CockpitIInv
<1>1. Init => CockpitIInv
  BY CockpitStarts
<1>2. CockpitIInv /\ [Next]_vars => CockpitIInv'
  <2> SUFFICES ASSUME CockpitIInv, [Next]_vars PROVE CockpitIInv'
    OBVIOUS
  <2>1. CASE Tick
    <3>1. /\ refresh(markers, queue_scope, search_query)
          /\ UNCHANGED <<markers, statusFiles, prisms, now, archived, torn>>
          /\ UNCHANGED <<active_tab, queue_scope, search_query, focus, pc>>
      BY <2>1 DEF Tick, viewVars, historyVars
    <3>2. WorldTypes' /\ BoardTypes' /\ SelectionInRange' /\ MarkersKnown' /\ NoneHidden'
      BY <3>1, RefreshStep
    <3>3. ViewTypes'
      BY <3>1 DEF CockpitIInv, ViewTypes
    <3> QED
      BY <3>2, <3>3 DEF CockpitIInv
  <2>2. CASE handle_key
    BY <2>2, KeyStep, ArchiveStep
  <2>3. CASE CrashInArchive
    BY <2>3, CrashStep
  <2>4. CASE World
    BY <2>4, WorldStep
  <2>5. CASE UNCHANGED vars
    <3> USE <2>5 DEF vars, worldVars, boardVars, viewVars, historyVars
    <3>1. WorldTypes' /\ BoardTypes' /\ ViewTypes' /\ SelectionInRange'
      BY DEF CockpitIInv, WorldTypes, BoardTypes, ViewTypes, SelectionInRange
    <3>2. MarkersKnown' /\ NoneHidden'
      BY DEF CockpitIInv, MarkersKnown, NoneHidden
    <3> QED
      BY <3>1, <3>2 DEF CockpitIInv
  <2> QED
    BY <2>1, <2>2, <2>3, <2>4, <2>5 DEF Next
<1> QED
  BY <1>1, <1>2, PTL DEF Spec

\* The state of the App and of the files it reads has its type: rows of the board
\* are runs, whatever order their timestamps put them in (App, render_runs).
THEOREM CockpitTyped == Spec => []TypeOK
<1>1. CockpitIInv => TypeOK
  <2> SUFFICES ASSUME CockpitIInv PROVE TypeOK
    OBVIOUS
  <2>1. runs \in Seq([id : Runs, kind : DOMAIN sort_rank, snap : Snapshot])
    BY KindsRanked DEF CockpitIInv, BoardTypes, BoardRow
  <2>2. DOMAIN NextScope = {"live", "history", "all"}
    BY DEF NextScope
  <2>3. \A n \in DOMAIN markers : markers[n] \in Runs \cup {Torn}
    BY DEF CockpitIInv, MarkersKnown
  <2>4. WorldTypes /\ BoardTypes /\ ViewTypes /\ archived \subseteq Runs /\ torn \subseteq Runs
    BY DEF CockpitIInv, MarkersKnown
  <2> QED
    BY <2>1, <2>2, <2>3, <2>4 DEF TypeOK, WorldTypes, BoardTypes, ViewTypes
<1> QED
  BY <1>1, CockpitCorrect, PTL

\* While the board has rows, one of them is selected (App::sync_selection,
\* move_selection).
THEOREM RowSelected == Spec => []SelectionInRange
<1>1. CockpitIInv => SelectionInRange
  BY DEF CockpitIInv
<1> QED
  BY <1>1, CockpitCorrect, PTL

\* A run once archived is not on the board unless a run with the same marker name has
\* displaced its marker, and a run that was not archived is hidden only if its id is the
\* name of a marker cut short (archive_selected_run, archived_id_from_marker).
THEOREM ArchiveHidesExactly == Spec => []ArchiveExact
<1>1. CockpitIInv => ArchiveExact
  BY StaysHidden, HiddenFor DEF CockpitIInv, NoneHidden, ArchiveExact
<1> QED
  BY <1>1, CockpitCorrect, PTL

(***************************************************************************)
(* The commands in the foreground.                                         *)
(***************************************************************************)

\* A command with a probe is waited for only once its session was seen.
LaunchIInv ==
    /\ LaunchTypeOK /\ LaunchReportTrue
    /\ lpc = "wait" /\ readiness_probe(cmd) => seen

\* One case per action of suspend_and_run and of the process it waits for.
LEMMA LaunchStep == LaunchIInv /\ [LaunchNext]_launchVars => LaunchIInv'
<1> SUFFICES ASSUME LaunchIInv, [LaunchNext]_launchVars PROVE LaunchIInv'
  OBVIOUS
<1> USE DEF LaunchIInv, LaunchTypeOK, LaunchReportTrue, readiness_probe, waiting
<1>1. ASSUME NEW c \in Command, Suspend(c) PROVE LaunchIInv'
  BY <1>1 DEF Suspend, Command
<1>2. CASE ProbeSees
  BY <1>2 DEF ProbeSees
<1>3. CASE ProbeMisses
  BY <1>3 DEF ProbeMisses
<1>4. CASE Inspect
  BY <1>4 DEF Inspect
<1>5. CASE GiveUp
  BY <1>5 DEF GiveUp
<1>6. CASE Collect
  BY <1>6 DEF Collect, Outcome
<1>7. CASE Restore
  BY <1>7 DEF Restore
<1>8. CASE SessionAppears
  BY <1>8 DEF SessionAppears
<1>9. CASE ChildExits
  <2>1. /\ lpc' = lpc /\ cmd' = cmd /\ seen' = seen /\ expired' = expired /\ raw' = raw /\ report' = report
        /\ child = "running" /\ child' \in {"ok", "failed"} /\ session' \in BOOLEAN /\ held' = held
    BY <1>9, Zenon DEF ChildExits
  <2>2. LaunchTypeOK'
    BY <2>1, Zenon
  <2>3. LaunchReportTrue'
    BY <2>1
  <2>4. (lpc = "wait" /\ readiness_probe(cmd) => seen)'
    BY <2>1, Zenon
  <2> QED
    BY <2>2, <2>3, <2>4
<1>10. CASE DeadlinePasses
  BY <1>10 DEF DeadlinePasses
<1>11. CASE PipeInherited
  <2>1. /\ lpc' = lpc /\ cmd' = cmd /\ seen' = seen /\ expired' = expired /\ raw' = raw /\ report' = report
        /\ child' = child /\ session' = session /\ held' = TRUE
    BY <1>11, Zenon DEF PipeInherited
  <2>2. LaunchTypeOK'
    BY <2>1, Zenon
  <2>3. LaunchReportTrue'
    BY <2>1
  <2>4. (lpc = "wait" /\ readiness_probe(cmd) => seen)'
    BY <2>1, Zenon
  <2> QED
    BY <2>2, <2>3, <2>4
<1>12. CASE PipeReleased
  <2>1. /\ lpc' = lpc /\ cmd' = cmd /\ seen' = seen /\ expired' = expired /\ raw' = raw /\ report' = report
        /\ child' = child /\ session' = session /\ held' = FALSE
    BY <1>12, Zenon DEF PipeReleased
  <2>2. LaunchTypeOK'
    BY <2>1, Zenon
  <2>3. LaunchReportTrue'
    BY <2>1
  <2>4. (lpc = "wait" /\ readiness_probe(cmd) => seen)'
    BY <2>1, Zenon
  <2> QED
    BY <2>2, <2>3, <2>4
<1>13. CASE UNCHANGED launchVars
  <2>1. /\ lpc' = lpc /\ cmd' = cmd /\ child' = child /\ held' = held /\ session' = session /\ seen' = seen
        /\ expired' = expired /\ raw' = raw /\ report' = report
    BY <1>13 DEF launchVars
  <2>2. LaunchTypeOK'
    <3>1. held' \in BOOLEAN /\ session' \in BOOLEAN /\ seen' \in BOOLEAN /\ expired' \in BOOLEAN /\ raw' \in BOOLEAN
      BY <2>1, Zenon
    <3>2. lpc' = lpc /\ cmd' = cmd /\ child' = child /\ report' = report
      BY <2>1
    <3> QED
      BY <3>1, <3>2
  <2>3. LaunchReportTrue'
    BY <2>1, Zenon
  <2>4. (lpc = "wait" /\ readiness_probe(cmd) => seen)'
    BY <2>1, Zenon
  <2> QED
    BY <2>2, <2>3, <2>4
<1> QED
  BY <1>1, <1>2, <1>3, <1>4, <1>5, <1>6, <1>7, <1>8, <1>9, <1>10, <1>11, <1>12, <1>13
  DEF LaunchNext, Foreground

\* However the process, its session, what it started and the deadline race the
\* probes: a launch is reported done only if a probe saw its session and the command
\* then succeeded, a command is left running only when it could not be inspected, and
\* the operator works on with a terminal in the wrong mode only after being told so
\* (suspend_and_run, wait_for_interactive_launch).
THEOREM ReportsTrue == LaunchSpec => []LaunchReportTrue
<1>1. LaunchInit => LaunchIInv
  BY DEF LaunchInit, LaunchIInv, LaunchTypeOK, LaunchReportTrue, readiness_probe, Command
<1>2. LaunchIInv => LaunchReportTrue
  BY DEF LaunchIInv
<1> QED
  BY <1>1, <1>2, LaunchStep, PTL DEF LaunchSpec

=============================================================================
