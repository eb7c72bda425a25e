------------------------------ MODULE RunBoard ------------------------------
(***************************************************************************)
(* What the operator cockpit makes of the files it reads: run snapshots,   *)
(* archive markers, status files of the mux and polarize prisms            *)
(* (tui-agent/src/state.rs, mux.rs, polarize.rs, skills_catalog.rs and the *)
(* filters and deep actions of app.rs).  Every operator is a pure function *)
(* of the files; Cockpit has the state.                                    *)
(*                                                                         *)
(* A run id is its place in the string order of the ids.  A timestamp is a *)
(* number, and the two windows of classify_run, 15 minutes and 24 hours,   *)
(* are the constants StaleAfter and RecentFor.                             *)
(***************************************************************************)
EXTENDS Tables, Sequences

CONSTANTS
    NumRuns,      \* run ids 1..NumRuns
    StaleAfter,   \* is_stale: a pulse older than this is stale
    RecentFor,    \* is_recent: a pulse younger than this is recent
    MarkerName,   \* safe_marker_name: the file stem of a run's archive marker
    MatchLen,     \* how much of the operator's search text a run contains
    NumServices,  \* mux services that may have a status file, in path order
    Override,     \* those named by VIBECRAFTED_MUX_STATUS_PATHS
    NumPrisms,    \* prism files, numbered by their modification time
    MaxIntents,   \* current_intents keeps this many
    NumSkills     \* the length of CATALOG

Runs     == 1..NumRuns
Prisms   == 1..NumPrisms
Services == 1..NumServices
Skills   == 1..NumSkills

ASSUME BoardAssumption ==
    /\ NumRuns \in Nat /\ StaleAfter \in Nat /\ RecentFor \in Nat
    /\ MarkerName \in [Runs -> Nat] /\ MatchLen \in [Runs -> Nat]
    /\ NumServices \in Nat /\ Override \subseteq Services
    /\ NumPrisms \in Nat /\ MaxIntents \in Nat /\ NumSkills \in Nat

\* No timestamp, and a marker whose text does not parse.
NoTime == -1
Torn   == 0

\* What an action of the Controls tab may be about.
Offer == <<"attach", "resume", "report", "transcript", "root">>

\* The fragments classify_run looks for in the lower-cased state of a run.
Fragment == {"fail", "stalled", "pause", "done", "active"}

Snapshot ==
    [words : SUBSET Fragment, last_error : BOOLEAN, updated_at : Int,
     started_at : Int, last_heartbeat : Int, offers : SUBSET {Offer[i] : i \in DOMAIN Offer}]

(***************************************************************************)
(* state.rs: classification and order of the runs.                         *)
(***************************************************************************)

Pulse(s) == IF s.last_heartbeat # NoTime THEN s.last_heartbeat ELSE s.updated_at

is_recent(t, now) == t # NoTime /\ now - t < RecentFor

is_stale(t, now) == t # NoTime /\ now - t > StaleAfter

\* An error outranks every word, and a word of an end outranks one of activity.
classify_run(s, now) ==
    IF s.last_error \/ "fail" \in s.words THEN "failed"
    ELSE IF "stalled" \in s.words THEN "stalled"
    ELSE IF "pause" \in s.words THEN "paused"
    ELSE IF "done" \in s.words
         THEN IF is_recent(Pulse(s), now) THEN "recent" ELSE "completed"
    ELSE IF "active" \in s.words
         THEN IF is_stale(Pulse(s), now) THEN "stalled" ELSE "active"
    ELSE IF is_recent(Pulse(s), now) THEN "recent" ELSE "unknown"

sort_rank ==
    [active |-> 0, stalled |-> 1, failed |-> 2, paused |-> 3,
     recent |-> 4, completed |-> 5, unknown |-> 6]

\* compare_timestamp is called with its arguments swapped and swaps them
\* again: the older timestamp comes first, and none before any.
SortKey(e) ==
    <<sort_rank[e.kind], e.snap.updated_at, e.snap.started_at,
      e.snap.last_heartbeat, e.id>>

compare_runs(l, r) ==
    \E i \in 1..5 : /\ SortKey(l)[i] < SortKey(r)[i]
                    /\ \A j \in 1..(i - 1) : SortKey(l)[j] = SortKey(r)[j]

\* Faulty variant: every marker counts for its file stem.
archived_run_ids_by_stem(markers) == DOMAIN markers \cap Runs

\* A marker names the run in it; one that does not parse, the run whose id is
\* its file stem.
archived_run_ids(markers) ==
    {markers[n] : n \in {m \in DOMAIN markers : markers[m] # Torn}}
        \cup {n \in DOMAIN markers \cap Runs : markers[n] = Torn}

\* ControlPlaneState::load, when no file disappears under it.  files has the
\* snapshots that parse; any other file is skipped.
load(files, markers) == DOMAIN files \ archived_run_ids(markers)

RunRow(r, s, now) == [id |-> r, kind |-> classify_run(s, now), snap |-> s]

render_runs(files, markers, now) ==
    LET rows == {RunRow(r, files[r], now) : r \in load(files, markers)}
    IN  InOrder(rows, {p \in rows \X rows : compare_runs(p[1], p[2])})

is_live_run(kind) == kind \in {"active", "stalled", "paused"}

InScope(kind, scope) ==
    \/ scope = "all"
    \/ scope = "live" /\ is_live_run(kind)
    \/ scope = "history" /\ ~is_live_run(kind)

\* A run matches a search text when it contains all of it.
apply_run_filters(runs, scope, query) ==
    Kept(runs, {i \in DOMAIN runs :
                    InScope(runs[i].kind, scope) /\ MatchLen[runs[i].id] >= query})

(***************************************************************************)
(* The other sources of the Controls tab.                                  *)
(***************************************************************************)

\* discover_status_files and read_all_known_snapshots: the overrides first,
\* whether they exist or not, then the files that do.  A file that cannot be
\* read is an entry like any other.
current_summaries(statusFiles) ==
    Ascending(Override) \o Ascending(statusFiles \ Override)

\* The readable prisms, the last modified first, and no more than MaxIntents.
current_intents(prisms) ==
    LET rows == InOrder(prisms, {p \in prisms \X prisms : p[1] > p[2]})
    IN  SubSeq(rows, 1, IF Len(rows) < MaxIntents THEN Len(rows) ELSE MaxIntents)

Item(kind, of) == [kind |-> kind, of |-> of]

RunItems(e) ==
    LET offers == Kept(Offer, {i \in DOMAIN Offer : Offer[i] \in e.snap.offers})
    IN  [i \in DOMAIN offers |-> Item(offers[i], e.id)]

\* The actions of the selected run, of the services, prisms and skills.
deep_actions(runs, selected, summaries, intents) ==
    (IF selected < Len(runs) THEN RunItems(runs[selected + 1]) ELSE <<>>)
        \o [i \in DOMAIN summaries |-> Item("health", summaries[i])]
        \o [i \in DOMAIN intents |-> Item("prism", intents[i])]
        \o [i \in Skills |-> Item("skill", i)]

=============================================================================
