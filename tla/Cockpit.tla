------------------------------ MODULE Cockpit -------------------------------
(***************************************************************************)
(* The operator cockpit: the state of App, the keys that change it, the    *)
(* loop that draws, waits for a key and refreshes (tui-agent/src/app.rs,   *)
(* lib.rs).  RunBoard has what is computed from the files, and Launch how  *)
(* a command is waited for while the loop is suspended; here it is a step. *)
(* The mission, agent, runtime and prompt of the Dispatch tab are left to  *)
(* the operator: any of them can be reached with the keys of the tab.     *)
(* The prompt editor, the guide, the error overlay and the artifact viewer *)
(* are one focus, "overlay": nothing but closing them concerns the rest.   *)
(* Status lines are left out.                                              *)
(***************************************************************************)
EXTENDS RunBoard

CONSTANTS
    Templates,    \* the contents the control plane writes for a run
    NoVerifyGate, \* --no-verify-gate
    MaxQuery,     \* bound: characters of the search text
    MaxNow,       \* bound: the clock
    MaxChanges    \* bound: changes of the files by other programs

ASSUME CockpitAssumption ==
    /\ Templates \subseteq Snapshot /\ NoVerifyGate \in BOOLEAN
    /\ MaxQuery \in Nat /\ MaxNow \in Nat /\ MaxChanges \in Nat

VARIABLES
    \* the world: run files, markers, status files, prisms, the clock, and how
    \* often other programs have changed it
    files, markers, statusFiles, prisms, now, changes,
    \* App
    runs, selected, active_tab, focus, deep_selected, queue_scope, search_query,
    mux_summaries, polarize_intents,
    \* the loop waits for a key, or has ended
    pc,
    \* history: every run ever archived, and the runs whose marker was cut short
    \* by a crash and not written again
    archived, torn

worldVars   == <<files, markers, statusFiles, prisms, now, changes>>
boardVars   == <<runs, selected, deep_selected, mux_summaries, polarize_intents>>
viewVars    == <<active_tab, queue_scope, search_query>>
historyVars == <<archived, torn>>
vars == <<worldVars, boardVars, viewVars, focus, pc, historyVars>>

None == Item("none", 0)

Tabs   == <<"monitor", "dispatch", "controls">>
tab == Tabs[active_tab + 1]

Actions == deep_actions(runs, selected, mux_summaries, polarize_intents)

SelectedRow == IF selected < Len(runs) THEN Item("run", runs[selected + 1].id) ELSE None

SelectedAction ==
    IF deep_selected < Len(Actions) THEN Actions[deep_selected + 1] ELSE None

\* App::new: the first board, with the first row selected.
NewApp(fs, ms, sf, ps) ==
    [runs |-> apply_run_filters(render_runs(fs, ms, now), "live", 0),
     mux  |-> current_summaries(sf), intents |-> current_intents(ps)]

Init ==
    /\ files \in UNION {[S -> Templates] : S \in SUBSET Runs}
    /\ markers = <<>> /\ statusFiles = {} /\ prisms = {}
    /\ now = 0 /\ changes = 0
    /\ LET app == NewApp(files, markers, statusFiles, prisms)
       IN  runs = app.runs /\ mux_summaries = app.mux /\ polarize_intents = app.intents
    /\ selected = 0 /\ active_tab = 0 /\ focus = "browse"
    /\ deep_selected = 0 /\ queue_scope = "live" /\ search_query = 0
    /\ pc = "poll"
    /\ archived = {} /\ torn = {}

(***************************************************************************)
(* App::refresh.                                                           *)
(***************************************************************************)

\* Faulty variant: the selection is not clamped to the new board.
AdoptUnsynced(board) ==
    /\ runs' = board
    /\ UNCHANGED <<selected, deep_selected>>
    /\ mux_summaries' = current_summaries(statusFiles)
    /\ polarize_intents' = current_intents(prisms)

\* sync_selection, against the summaries and intents of the refresh before:
\* they are read again only after it.
Adopt(board) ==
    LET sel == IF selected >= Len(board) /\ board # <<>> THEN Len(board) - 1 ELSE selected
        len == Len(deep_actions(board, sel, mux_summaries, polarize_intents))
    IN  /\ runs' = board
        /\ selected' = sel
        /\ deep_selected' = IF len = 0 THEN 0
                            ELSE IF deep_selected >= len THEN len - 1 ELSE deep_selected
        /\ mux_summaries' = current_summaries(statusFiles)
        /\ polarize_intents' = current_intents(prisms)

\* A run file that is removed between its listing and its canonicalize makes
\* the load fail, and a failed load shows an empty board.  Rows and board are bound
\* by \E so that TLC computes each once.
refresh(ms, scope, query) ==
    \/ /\ \E rows \in {render_runs(files, ms, now)} :
         \E board \in {apply_run_filters(rows, scope, query)} : Adopt(board)
       /\ UNCHANGED <<files, changes>>
    \/ \E r \in DOMAIN files :
        /\ changes < MaxChanges /\ changes' = changes + 1
        /\ files' = [x \in DOMAIN files \ {r} |-> files[x]]
        /\ Adopt(<<>>)

(***************************************************************************)
(* run_app.  Every turn of the loop draws, waits for a key until the tick, *)
(* and refreshes when the tick is over, the watcher has notified or the    *)
(* subscriber has an event.  Keys act on what was drawn: a turn with a key *)
(* and a refresh is a key followed by a turn with a refresh.               *)
(***************************************************************************)

\* Faulty variant: only the status files and prisms are read again.
TickMuxOnly ==
    /\ pc = "poll"
    /\ mux_summaries' = current_summaries(statusFiles)
    /\ polarize_intents' = current_intents(prisms)
    /\ UNCHANGED <<worldVars, runs, selected, deep_selected, viewVars, focus, pc,
                   historyVars>>

Tick ==
    /\ pc = "poll"
    /\ refresh(markers, queue_scope, search_query)
    /\ UNCHANGED <<markers, statusFiles, prisms, now, viewVars, focus, pc, historyVars>>

(***************************************************************************)
(* handle_key.                                                             *)
(***************************************************************************)

Key(f) == pc = "poll" /\ focus = f

\* What a key leaves alone when it neither refreshes nor runs a command.
Quiet == UNCHANGED <<worldVars, runs, mux_summaries, polarize_intents, pc, historyVars>>

\* A key that refreshes, and the scope and the search text it refreshes with.
Refreshing(scope, query) ==
    /\ refresh(markers, scope, query)
    /\ queue_scope' = scope /\ search_query' = query
    /\ UNCHANGED <<markers, statusFiles, prisms, now, active_tab, focus, pc, historyVars>>

\* A key that only opens or closes an overlay.
Focus(f) == focus' = f /\ Quiet /\ UNCHANGED <<selected, deep_selected, viewVars>>

\* The end of the loop: Ctrl+C anywhere, q and Esc while browsing, or an
\* archive marker that cannot be written.  The App is gone.
KeyQuit ==
    /\ pc = "poll" /\ pc' = "quit"
    /\ runs' = <<>> /\ selected' = 0 /\ deep_selected' = 0 /\ mux_summaries' = <<>>
    /\ polarize_intents' = <<>> /\ active_tab' = 0 /\ queue_scope' = "live"
    /\ search_query' = 0 /\ focus' = "browse"
    /\ UNCHANGED <<worldVars, historyVars>>

\* The guide, or the error overlay when the clipboard fails.
KeyOverlay == Key("browse") /\ Focus("overlay")

\* The auto-fix of the drift overlay only closes it too: it starts a wizard
\* beside the cockpit, which is not waited for.
KeyClose == pc = "poll" /\ focus # "browse" /\ Focus("browse")

KeySearch == Key("browse") /\ Focus("search")

KeySearchText ==
    /\ Key("search")
    /\ \E q \in {search_query + 1, search_query - 1} \cap 0..MaxQuery :
        Refreshing(queue_scope, q)

KeyClearSearch == Key("browse") /\ search_query # 0 /\ Refreshing(queue_scope, 0)

NextScope == [live |-> "history", history |-> "all", all |-> "live"]

toggle_filter == Key("browse") /\ Refreshing(NextScope[queue_scope], search_query)

KeyRefresh == Key("browse") /\ Refreshing(queue_scope, search_query)

\* Tab and Shift+Tab; d, and Enter on a run of the board; 1 to 4, a and v.
KeyTab ==
    /\ Key("browse") /\ active_tab' \in 0..2 \ {active_tab}
    /\ Quiet /\ UNCHANGED <<selected, deep_selected, queue_scope, search_query, focus>>

\* e, and Enter or an arrow on the prompt row of Dispatch.
KeyEdit ==
    /\ Key("browse") /\ active_tab' = 1 /\ focus' = "overlay"
    /\ Quiet /\ UNCHANGED <<selected, deep_selected, queue_scope, search_query>>

\* Faulty variant: no wrap at the ends.
MovedNoWrap(i, d, len) == i + d

Moved(i, d, len) ==
    IF i + d < 0 THEN len - 1 ELSE IF i + d >= len THEN 0 ELSE i + d

move_selection(d) ==
    selected' = IF runs = <<>> THEN 0 ELSE Moved(selected, d, Len(runs))

move_deep_selection(d) ==
    deep_selected' = IF Actions = <<>> THEN 0 ELSE Moved(deep_selected, d, Len(Actions))

KeyUpDown(d) ==
    /\ Key("browse")
    /\ \/ tab = "monitor" /\ move_selection(d) /\ UNCHANGED deep_selected
       \/ tab = "controls" /\ move_deep_selection(d) /\ UNCHANGED selected
    /\ Quiet /\ UNCHANGED <<viewVars, focus>>

\* In Controls the selected run changes under the selected action.
KeyLeftRight(d) ==
    /\ Key("browse") /\ tab = "controls" /\ move_selection(d)
    /\ Quiet /\ UNCHANGED <<deep_selected, viewVars, focus>>

(***************************************************************************)
(* archive_selected_run.                                                   *)
(***************************************************************************)

\* The marker is written and the board read again without the run.
archive_selected_run ==
    /\ Key("browse") /\ SelectedRow # None
    /\ LET r == SelectedRow.of
           ms == Put(markers, MarkerName[r], r)
       IN  /\ markers' = ms
           /\ refresh(ms, queue_scope, search_query)
           /\ archived' = archived \cup {r}
           /\ torn' = {x \in torn : MarkerName[x] # MarkerName[r]}
    /\ UNCHANGED <<statusFiles, prisms, now, viewVars, focus, pc>>

\* The cockpit is killed while it writes the marker, and started again.
CrashInArchive ==
    /\ Key("browse") /\ SelectedRow # None /\ changes < MaxChanges /\ changes' = changes + 1
    /\ LET r == SelectedRow.of
           ms == Put(markers, MarkerName[r], Torn)
           app == NewApp(files, ms, statusFiles, prisms)
       IN  /\ markers' = ms
           /\ runs' = app.runs /\ mux_summaries' = app.mux /\ polarize_intents' = app.intents
           /\ torn' = torn \cup {r}
    /\ selected' = 0 /\ deep_selected' = 0 /\ active_tab' = 0 /\ queue_scope' = "live" /\ search_query' = 0
    /\ UNCHANGED <<files, statusFiles, prisms, now, focus, pc, archived>>

(***************************************************************************)
(* launch_selected and run_selected_deep_control.                          *)
(***************************************************************************)

CanLaunch == Key("browse") /\ tab = "dispatch"

\* pre_launch_verify, which may halt a terminal or visible launch: the daemon
\* reports drift, or does not answer.  No daemon, or any other answer, lets
\* the launch through.
KeyLaunchHalted == CanLaunch /\ ~NoVerifyGate /\ Focus("overlay")

\* A command was run, in the foreground or detached, and has failed or not.
Ran ==
    /\ focus' \in {"browse", "overlay"}
    /\ refresh(markers, queue_scope, search_query)
    /\ UNCHANGED <<markers, statusFiles, prisms, now, viewVars, pc, historyVars>>

KeyLaunch == CanLaunch /\ Ran

InControls == Key("browse") /\ tab = "controls"

KeyRunAction ==
    InControls /\ SelectedAction.kind \in {"attach", "resume", "health", "skill"} /\ Ran

\* open_artifact and open_polarize_intent: the file, or why it is refused.
KeyOpenArtifact ==
    /\ InControls /\ SelectedAction.kind \in {"report", "transcript", "root", "prism"}
    /\ Focus("overlay")

(***************************************************************************)
(* Other programs: the control plane, the mux daemons, the runner, time.   *)
(***************************************************************************)

Change ==
    /\ changes < MaxChanges /\ changes' = changes + 1
    /\ UNCHANGED <<boardVars, viewVars, focus, pc, historyVars, markers, now>>

WriteRun(r) ==
    /\ Change
    /\ \E t \in Templates :
        files' = Put(files, r, [t EXCEPT !.updated_at = now, !.last_heartbeat = now])
    /\ UNCHANGED <<statusFiles, prisms>>

RemoveRun(r) ==
    /\ Change /\ r \in DOMAIN files /\ files' = [x \in DOMAIN files \ {r} |-> files[x]]
    /\ UNCHANGED <<statusFiles, prisms>>

ChangeStatusFiles ==
    Change /\ statusFiles' \in SUBSET Services \ {statusFiles} /\ UNCHANGED <<files, prisms>>

ChangePrisms ==
    Change /\ prisms' \in SUBSET Prisms \ {prisms} /\ UNCHANGED <<files, statusFiles>>

TimePasses ==
    /\ now < MaxNow /\ now' = now + 1
    /\ UNCHANGED <<boardVars, viewVars, focus, pc, historyVars, files, markers,
                   statusFiles, prisms, changes>>

(***************************************************************************)
(* The specification.                                                      *)
(***************************************************************************)

handle_key ==
    \/ KeyQuit \/ KeyOverlay \/ KeyClose \/ KeySearch \/ KeySearchText \/ KeyClearSearch
    \/ toggle_filter \/ KeyRefresh \/ KeyTab \/ KeyEdit
    \/ \E d \in {-1, 1} : KeyUpDown(d) \/ KeyLeftRight(d)
    \/ archive_selected_run \/ KeyLaunchHalted \/ KeyLaunch \/ KeyRunAction \/ KeyOpenArtifact

World ==
    \/ \E r \in Runs : WriteRun(r) \/ RemoveRun(r)
    \/ ChangeStatusFiles \/ ChangePrisms \/ TimePasses

Next ==
    Tick \/ handle_key \/ CrashInArchive \/ World

\* The tick comes even while keys do.  Nothing is asked of the operator or of
\* the programs that write the files.
Fairness == WF_vars(Tick)

Spec == Init /\ [][Next]_vars /\ Fairness

(***************************************************************************)
(* Properties.                                                             *)
(***************************************************************************)

TypeOK ==
    /\ DOMAIN files \subseteq Runs /\ \A r \in DOMAIN files : files[r] \in Snapshot
    /\ \A n \in DOMAIN markers : markers[n] \in Runs \cup {Torn}
    /\ statusFiles \subseteq Services /\ prisms \subseteq Prisms
    /\ now \in 0..MaxNow /\ changes \in 0..MaxChanges
    /\ runs \in Seq([id : Runs, kind : DOMAIN sort_rank, snap : Snapshot])
    /\ selected \in Nat /\ deep_selected \in Nat
    /\ active_tab \in 0..2
    /\ focus \in {"browse", "search", "overlay"}
    /\ queue_scope \in DOMAIN NextScope /\ search_query \in 0..MaxQuery
    /\ mux_summaries \in Seq(Services) /\ polarize_intents \in Seq(Prisms)
    /\ pc \in {"poll", "quit"}
    /\ archived \subseteq Runs /\ torn \subseteq Runs

\* Whenever the board has rows one of them is selected: a refresh that finds
\* fewer runs, an empty board after a failed load, a filter or an archive never
\* leaves the selection past the end (App::sync_selection).
SelectionInRange == runs # <<>> => selected < Len(runs)

\* The marker of run x is another's now: that of a run with the same marker name,
\* archived since, or one cut short by a crash under a name that is not the id of x.
Displaced(x) ==
    LET m == markers[MarkerName[x]]
    IN  \/ m \in archived \ {x} /\ MarkerName[m] = MarkerName[x]
        \/ m = Torn /\ MarkerName[x] # x

\* Archiving hides the archived run and no other, over refreshes, failed loads,
\* crashes and restarts.  A run once archived stays off the board, with one
\* exception: its marker was overwritten under a marker name it shares
\* (safe_marker_name is not injective), and then it comes back.  And a run that was
\* never archived is hidden in one case only: its id is the file stem of a marker
\* that a crash cut short (archived_id_from_marker).
ArchiveExact ==
    /\ \A i \in DOMAIN runs : runs[i].id \in archived => Displaced(runs[i].id)
    /\ archived_run_ids(markers)
          \subseteq {x \in archived : ~Displaced(x)} \cup {MarkerName[r] : r \in torn}

\* The board shows the files, and the selected action exists.
Current ==
    /\ runs = apply_run_filters(render_runs(files, markers, now), queue_scope, search_query)
    /\ mux_summaries = current_summaries(statusFiles)
    /\ polarize_intents = current_intents(prisms)
    /\ deep_selected < Len(Actions)

\* However the files change, loads fail and keys are pressed, the board catches
\* up with the files and the selected action exists again, unless the cockpit
\* has ended (run_app, App::refresh).
BoardCatchesUp == []<>(Current \/ pc = "quit")

=============================================================================
