------------------------------- MODULE Wizard -------------------------------
(***************************************************************************)
(* The setup wizard of mux-agent: its five steps, the keys that move       *)
(* between them, and the three strategies that write files afterwards      *)
(* (wizard/keys.rs, mod.rs, services.rs, persist.rs), beside the clients   *)
(* that own the files and the rewire and scan subcommands (scan.rs).       *)
(*                                                                         *)
(* The cursor of a list is left out, a key acts on any row; so are health, *)
(* pids and messages.  A write may be cut short by a crash.                *)
(***************************************************************************)
EXTENDS HostConfig

CONSTANTS
    Defaults,   \* how many of Hosts are default sources; the others are custom
    Contents,   \* what the owner of a client file may put in it
    Shared,     \* the client files that others change meanwhile
    Present,    \* the client files there are at first, and what is in them
    BuiltIn,    \* append_default_services: the services found, at most one
    Running,    \* enrich_running_state: MCP-shaped processes, as services
    MaxSources, \* bound: rows of step 1
    MaxRuns,    \* bound: how often the wizard is started
    MaxOutside, \* bound: changes by the owners of the files, uses of the subcommands
    MaxSecs     \* bound: the clock, in seconds

HostIds == DOMAIN Hosts

ASSUME WizardAssumption ==
    /\ Defaults \in 0..Len(Hosts) /\ Defaults <= MaxSources
    /\ DOMAIN Present \subseteq HostIds
    /\ Shared \subseteq HostIds
    /\ MaxSources \in Nat /\ MaxRuns \in Nat /\ MaxOutside \in Nat
    /\ MaxSecs \in Nat

VARIABLES
    \* the disk: client files, the backups of the wizard by their stamp, the
    \* .bak files of rewire, the generated files, the manifest of scan
    files, backups, bak, mux, manifest,
    \* AppState
    step, sources, services, strategy, dry_run,
    \* where the wizard is, the writes it has left to do, the scans it has left
    \* to plan a rewrite for, and the danger plan
    pc, todo, scanned, plan,
    \* the files it has generated in this run, and with which configuration it
    \* has started a tray daemon at its end
    written, daemon,
    secs, starts, outside,
    \* history: what its owner last left in a file, and the files for which no
    \* backup of it is promised: rewire has replaced it, or the owner changed it
    \* between the copy and the write of the wizard
    owned, unguarded

diskVars    == <<files, backups, bak, mux, manifest>>
appVars     == <<step, sources, services, strategy, dry_run>>
runVars     == <<pc, todo, scanned, plan, written, daemon>>
boundVars   == <<secs, starts, outside>>
historyVars == <<owned, unguarded>>
wizardVars  == <<diskVars, appVars, runVars, boundVars, historyVars>>

Strategy == {"unified", "perclient", "rewire"}

WizardInit ==
    /\ files = Present /\ backups = [h \in HostIds |-> <<>>] /\ bak = <<>>
    /\ mux = <<>> /\ manifest = <<>>
    /\ step = 0 /\ sources = <<>> /\ services = <<>> /\ strategy = "unified" /\ dry_run = FALSE
    /\ pc = "off" /\ todo = <<>> /\ scanned = <<>> /\ plan = <<>>
    /\ written = {} /\ daemon = "none"
    /\ secs = 0 /\ starts = 0 /\ outside = 0
    /\ owned = files /\ unguarded = {}

(***************************************************************************)
(* Sources and services.                                                   *)
(***************************************************************************)

CanScan(h) == h \in DOMAIN files /\ Readable(Hosts[h], files[h])

classify_source(h) ==
    IF h \notin DOMAIN files THEN "missing"
    ELSE IF ~CanScan(h) THEN "invalid"
    ELSE IF DOMAIN scan_host_file(Hosts[h], files[h]) = {} THEN "empty"
    ELSE "ok"

SourceEntry(h, selected) == [host |-> h, status |-> classify_source(h), selected |-> selected]

build_initial_sources == [h \in 1..Defaults |-> SourceEntry(h, classify_source(h) # "missing")]

\* The selected sources are read again, with the status of when they were listed.
\* History: what the file was when it was read.
Scans ==
    LET rows == Kept(sources, {i \in DOMAIN sources :
                    sources[i].selected /\ sources[i].status = "ok" /\ CanScan(sources[i].host)})
    IN  [i \in DOMAIN rows |->
            [host |-> Hosts[rows[i].host], id |-> rows[i].host, file |-> files[rows[i].host],
             services |-> scan_host_file(Hosts[rows[i].host], files[rows[i].host])]]

Row(s, selected) == [name |-> s.name, entry |-> s.entry, selected |-> selected]

\* build_services_from_scans, append_default_services, enrich_running_state: a
\* process that no row runs is a row of its own, not selected.
ServiceRows ==
    LET known == merge_services(Scans) \o BuiltIn
    IN  FoldLeft(LAMBDA rows, p :
                    IF \E i \in DOMAIN rows : rows[i].entry.run = p.entry.run THEN rows
                    ELSE Append(rows, Row(p, FALSE)),
                 [i \in DOMAIN known |-> Row(known[i], TRUE)], Running)

\* build_merge_from_services.
Ticked == Kept(services, {i \in DOMAIN services : services[i].selected})

selected_scans == LET scans == Scans IN [i \in DOMAIN scans |-> retain(scans[i], Ticked)]

(***************************************************************************)
(* The steps.                                                              *)
(***************************************************************************)

\* run_wizard on a terminal.  Time passes between two runs, or does not.  The
\* --strategy flag only says what step 3 shows first.
Start ==
    /\ pc = "off" /\ starts < MaxRuns /\ starts' = starts + 1
    /\ secs' \in {secs, secs + 1} \cap 0..MaxSecs
    /\ pc' = "keys" /\ step' = 1 /\ sources' = build_initial_sources /\ services' = <<>>
    /\ dry_run' \in BOOLEAN /\ daemon' = "none"
    /\ UNCHANGED <<diskVars, strategy, todo, scanned, plan, written, outside, historyVars>>

At(n) == pc = "keys" /\ step = n

\* What every key of the steps leaves alone.
Still == UNCHANGED <<diskVars, todo, scanned, plan, boundVars, historyVars>>

\* AppState is gone.
Ended ==
    /\ pc' = "off" /\ step' = 0 /\ sources' = <<>> /\ services' = <<>>
    /\ strategy' = "unified" /\ dry_run' = FALSE /\ written' = {}

Goto(n) ==
    step' = n /\ Still /\ UNCHANGED <<sources, services, strategy, dry_run, pc, written, daemon>>

\* q, and Cancel of step 4 and No of step 5.
KeyQuitWizard == pc = "keys" /\ Ended /\ Still /\ UNCHANGED daemon

KeyToggleSource(i) ==
    /\ At(1) /\ i \in DOMAIN sources
    /\ sources' = [sources EXCEPT ![i].selected = ~@]
    /\ Still /\ UNCHANGED <<step, services, strategy, dry_run, pc, written, daemon>>

\* A custom path may be entered more than once.
add_custom_source(h) ==
    /\ At(1) /\ Len(sources) < MaxSources
    /\ sources' = Append(sources, SourceEntry(h, TRUE))
    /\ Still /\ UNCHANGED <<step, services, strategy, dry_run, pc, written, daemon>>

advance_to_step2 ==
    /\ At(1) /\ step' = 2 /\ services' = ServiceRows
    /\ Still /\ UNCHANGED <<sources, strategy, dry_run, pc, written, daemon>>

KeyToggleService(i) ==
    /\ At(2) /\ i \in DOMAIN services
    /\ services' = [services EXCEPT ![i].selected = ~@]
    /\ Still /\ UNCHANGED <<step, sources, strategy, dry_run, pc, written, daemon>>

KeyNext2 == At(2) /\ Ticked # <<>> /\ Goto(3)

KeyBack == \E n \in 2..4 : At(n) /\ Goto(n - 1)

\* The step is left with any strategy chosen.
KeyNext3 ==
    /\ At(3) /\ strategy' \in Strategy /\ step' = 4
    /\ Still /\ UNCHANGED <<sources, services, dry_run, pc, written, daemon>>

\* start_tray_daemon.
KeyStartTray ==
    /\ At(5) /\ Ended /\ Still
    /\ daemon' = IF dry_run THEN daemon
                 ELSE IF config_toml \in DOMAIN mux THEN "generated" ELSE "fallback"

(***************************************************************************)
(* Enter on Confirm.  A strategy with nothing to do, and a dry run, go to  *)
(* step 5 at once.                                                         *)
(***************************************************************************)

Confirmed(s) == At(4) /\ strategy = s

Step5 == pc' = "keys" /\ step' = 5

ToStep5 == Step5 /\ UNCHANGED <<todo, scanned, plan>>

Decided == UNCHANGED <<diskVars, sources, services, strategy, dry_run, written, daemon,
                       boundVars, historyVars>>

Generate(nothing, outputs) ==
    \/ (nothing \/ dry_run) /\ ToStep5
    \/ ~(nothing \/ dry_run) /\ pc' = "generate" /\ todo' = outputs
       /\ UNCHANGED <<step, scanned, plan>>

run_unified_generate ==
    /\ Confirmed("unified") /\ Generate(Ticked = <<>>, build_mux_outputs(Ticked)) /\ Decided

run_per_client_generate ==
    /\ Confirmed("perclient")
    /\ LET scans == selected_scans
       IN  Generate(\A i \in DOMAIN scans : DOMAIN scans[i].services = {},
                    build_per_client_outputs(scans))
    /\ Decided

\* selected_danger_scans: the scans that are not skipped unread, as ineligible
\* or as having no ticked server.
ScansToPlan ==
    LET scans == selected_scans
    IN  Kept(scans, {i \in DOMAIN scans : scans[i].host.eligible /\ DOMAIN scans[i].services # {}})

\* run_danger_auto_configure, up to the plan.
run_danger_auto_configure ==
    /\ Confirmed("rewire")
    /\ LET scans == ScansToPlan
       IN  \/ (Ticked = <<>> \/ scans = <<>>) /\ ToStep5
           \/ /\ Ticked # <<>> /\ scans # <<>>
              /\ pc' = "plan" /\ scanned' = scans /\ UNCHANGED <<step, todo, plan>>
    /\ Decided

\* Faulty variant: a dry run prompts as well.
PromptAlways(p) ==
    \/ p = <<>> /\ Step5 /\ plan' = <<>>
    \/ p # <<>> /\ pc' = "confirm" /\ plan' = p /\ UNCHANGED step

\* What follows when the plan is complete.
Prompt(p) ==
    \/ (p = <<>> \/ dry_run) /\ Step5 /\ plan' = <<>>
    \/ p # <<>> /\ ~dry_run /\ pc' = "confirm" /\ plan' = p /\ UNCHANGED step

\* The file of a scan is read a second time, and what it holds now is rewritten
\* with the servers of the scan; it is skipped when it no longer parses.
push_rewrite_action ==
    /\ pc = "plan"
    /\ LET scan == Head(scanned)
           now  == files[scan.id]
           p == IF scan.id \in DOMAIN files /\ now.valid
                THEN Append(plan, [id |-> scan.id, file |-> scan.file, services |-> scan.services,
                                   from |-> now,
                                   to |-> rewrite_keep_others(scan.host, now, scan.services)])
                ELSE plan
       IN  IF Len(scanned) = 1 THEN Prompt(p) ELSE plan' = p /\ UNCHANGED <<pc, step>>
    /\ scanned' = Tail(scanned)
    /\ UNCHANGED todo /\ Decided

(***************************************************************************)
(* write_mux_outputs, write_per_client_outputs: one file after the other.  *)
(* The first write that fails ends the wizard, and so does a crash, which  *)
(* may leave half a file: a table without servers.                         *)
(***************************************************************************)

GenerateNext ==
    /\ pc = "generate"
    /\ LET w == Head(todo)
       IN  /\ mux' = Put(mux, w.file, w.table)
           /\ written' = written \cup {w.file}
    /\ todo' = Tail(todo)
    /\ IF Len(todo) = 1 THEN Step5 ELSE UNCHANGED <<pc, step>>
    /\ UNCHANGED <<files, backups, bak, manifest, sources, services, strategy, dry_run, scanned,
                   plan, daemon, boundVars, historyVars>>

GenerateFails ==
    /\ pc = "generate" /\ Ended /\ todo' = <<>>
    /\ mux' \in {mux, Put(mux, Head(todo).file, <<>>)}
    /\ UNCHANGED <<files, backups, bak, manifest, scanned, plan, daemon, boundVars, historyVars>>

(***************************************************************************)
(* execute_plan.  A file that cannot be backed up or written is skipped.   *)
(***************************************************************************)

\* Faulty variant: the first file ends it.
DroppedFirst == Step5

Dropped == IF Len(plan) = 1 THEN Step5 ELSE pc' = "copy" /\ UNCHANGED step

ConfirmYes ==
    /\ pc = "confirm" /\ pc' = "copy" /\ UNCHANGED <<step, todo, scanned, plan>> /\ Decided

\* Anything else than CONFIRM.
ConfirmNo ==
    /\ pc = "confirm" /\ Step5 /\ plan' = <<>> /\ UNCHANGED <<todo, scanned>> /\ Decided

\* Faulty variant: the backup of the second is overwritten.
StampsOf(taken) == {<<secs, 0>>}

FreeStampsOf(taken) == FreeStamps(taken, secs)

\* The backup is of the file as it is now, if it is still there.
CopyBackup ==
    /\ pc = "copy"
    /\ LET h == Head(plan).id
       IN  \E s \in FreeStampsOf(DOMAIN backups[h]) :
            backups' = IF h \in DOMAIN files
                       THEN [backups EXCEPT ![h] = Put(@, s, files[h])] ELSE backups
    /\ pc' = "write"
    /\ UNCHANGED <<files, bak, mux, manifest, appVars, todo, scanned, plan, written, daemon,
                   boundVars, historyVars>>

\* A copy or a write that does not come to its end has done nothing yet, or leaves
\* a part: of the backup, or of the client file, which a write truncates first.
CutShort ==
    LET h == Head(plan).id
    IN  \/ UNCHANGED <<files, backups>>
        \/ /\ pc = "copy" /\ h \in DOMAIN files /\ UNCHANGED files
           /\ \E s \in FreeStampsOf(DOMAIN backups[h]) :
                backups' = [backups EXCEPT ![h] = Put(@, s, Unparsable)]
        \/ pc = "write" /\ files' = Put(files, h, Unparsable) /\ UNCHANGED backups

\* No free name for the backup, or an error of the copy or of the write.
RewriteFails ==
    /\ pc \in {"copy", "write"} /\ Dropped /\ plan' = Tail(plan) /\ CutShort
    /\ UNCHANGED <<bak, mux, manifest, sources, services, strategy, dry_run, todo, scanned,
                   written, daemon, boundVars, historyVars>>

WriteRewrite ==
    /\ pc = "write" /\ Dropped /\ plan' = Tail(plan)
    /\ files' = Put(files, Head(plan).id, Head(plan).to)
    /\ UNCHANGED <<backups, bak, mux, manifest, sources, services, strategy, dry_run, todo,
                   scanned, written, daemon, boundVars, historyVars>>

\* Killed, in the middle of a copy or a write perhaps.
CrashInRewrite ==
    /\ pc \in {"copy", "write"} /\ Ended /\ plan' = <<>> /\ CutShort
    /\ UNCHANGED <<bak, mux, manifest, todo, scanned, daemon, boundVars, historyVars>>

(***************************************************************************)
(* The owners of the files, and the subcommands.                           *)
(***************************************************************************)

Outside ==
    /\ outside < MaxOutside /\ outside' = outside + 1
    /\ UNCHANGED <<backups, mux, appVars, runVars, secs, starts>>

EditFile(h) ==
    /\ Outside
    /\ \/ \E c \in Contents : files' = Put(files, h, c) /\ owned' = Put(owned, h, c)
       \/ /\ h \in DOMAIN files
          /\ files' = Restrict(files, DOMAIN files \ {h})
          /\ owned' = Restrict(owned, DOMAIN owned \ {h})
    /\ unguarded' = IF pc = "write" /\ Head(plan).id = h
                    THEN unguarded \cup {h} ELSE unguarded \ {h}
    /\ UNCHANGED <<bak, manifest>>

\* rust-mux rewire: one .bak file, replaced by the next rewire.
run_rewire_cmd(h) ==
    /\ Outside
    /\ CanScan(h)
    /\ bak' = Put(bak, h, files[h])
    /\ files' = Put(files, h, rewire_host(Hosts[h], files[h]))
    /\ unguarded' = unguarded \cup {h}
    /\ UNCHANGED <<manifest, owned>>

\* rust-mux scan --manifest: the merge of every default source that parses.
run_scan_cmd ==
    /\ Outside
    /\ LET ids == SelectSeq([i \in 1..Defaults |-> i], CanScan)
       IN  /\ ids # <<>>
           /\ manifest' = build_daemon_config(merge_services([i \in DOMAIN ids |->
                [host |-> Hosts[ids[i]],
                 services |-> scan_host_file(Hosts[ids[i]], files[ids[i]])]]))
    /\ UNCHANGED <<files, bak, historyVars>>

WizardNext ==
    \/ Start \/ KeyQuitWizard
    \/ \E i \in 1..MaxSources : KeyToggleSource(i)
    \/ \E h \in (Defaults + 1)..Len(Hosts) : add_custom_source(h)
    \/ advance_to_step2 \/ (\E i \in DOMAIN services : KeyToggleService(i))
    \/ KeyNext2 \/ KeyBack \/ KeyNext3 \/ KeyStartTray
    \/ run_unified_generate \/ run_per_client_generate \/ run_danger_auto_configure
    \/ push_rewrite_action \/ GenerateNext \/ GenerateFails
    \/ ConfirmYes \/ ConfirmNo \/ CopyBackup \/ RewriteFails \/ WriteRewrite \/ CrashInRewrite
    \/ (\E h \in Shared : EditFile(h) \/ run_rewire_cmd(h)) \/ run_scan_cmd

WizardSpec == WizardInit /\ [][WizardNext]_wizardVars

(***************************************************************************)
(* Properties.                                                             *)
(***************************************************************************)

WizardTypeOK ==
    /\ DOMAIN files \subseteq HostIds /\ DOMAIN owned \subseteq HostIds
    /\ DOMAIN bak \subseteq HostIds /\ unguarded \subseteq HostIds
    /\ \A h \in HostIds : \A s \in DOMAIN backups[h] :
        s[1] \in 0..MaxSecs /\ s[2] \in 0..BackupTries
    /\ written \subseteq DOMAIN mux
    /\ step \in 0..5 /\ (step = 0 <=> pc = "off")
    /\ Len(sources) <= MaxSources /\ strategy \in Strategy /\ dry_run \in BOOLEAN
    /\ pc \in {"off", "keys", "generate", "plan", "confirm", "copy", "write"}
    /\ (todo # <<>>) = (pc = "generate") /\ (scanned # <<>>) = (pc = "plan")
    /\ pc # "plan" => (plan # <<>>) = (pc \in {"confirm", "copy", "write"})
    /\ daemon \in {"none", "generated", "fallback"}

\* What the owner of a client file last left in it is still in the file or in
\* one of its timestamped backups: through several auto-rewires in one second,
\* the same file listed twice, edits while CONFIRM is awaited, failed writes and
\* crashes in the middle of one (write_with_timestamped_backup, execute_plan).
\* The rewire subcommand and an edit between the copy and the write are not
\* covered by these backups.
Restorable ==
    \A h \in DOMAIN owned \ unguarded :
        \/ h \in DOMAIN files /\ files[h] = owned[h]
        \/ owned[h] \in Range(backups[h])

\* The auto-rewire only ever gets as far as its prompt outside of a dry run, and
\* only for sources that may be rewritten and that parsed both times they were
\* read for this plan, whatever their owners did in between
\* (run_danger_auto_configure, plan_danger_rewrite_for_scans).  What becomes of a
\* file while CONFIRM is awaited is not looked at again.
DangerDiscipline ==
    pc \in {"confirm", "copy", "write"} =>
        /\ ~dry_run
        /\ \A i \in DOMAIN plan :
            /\ Hosts[plan[i].id].eligible /\ plan[i].from.valid
            /\ Readable(Hosts[plan[i].id], plan[i].file)

\* An entry that a planned rewrite may replace: the server that was found in this
\* section under this name.  Two others are replaced as well, because the rewrite
\* goes by the name alone: whatever the owner has put under the name between the
\* scan and the second read of the file, and an entry of mcpServers that is no
\* server, when the servers were found in the section "servers".
MayReplace(p, key, n) ==
    \/ p.from.sections[key][n] = p.services[n]
    \/ p.from # p.file
    \/ /\ Hosts[p.id].schema = "auto" /\ key = "mcpServers"
       /\ p.from.sections[key][n].run = Opaque

\* A planned rewrite keeps every entry of every section of the file as it is when
\* it is read for the second time, except that servers which the scan found, and
\* which run the program of a ticked service, become the proxy
\* (SelectedServiceFilter, rewrite_json_keep_other_keys).
PlanTouchesOnlyTicked ==
    \A i \in DOMAIN plan :
        LET p == plan[i]
            from == p.from.sections
            to   == p.to.sections
        IN  \A key \in DOMAIN from : key \in DOMAIN to /\ \A n \in DOMAIN from[key] :
                /\ n \in DOMAIN to[key]
                /\ \/ to[key][n] = from[key][n]
                   \/ /\ to[key][n].run = Proxy /\ n \in DOMAIN p.services
                      /\ \E j \in DOMAIN Ticked : Ticked[j].entry.run = p.services[n].run
                      /\ MayReplace(p, key, n)

\* A client entry leads to a server of the daemon's configuration.
Reaches(e, run) ==
    \E n \in DOMAIN mux[config_toml] :
        mux[config_toml][n].socket = e.to /\ mux[config_toml][n].run = run

\* When the unified strategy has finished, every ticked service that shares its
\* name with no other is in both client files, and the socket its entry names
\* is one at which the daemon runs the program of that service, whatever the
\* files said before (run_unified_generate, write_mux_outputs).
TickedServed ==
    At(5) /\ strategy = "unified" /\ written # {} =>
        \A i \in DOMAIN Ticked : \A f \in {mcp_json, mcp_toml} :
            \/ \E j \in DOMAIN Ticked \ {i} : Ticked[j].name = Ticked[i].name
            \/ /\ Ticked[i].name \in DOMAIN mux[f]
               /\ Reaches(mux[f][Ticked[i].name], Ticked[i].entry.run)

\* mux_gen.rs: the daemon config.toml is merged across every selected scan so
\* the running mux can reach every upstream server.  So when the per-client
\* strategy has finished, every entry of a client file it wrote names a socket
\* that the daemon serves (build_per_client_outputs).
PerClientReachable ==
    At(5) /\ strategy = "perclient" =>
        \A f \in written \ {config_toml} : \A n \in DOMAIN mux[f] :
            \E run \in Programs : Reaches(mux[f][n], run)

=============================================================================
