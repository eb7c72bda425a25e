---------------------------- MODULE WizardProofs ----------------------------
(***************************************************************************)
(* The setup wizard, for every set of clients, contents of their files and *)
(* bound: no auto-rewire loses what the owner of a file left in it, it     *)
(* touches only what was ticked, and what the unified strategy generates   *)
(* leads every ticked service to its daemon.  How the services of several  *)
(* clients are merged does not matter to any of these.                     *)
(***************************************************************************)
EXTENDS Wizard, TablesProofs

(***************************************************************************)
(* The inductive invariant.                                                *)
(***************************************************************************)

\* The disk: files of known clients, and backups with the stamps there are.
DiskTypes ==
    /\ DOMAIN files \subseteq HostIds /\ DOMAIN owned \subseteq HostIds
    /\ DOMAIN bak \subseteq HostIds /\ unguarded \subseteq HostIds
    /\ DOMAIN backups = HostIds
    /\ \A h \in HostIds : \A s \in DOMAIN backups[h] :
        s[1] \in 0..MaxSecs /\ s[2] \in 0..BackupTries

ControlTypes ==
    /\ step \in 0..5 /\ (step = 0 <=> pc = "off")
    /\ strategy \in Strategy /\ secs \in 0..MaxSecs
    /\ pc \in {"off", "keys", "generate", "plan", "confirm", "copy", "write"}
    /\ daemon \in {"none", "generated", "fallback"}

SourceTypes ==
    /\ IsList(sources) /\ Len(sources) <= MaxSources
    /\ \A i \in DOMAIN sources : sources[i].host \in HostIds

TodoTypes ==
    /\ IsList(todo) /\ (todo # <<>> <=> pc = "generate")
    /\ written \subseteq DOMAIN mux

\* What of the servers found is ticked.
TickedOf(found, ticked) == Restrict(found, {n \in DOMAIN found : Matches(ticked, n, found[n])})

\* A scan that a rewrite is planned for.
Rewritable(x, ticked) ==
    /\ x.id \in HostIds /\ x.host = Hosts[x.id] /\ x.host.eligible /\ Readable(x.host, x.file)
    /\ x.services = TickedOf(scan_host_file(x.host, x.file), ticked)

ScannedTypes ==
    /\ IsList(scanned) /\ (scanned # <<>> <=> pc = "plan")
    /\ \A i \in DOMAIN scanned : Rewritable(scanned[i], Ticked)

\* A planned rewrite is of a file that was read twice.
ReadTwice(p) ==
    /\ p.id \in HostIds /\ Hosts[p.id].eligible
    /\ p.from.valid /\ Readable(Hosts[p.id], p.file)

PlanTypes ==
    /\ IsList(plan) /\ (pc # "plan" => (plan # <<>> <=> pc \in {"confirm", "copy", "write"}))
    /\ \A i \in DOMAIN plan : ReadTwice(plan[i])

\* When a file is about to be overwritten, what its owner left is in a backup.
BackedUp ==
    pc = "write" =>
        \A h \in DOMAIN owned \ unguarded :
            h = Head(plan).id => owned[h] \in Range(backups[h])

\* How far the unified strategy has come: what is left to write, and what is
\* written already.
UnifiedWritten ==
    LET daemons == build_daemon_config(Ticked)
        clients == build_client(Ticked)
    IN  /\ written # {} => pc = "generate" \/ At(5)
        /\ pc = "generate" /\ strategy = "unified" =>
            \/ todo = <<Output(config_toml, daemons), Output(mcp_json, clients), Output(mcp_toml, clients)>>
            \/ /\ todo = <<Output(mcp_json, clients), Output(mcp_toml, clients)>>
               /\ config_toml \in DOMAIN mux /\ mux[config_toml] = daemons
            \/ /\ todo = <<Output(mcp_toml, clients)>> /\ {config_toml, mcp_json} \subseteq DOMAIN mux
               /\ mux[config_toml] = daemons /\ mux[mcp_json] = clients
        /\ At(5) /\ strategy = "unified" /\ written # {} =>
            /\ {config_toml, mcp_json, mcp_toml} \subseteq DOMAIN mux
            /\ mux[config_toml] = daemons /\ mux[mcp_json] = clients /\ mux[mcp_toml] = clients

WizardIInv ==
    /\ DiskTypes /\ ControlTypes /\ SourceTypes /\ TodoTypes /\ ScannedTypes /\ PlanTypes
    /\ dry_run \in BOOLEAN
    /\ Restorable /\ BackedUp /\ DangerDiscipline /\ PlanTouchesOnlyTicked /\ UnifiedWritten

(***************************************************************************)
(* What the owner left is restorable.                                      *)
(***************************************************************************)

\* While a plan is made nothing but the plan changes, up to the prompt.
LEMMA PlanningKeeps ==
  ASSUME push_rewrite_action
  PROVE  /\ pc = "plan" /\ Decided /\ todo' = todo
         /\ \/ pc' = "keys" /\ step' = 5
            \/ pc' \in {"plan", "confirm"} /\ step' = step
         /\ UNCHANGED <<files, backups, bak, mux, manifest, sources, services, strategy, dry_run,
                        written, daemon, secs, starts, outside, owned, unguarded>>
<1>1. pc = "plan" /\ Decided /\ todo' = todo
  BY DEF push_rewrite_action
<1>2. (\E p : Prompt(p)) \/ UNCHANGED <<pc, step>>
  BY DEF push_rewrite_action
<1>3. \/ pc' = "keys" /\ step' = 5
      \/ pc' \in {"plan", "confirm"} /\ step' = step
  BY <1>1, <1>2 DEF Prompt, Step5
<1> QED
  BY <1>1, <1>3 DEF Decided, diskVars, boundVars, historyVars

\* The file that is copied or written is of a known client.
LEMMA HeadKnown ==
  ASSUME PlanTypes, pc \in {"copy", "write"}
  PROVE  Head(plan).id \in HostIds
<1>1. plan # <<>> /\ IsList(plan)
  BY DEF PlanTypes
<1>2. Head(plan) = plan[1] /\ 1 \in DOMAIN plan
  BY <1>1, ListPlaces
<1> QED
  BY <1>2 DEF PlanTypes, ReadTwice

\* Each action but the six that change a client file, its backups or what its
\* owner left.
LEMMA StepRestorable ==
  ASSUME DiskTypes, PlanTypes, Restorable, BackedUp, [WizardNext]_wizardVars
  PROVE  Restorable' /\ BackedUp'
<1>0. ASSUME UNCHANGED <<files, backups, owned, unguarded>>, pc' = "write" => pc = "write" /\ plan' = plan
      PROVE  Restorable' /\ BackedUp'
  BY <1>0 DEF Restorable, BackedUp
<1> USE DEF diskVars, appVars, runVars, boundVars, historyVars, wizardVars
<1>1. CASE Start \/ KeyQuitWizard \/ KeyStartTray \/ GenerateFails
  BY <1>0, <1>1 DEF Start, KeyQuitWizard, KeyStartTray, GenerateFails, Ended, Still
<1>2. CASE \/ \E i \in 1..MaxSources : KeyToggleSource(i)
           \/ \E h \in (Defaults + 1)..Len(Hosts) : add_custom_source(h)
           \/ \E i \in DOMAIN services : KeyToggleService(i)
  BY <1>0, <1>2 DEF KeyToggleSource, add_custom_source, KeyToggleService, Still
<1>3. CASE advance_to_step2 \/ KeyNext2 \/ KeyBack \/ KeyNext3
  BY <1>0, <1>3 DEF advance_to_step2, KeyNext2, KeyBack, KeyNext3, Goto, Still
<1>4. CASE run_unified_generate \/ run_per_client_generate \/ run_danger_auto_configure
  BY <1>0, <1>4 DEF run_unified_generate, run_per_client_generate, run_danger_auto_configure,
                    Generate, ToStep5, Step5, Decided
<1>5. CASE GenerateNext \/ ConfirmYes \/ ConfirmNo
  BY <1>0, <1>5 DEF GenerateNext, ConfirmYes, ConfirmNo, Step5, Decided
<1>p. CASE push_rewrite_action
  BY <1>0, <1>p, PlanningKeeps
<1>6. CASE run_scan_cmd \/ UNCHANGED wizardVars
  BY <1>0, <1>6 DEF run_scan_cmd, Outside
<1>b. ASSUME NEW g \in HostIds, NEW s, s \notin DOMAIN backups[g], NEW c,
             backups' = [backups EXCEPT ![g] = Put(backups[g], s, c)],
             NEW h \in HostIds
      PROVE  Range(backups[h]) \subseteq Range(backups'[h]) /\ (h = g => c \in Range(backups'[h]))
  <2> DEFINE t == Put(backups[g], s, c)
  <2>1. /\ DOMAIN t = DOMAIN backups[g] \cup {s} /\ t[s] = c
        /\ \A x \in DOMAIN backups[g] : x # s => t[x] = backups[g][x]
    BY DEF Put
  <2>2. backups'[g] = t /\ (h # g => backups'[h] = backups[h])
    BY <1>b DEF DiskTypes
  <2> HIDE DEF t
  <2>3. \A x \in DOMAIN backups[g] : x \in DOMAIN t /\ t[x] = backups[g][x]
    BY <1>b, <2>1
  <2>4. Range(backups[g]) \subseteq Range(t) /\ c \in Range(t)
    BY <2>1, <2>3 DEF Range
  <2> QED
    BY <2>2, <2>4
<1>f. \A g : \A s \in FreeStampsOf(DOMAIN backups[g]) : s \notin DOMAIN backups[g]
  BY DEF FreeStampsOf, FreeStamps
<1>g. ASSUME pc \in {"copy", "write"} PROVE Head(plan).id \in HostIds
  BY <1>g, HeadKnown
<1>7. CASE CopyBackup
  <2> DEFINE g == Head(plan).id
  <2>1. /\ pc' = "write" /\ UNCHANGED <<files, owned, unguarded, plan>>
        /\ \E s \in FreeStampsOf(DOMAIN backups[g]) :
              backups' = IF g \in DOMAIN files
                         THEN [backups EXCEPT ![g] = Put(backups[g], s, files[g])] ELSE backups
    BY <1>7 DEF CopyBackup
  <2>2. PICK s \in FreeStampsOf(DOMAIN backups[g]) :
              backups' = IF g \in DOMAIN files
                         THEN [backups EXCEPT ![g] = Put(backups[g], s, files[g])] ELSE backups
    BY <2>1
  <2>3. s \notin DOMAIN backups[g] /\ g \in HostIds
    BY <1>7, <1>f, <1>g DEF CopyBackup
  <2>4. ASSUME NEW h \in HostIds
        PROVE  /\ Range(backups[h]) \subseteq Range(backups'[h])
               /\ h = g /\ g \in DOMAIN files => files[g] \in Range(backups'[h])
    <3> HIDE DEF g
    <3>1. CASE g \in DOMAIN files
      BY <1>b, <2>2, <2>3, <3>1
    <3>2. CASE g \notin DOMAIN files
      BY <2>2, <3>2
    <3> QED
      BY <3>1, <3>2
  <2>5. Restorable'
    BY <2>1, <2>4 DEF Restorable, DiskTypes
  <2>6. ASSUME NEW h \in DOMAIN owned \ unguarded, h = g PROVE owned[h] \in Range(backups'[h])
    BY <2>4, <2>6 DEF Restorable, DiskTypes
  <2>7. BackedUp'
    BY <2>1, <2>6 DEF BackedUp
  <2> QED
    BY <2>5, <2>7
<1>8. ASSUME pc = "write", UNCHANGED <<backups, owned, unguarded>>, pc' # "write",
             NEW v, files' = Put(files, Head(plan).id, v)
      PROVE  Restorable' /\ BackedUp'
  <2>1. ASSUME NEW h \in DOMAIN owned \ unguarded
        PROVE  (h \in DOMAIN files' /\ files'[h] = owned[h]) \/ owned[h] \in Range(backups[h])
    <3>1. CASE h = Head(plan).id
      BY <1>8, <3>1 DEF BackedUp
    <3>2. CASE h # Head(plan).id
      <4>1. \A x \in DOMAIN files : x # Head(plan).id => x \in DOMAIN files' /\ files'[x] = files[x]
        BY <1>8 DEF Put
      <4> QED
        BY <3>2, <4>1 DEF Restorable
    <3> QED
      BY <3>1, <3>2
  <2>2. Restorable'
    BY <1>8, <2>1 DEF Restorable
  <2>3. BackedUp'
    BY <1>8 DEF BackedUp
  <2> QED
    BY <2>2, <2>3
<1>9. CASE WriteRewrite
  BY <1>8, <1>9 DEF WriteRewrite, Dropped, Step5
<1>10. CASE CrashInRewrite \/ RewriteFails
  <2> DEFINE g == Head(plan).id
  <2>1. /\ pc \in {"copy", "write"} /\ pc' # "write" /\ UNCHANGED <<owned, unguarded>> /\ CutShort
    BY <1>10 DEF CrashInRewrite, RewriteFails, Ended, Dropped, Step5
  <2>2. CASE UNCHANGED <<files, backups>>
    BY <1>0, <2>1, <2>2
  <2>3. CASE pc = "write" /\ files' = Put(files, g, Unparsable) /\ UNCHANGED backups
    BY <1>8, <2>1, <2>3
  <2>4. ASSUME UNCHANGED files,
               NEW s \in FreeStampsOf(DOMAIN backups[g]),
               backups' = [backups EXCEPT ![g] = Put(backups[g], s, Unparsable)]
        PROVE  Restorable' /\ BackedUp'
    <3>1. g \in HostIds /\ s \notin DOMAIN backups[g]
      BY <1>f, <1>g, <2>1
    <3>2. \A h \in HostIds : Range(backups[h]) \subseteq Range(backups'[h])
      <4> HIDE DEF g
      <4> QED
        BY <1>b, <2>4, <3>1
    <3>3. Restorable'
      BY <2>1, <2>4, <3>2 DEF Restorable, DiskTypes
    <3>4. BackedUp'
      BY <2>1 DEF BackedUp
    <3> QED
      BY <3>3, <3>4
  <2> QED
    BY <2>1, <2>2, <2>3, <2>4 DEF CutShort
<1>11. ASSUME NEW h \in Shared, EditFile(h) PROVE Restorable' /\ BackedUp'
  <2>1. /\ UNCHANGED <<backups, pc, plan>>
        /\ unguarded' = IF pc = "write" /\ Head(plan).id = h THEN unguarded \cup {h} ELSE unguarded \ {h}
    BY <1>11 DEF EditFile, Outside
  <2>2. CASE \E c \in Contents : files' = Put(files, h, c) /\ owned' = Put(owned, h, c)
    <3>1. PICK c \in Contents : files' = Put(files, h, c) /\ owned' = Put(owned, h, c)
      BY <2>2
    <3>2. /\ \A g \in DOMAIN owned' : g = h \/ (g \in DOMAIN owned /\ owned'[g] = owned[g])
          /\ \A g \in DOMAIN files : g # h => g \in DOMAIN files' /\ files'[g] = files[g]
          /\ h \in DOMAIN files' /\ files'[h] = owned'[h]
      BY <3>1 DEF Put
    <3>3. Restorable'
      BY <2>1, <3>2 DEF Restorable
    <3>4. BackedUp'
      BY <2>1, <3>2 DEF BackedUp
    <3> QED
      BY <3>3, <3>4
  <2>3. CASE files' = Restrict(files, DOMAIN files \ {h}) /\ owned' = Restrict(owned, DOMAIN owned \ {h})
    <3>1. /\ DOMAIN owned' = DOMAIN owned \ {h} /\ \A g \in DOMAIN owned' : owned'[g] = owned[g]
          /\ \A g \in DOMAIN files : g # h => g \in DOMAIN files' /\ files'[g] = files[g]
      BY <2>3 DEF Restrict
    <3>2. Restorable'
      BY <2>1, <3>1 DEF Restorable
    <3>3. BackedUp'
      BY <2>1, <3>1 DEF BackedUp
    <3> QED
      BY <3>2, <3>3
  <2> QED
    BY <1>11, <2>2, <2>3 DEF EditFile
<1>12. ASSUME NEW h \in Shared, run_rewire_cmd(h) PROVE Restorable' /\ BackedUp'
  <2>1. /\ UNCHANGED <<backups, pc, plan, owned>> /\ unguarded' = unguarded \cup {h}
        /\ \E v : files' = Put(files, h, v)
    BY <1>12 DEF run_rewire_cmd, Outside
  <2>2. \A g \in DOMAIN files : g # h => g \in DOMAIN files' /\ files'[g] = files[g]
    BY <2>1 DEF Put
  <2>3. Restorable'
    BY <2>1, <2>2 DEF Restorable
  <2>4. BackedUp'
    BY <2>1 DEF BackedUp
  <2> QED
    BY <2>3, <2>4
<1> QED
  BY <1>1, <1>2, <1>3, <1>4, <1>5, <1>p, <1>6, <1>7, <1>9, <1>10, <1>11, <1>12 DEF WizardNext

(***************************************************************************)
(* Types.                                                                  *)
(***************************************************************************)

\* Client files, backups and what the owners left.
LEMMA StepDisk ==
  ASSUME DiskTypes, ControlTypes, PlanTypes, [WizardNext]_wizardVars
  PROVE  DiskTypes'
<1>0. ASSUME UNCHANGED <<files, backups, owned, unguarded, bak>> PROVE DiskTypes'
  BY <1>0 DEF DiskTypes
<1> USE DEF diskVars, appVars, runVars, boundVars, historyVars, wizardVars
<1>1. CASE Start \/ KeyQuitWizard \/ KeyStartTray \/ GenerateFails
  BY <1>0, <1>1 DEF Start, KeyQuitWizard, KeyStartTray, GenerateFails, Still
<1>2. CASE \/ \E i \in 1..MaxSources : KeyToggleSource(i)
           \/ \E h \in (Defaults + 1)..Len(Hosts) : add_custom_source(h)
           \/ \E i \in DOMAIN services : KeyToggleService(i)
  BY <1>0, <1>2 DEF KeyToggleSource, add_custom_source, KeyToggleService, Still
<1>3. CASE advance_to_step2 \/ KeyNext2 \/ KeyBack \/ KeyNext3
  BY <1>0, <1>3 DEF advance_to_step2, KeyNext2, KeyBack, KeyNext3, Goto, Still
<1>4. CASE run_unified_generate \/ run_per_client_generate \/ run_danger_auto_configure
  BY <1>0, <1>4 DEF run_unified_generate, run_per_client_generate, run_danger_auto_configure, Decided
<1>5. CASE GenerateNext \/ ConfirmYes \/ ConfirmNo
  BY <1>0, <1>5 DEF GenerateNext, ConfirmYes, ConfirmNo, Decided
<1>p. CASE push_rewrite_action
  BY <1>0, <1>p, PlanningKeeps
<1>6. CASE run_scan_cmd \/ UNCHANGED wizardVars
  BY <1>0, <1>6 DEF run_scan_cmd, Outside
<1>7. ASSUME pc \in {"copy", "write"} PROVE Head(plan).id \in HostIds
  BY <1>7, HeadKnown
<1>8. ASSUME UNCHANGED <<backups, bak, owned, unguarded>>, NEW h \in HostIds, NEW v, files' = Put(files, h, v)
      PROVE  DiskTypes'
  <2>1. DOMAIN files' = DOMAIN files \cup {h}
    BY <1>8 DEF Put
  <2> QED
    BY <1>8, <2>1 DEF DiskTypes
<1>9. CASE WriteRewrite
  BY <1>7, <1>8, <1>9 DEF WriteRewrite
<1>b. ASSUME NEW g \in HostIds, NEW s \in FreeStampsOf(DOMAIN backups[g]), NEW c,
             backups' = [backups EXCEPT ![g] = Put(backups[g], s, c)],
             UNCHANGED <<files, bak, owned, unguarded>>
      PROVE  DiskTypes'
  <2>1. s[1] \in 0..MaxSecs /\ s[2] \in 0..BackupTries
    <3>1. PICK k \in 0..BackupTries : s = <<secs, k>>
      BY DEF FreeStampsOf, FreeStamps
    <3>2. secs \in 0..MaxSecs
      BY DEF ControlTypes
    <3> QED
      BY <3>1, <3>2
  <2>2. DOMAIN backups' = HostIds /\ \A h \in HostIds : DOMAIN backups'[h] \subseteq DOMAIN backups[h] \cup {s}
    BY <1>b DEF DiskTypes, Put
  <2> QED
    BY <1>b, <2>1, <2>2 DEF DiskTypes
<1>10. CASE CrashInRewrite \/ RewriteFails
  <2> DEFINE g == Head(plan).id
  <2>1. pc \in {"copy", "write"} /\ UNCHANGED <<bak, owned, unguarded>> /\ CutShort
    BY <1>10 DEF CrashInRewrite, RewriteFails
  <2>2. g \in HostIds
    BY <1>7, <2>1
  <2>3. CASE UNCHANGED <<files, backups>>
    BY <1>0, <2>1, <2>3
  <2>4. CASE files' = Put(files, g, Unparsable) /\ UNCHANGED backups
    BY <1>8, <2>1, <2>2, <2>4
  <2>5. ASSUME UNCHANGED files,
               NEW s \in FreeStampsOf(DOMAIN backups[g]),
               backups' = [backups EXCEPT ![g] = Put(backups[g], s, Unparsable)]
        PROVE  DiskTypes'
    <3> HIDE DEF g
    <3> QED
      BY <1>b, <2>1, <2>2, <2>5
  <2> QED
    BY <2>1, <2>3, <2>4, <2>5 DEF CutShort
<1>11. CASE CopyBackup
  <2> DEFINE g == Head(plan).id
  <2>1. g \in HostIds /\ UNCHANGED <<files, bak, owned, unguarded>>
    BY <1>7, <1>11 DEF CopyBackup
  <2>2. PICK s \in FreeStampsOf(DOMAIN backups[g]) :
              backups' = IF g \in DOMAIN files
                         THEN [backups EXCEPT ![g] = Put(backups[g], s, files[g])] ELSE backups
    BY <1>11 DEF CopyBackup
  <2> HIDE DEF g
  <2>3. CASE g \in DOMAIN files
    BY <1>b, <2>1, <2>2, <2>3
  <2>4. CASE g \notin DOMAIN files
    BY <1>0, <2>1, <2>2, <2>4
  <2> QED
    BY <2>3, <2>4
<1>12. ASSUME NEW h \in Shared, EditFile(h) \/ run_rewire_cmd(h) PROVE DiskTypes'
  <2>0. h \in HostIds
    BY WizardAssumption
  <2>1. /\ DOMAIN files' \subseteq DOMAIN files \cup {h} /\ DOMAIN owned' \subseteq DOMAIN owned \cup {h}
        /\ DOMAIN bak' \subseteq DOMAIN bak \cup {h} /\ unguarded' \subseteq unguarded \cup {h}
        /\ UNCHANGED backups
    <3>1. CASE EditFile(h)
      BY <3>1 DEF EditFile, Outside, Put, Restrict
    <3>2. CASE run_rewire_cmd(h)
      BY <3>2 DEF run_rewire_cmd, Outside, Put
    <3> QED
      BY <1>12, <3>1, <3>2
  <2> QED
    BY <2>0, <2>1 DEF DiskTypes
<1> QED
  BY <1>1, <1>2, <1>3, <1>4, <1>5, <1>p, <1>6, <1>9, <1>10, <1>11, <1>12 DEF WizardNext

\* Step, strategy and place in the program.
LEMMA StepControl ==
  ASSUME ControlTypes, dry_run \in BOOLEAN, [WizardNext]_wizardVars
  PROVE  ControlTypes' /\ dry_run' \in BOOLEAN
<1>0. ASSUME UNCHANGED <<step, pc, strategy, secs, daemon, dry_run>> PROVE ControlTypes' /\ dry_run' \in BOOLEAN
  BY <1>0 DEF ControlTypes
<1> USE DEF diskVars, appVars, runVars, boundVars, historyVars, wizardVars
<1>1. CASE Start
  <2>1. ControlTypes'
    BY <1>1 DEF Start, ControlTypes
  <2>2. dry_run' \in BOOLEAN
    BY <1>1 DEF Start
  <2> QED
    BY <2>1, <2>2
<1>2. CASE KeyQuitWizard \/ KeyStartTray \/ GenerateFails \/ CrashInRewrite
  <2>1. Ended /\ secs' = secs /\ daemon' \in {daemon, "generated", "fallback"}
    BY <1>2 DEF KeyQuitWizard, KeyStartTray, GenerateFails, CrashInRewrite, Still
  <2>2. step' = 0 /\ pc' = "off" /\ strategy' \in Strategy /\ 0 \in 0..5
    BY <2>1 DEF Ended, Strategy
  <2>3. dry_run' \in BOOLEAN
    BY <2>1 DEF Ended
  <2>4. secs' \in 0..MaxSecs /\ daemon' \in {"none", "generated", "fallback"}
    BY <2>1 DEF ControlTypes
  <2> QED
    BY <2>2, <2>3, <2>4 DEF ControlTypes
<1>3. CASE \/ \E i \in 1..MaxSources : KeyToggleSource(i)
           \/ \E h \in (Defaults + 1)..Len(Hosts) : add_custom_source(h)
           \/ \E i \in DOMAIN services : KeyToggleService(i)
  BY <1>0, <1>3 DEF KeyToggleSource, add_custom_source, KeyToggleService, Still
<1>4. CASE advance_to_step2 \/ KeyNext2 \/ KeyBack \/ KeyNext3
  <2>1. /\ UNCHANGED <<pc, secs, daemon, dry_run>> /\ pc = "keys" /\ step' \in 1..5
        /\ strategy' = strategy \/ strategy' \in Strategy
    BY <1>4 DEF advance_to_step2, KeyNext2, KeyBack, KeyNext3, Goto, Still, At
  <2> QED
    BY <2>1 DEF ControlTypes
<1>5. CASE run_unified_generate \/ run_per_client_generate \/ run_danger_auto_configure
  <2>1. /\ UNCHANGED <<secs, daemon, dry_run, strategy>> /\ step = 4
        /\ \/ pc' = "keys" /\ step' = 5
           \/ pc' \in {"generate", "plan"} /\ step' = step
    BY <1>5 DEF run_unified_generate, run_per_client_generate, run_danger_auto_configure,
                Generate, ToStep5, Step5, Decided, Confirmed, At
  <2> QED
    BY <2>1 DEF ControlTypes
<1>6. CASE GenerateNext \/ ConfirmYes \/ ConfirmNo \/ RewriteFails \/ WriteRewrite \/ CopyBackup
  <2>1. /\ UNCHANGED <<secs, daemon, dry_run, strategy>> /\ pc # "off"
        /\ \/ pc' = "keys" /\ step' = 5
           \/ pc' \in {"generate", "copy", "write"} /\ step' = step
    BY <1>6 DEF GenerateNext, ConfirmYes, ConfirmNo, RewriteFails, WriteRewrite, CopyBackup,
                Dropped, Step5, Decided
  <2> QED
    BY <2>1 DEF ControlTypes
<1>p. CASE push_rewrite_action
  <2>1. /\ UNCHANGED <<secs, daemon, dry_run, strategy>> /\ pc # "off"
        /\ \/ pc' = "keys" /\ step' = 5
           \/ pc' \in {"plan", "confirm"} /\ step' = step
    BY <1>p, PlanningKeeps
  <2> QED
    BY <2>1 DEF ControlTypes
<1>7. CASE (\E h \in Shared : EditFile(h) \/ run_rewire_cmd(h)) \/ run_scan_cmd \/ UNCHANGED wizardVars
  BY <1>0, <1>7 DEF EditFile, run_rewire_cmd, run_scan_cmd, Outside
<1> QED
  BY <1>1, <1>2, <1>3, <1>4, <1>5, <1>6, <1>p, <1>7 DEF WizardNext

\* The list of sources: the defaults, and the files added by hand.
LEMMA StepSources ==
  ASSUME SourceTypes, [WizardNext]_wizardVars
  PROVE  SourceTypes'
<1>0. ASSUME UNCHANGED sources PROVE SourceTypes'
  BY <1>0 DEF SourceTypes
<1> USE DEF diskVars, appVars, runVars, boundVars, historyVars, wizardVars
<1>h. Defaults \in Nat /\ Defaults <= MaxSources /\ DOMAIN Hosts = 1..Len(Hosts) /\ Defaults <= Len(Hosts)
      /\ Len(Hosts) \in Nat /\ MaxSources \in Nat
  <2>1. Hosts \in Seq(Range(Hosts))
    BY HostAssumption
  <2>2. DOMAIN Hosts = 1..Len(Hosts) /\ Len(Hosts) \in Nat
    BY <2>1
  <2> QED
    BY <2>2, WizardAssumption
<1>1. CASE Start
  <2>1. sources' = [h \in 1..Defaults |-> SourceEntry(h, classify_source(h) # "missing")]
    BY <1>1 DEF Start, build_initial_sources
  <2>2. sources' = [h \in 1..Defaults |-> sources'[h]] /\ \A h \in 1..Defaults : sources'[h].host = h
    BY <2>1 DEF SourceEntry
  <2>3. IsList(sources') /\ Len(sources') = Defaults /\ DOMAIN sources' = 1..Defaults
    BY <1>h, <2>2, ListOf
  <2> QED
    BY <1>h, <2>2, <2>3 DEF SourceTypes, HostIds
<1>2. CASE KeyQuitWizard \/ KeyStartTray \/ GenerateFails \/ CrashInRewrite
  <2>1. sources' = <<>>
    BY <1>2 DEF KeyQuitWizard, KeyStartTray, GenerateFails, CrashInRewrite, Ended
  <2> QED
    BY <1>h, <2>1, NoRows DEF SourceTypes
<1>3. ASSUME NEW i \in 1..MaxSources, KeyToggleSource(i) PROVE SourceTypes'
  <2>1. sources' = [sources EXCEPT ![i].selected = ~@] /\ i \in DOMAIN sources
    BY <1>3 DEF KeyToggleSource
  <2>2. Len(sources) \in Nat /\ DOMAIN sources = 1..Len(sources)
    BY ListPlaces DEF SourceTypes
  <2>3. sources' = [j \in 1..Len(sources) |-> sources'[j]]
    BY <2>1, <2>2
  <2>4. IsList(sources') /\ Len(sources') = Len(sources) /\ DOMAIN sources' = DOMAIN sources
    BY <2>2, <2>3, ListOf
  <2>5. \A j \in DOMAIN sources : sources'[j].host = sources[j].host
    BY <2>1
  <2> QED
    BY <2>4, <2>5 DEF SourceTypes
<1>4. ASSUME NEW h \in (Defaults + 1)..Len(Hosts), add_custom_source(h) PROVE SourceTypes'
  <2>1. sources' = Append(sources, SourceEntry(h, TRUE)) /\ Len(sources) < MaxSources
    BY <1>4 DEF add_custom_source
  <2>2. Len(sources) \in Nat /\ DOMAIN sources = 1..Len(sources) /\ sources \in Seq(Range(sources))
    BY ListPlaces DEF SourceTypes, IsList
  <2> DEFINE e == SourceEntry(h, TRUE)
             T == Range(sources) \cup {e}
  <2>3. e.host = h /\ h \in HostIds
    BY <1>h DEF SourceEntry, HostIds
  <2>a. sources' = Append(sources, e)
    BY <2>1
  <2> HIDE DEF e
  <2>4. sources \in Seq(T) /\ e \in T
    BY <2>2
  <2> HIDE DEF T
  <2>5. /\ sources' \in Seq(T) /\ Len(sources') = Len(sources) + 1
        /\ DOMAIN sources' = 1..(Len(sources) + 1)
        /\ \A j \in 1..Len(sources) : sources'[j] = sources[j]
        /\ sources'[Len(sources) + 1] = e
    <3>1. /\ Append(sources, e) \in Seq(T) /\ Len(Append(sources, e)) = Len(sources) + 1
          /\ DOMAIN Append(sources, e) = 1..(Len(sources) + 1)
          /\ \A j \in 1..Len(sources) : Append(sources, e)[j] = sources[j]
          /\ Append(sources, e)[Len(sources) + 1] = e
      BY <2>4, AddRow
    <3> QED
      BY <2>a, <3>1, Zenon
  <2>6. sources' = [j \in 1..(Len(sources) + 1) |-> sources'[j]]
    BY <2>5
  <2>7. IsList(sources')
    BY <2>2, <2>6, ListOf
  <2>8. \A j \in DOMAIN sources' : sources'[j].host \in HostIds
    BY <2>2, <2>3, <2>5 DEF SourceTypes
  <2>9. Len(sources') <= MaxSources
    <3>1. ASSUME NEW a \in Nat, NEW b \in Nat, a < b PROVE a + 1 <= b
      BY <3>1
    <3>2. Len(sources) + 1 <= MaxSources
      BY <1>h, <2>1, <2>2, <3>1
    <3> QED
      BY <2>5, <3>2
  <2> QED
    BY <2>7, <2>8, <2>9 DEF SourceTypes
<1>5. CASE \/ \E i \in DOMAIN services : KeyToggleService(i)
           \/ advance_to_step2 \/ KeyNext2 \/ KeyBack \/ KeyNext3
  BY <1>0, <1>5 DEF KeyToggleService, advance_to_step2, KeyNext2, KeyBack, KeyNext3, Goto
<1>6. CASE run_unified_generate \/ run_per_client_generate \/ run_danger_auto_configure
  BY <1>0, <1>6 DEF run_unified_generate, run_per_client_generate, run_danger_auto_configure, Decided
<1>7. CASE GenerateNext \/ ConfirmYes \/ ConfirmNo \/ RewriteFails \/ WriteRewrite \/ CopyBackup
  BY <1>0, <1>7 DEF GenerateNext, ConfirmYes, ConfirmNo, RewriteFails, WriteRewrite, CopyBackup, Decided
<1>p. CASE push_rewrite_action
  BY <1>0, <1>p, PlanningKeeps
<1>8. CASE (\E h \in Shared : EditFile(h) \/ run_rewire_cmd(h)) \/ run_scan_cmd \/ UNCHANGED wizardVars
  BY <1>0, <1>8 DEF EditFile, run_rewire_cmd, run_scan_cmd, Outside
<1> QED
  BY <1>1, <1>2, <1>3, <1>4, <1>5, <1>6, <1>7, <1>p, <1>8 DEF WizardNext

(***************************************************************************)
(* The danger plan.                                                        *)
(***************************************************************************)

\* The scan of a client file that could be read.
ScanOf(h) ==
    [host |-> Hosts[h], id |-> h, file |-> files[h], services |-> scan_host_file(Hosts[h], files[h])]

\* Every scan is of a client file that can be read.
LEMMA ScansMade ==
  ASSUME SourceTypes
  PROVE  /\ IsList(Scans)
         /\ \A i \in DOMAIN Scans : \E h \in HostIds : CanScan(h) /\ Scans[i] = ScanOf(h)
<1> DEFINE I == {i \in DOMAIN sources :
                    sources[i].selected /\ sources[i].status = "ok" /\ CanScan(sources[i].host)}
           rows == Kept(sources, I)
<1>1. /\ IsList(rows)
      /\ \A k \in DOMAIN rows : \E i \in I : rows[k] = sources[i]
  <2>1. IsList(sources) /\ I \subseteq DOMAIN sources
    BY DEF SourceTypes
  <2> HIDE DEF I
  <2> QED
    BY <2>1, KeptList
<1>2. \A k \in DOMAIN rows : rows[k].host \in HostIds /\ CanScan(rows[k].host)
  BY <1>1 DEF SourceTypes
<1>3. Scans = [k \in DOMAIN rows |-> ScanOf(rows[k].host)]
  BY DEF Scans, ScanOf
<1> HIDE DEF rows
<1>4. Scans = [k \in DOMAIN rows |-> Scans[k]]
  BY <1>3
<1>5. IsList(Scans) /\ DOMAIN Scans = DOMAIN rows
  BY <1>1, <1>4, MappedList
<1> QED
  BY <1>2, <1>3, <1>5

\* And so is every scan the strategies work on, with the servers that are ticked.
LEMMA SelectedMade ==
  ASSUME SourceTypes
  PROVE  /\ IsList(selected_scans)
         /\ \A i \in DOMAIN selected_scans : \E h \in HostIds :
              /\ CanScan(h)
              /\ selected_scans[i].host = Hosts[h] /\ selected_scans[i].id = h
              /\ selected_scans[i].file = files[h]
              /\ selected_scans[i].services = TickedOf(scan_host_file(Hosts[h], files[h]), Ticked)
<1>1. /\ IsList(Scans)
      /\ \A i \in DOMAIN Scans : \E h \in HostIds : CanScan(h) /\ Scans[i] = ScanOf(h)
  BY ScansMade
<1>2. selected_scans = [i \in DOMAIN Scans |-> retain(Scans[i], Ticked)]
  BY DEF selected_scans
<1>3. selected_scans = [i \in DOMAIN Scans |-> selected_scans[i]]
  BY <1>2
<1>4. IsList(selected_scans) /\ DOMAIN selected_scans = DOMAIN Scans
  BY <1>1, <1>3, MappedList
<1>5. ASSUME NEW i \in DOMAIN Scans
      PROVE  \E h \in HostIds :
              /\ CanScan(h)
              /\ selected_scans[i].host = Hosts[h] /\ selected_scans[i].id = h
              /\ selected_scans[i].file = files[h]
              /\ selected_scans[i].services = TickedOf(scan_host_file(Hosts[h], files[h]), Ticked)
  <2>1. PICK h \in HostIds : CanScan(h) /\ Scans[i] = ScanOf(h)
    BY <1>1
  <2>2. selected_scans[i] = retain(ScanOf(h), Ticked)
    BY <1>2, <2>1
  <2>3. /\ retain(ScanOf(h), Ticked).host = Hosts[h] /\ retain(ScanOf(h), Ticked).id = h
        /\ retain(ScanOf(h), Ticked).file = files[h]
        /\ retain(ScanOf(h), Ticked).services = TickedOf(scan_host_file(Hosts[h], files[h]), Ticked)
    BY DEF retain, ScanOf, TickedOf
  <2> QED
    BY <2>1, <2>2, <2>3
<1> QED
  BY <1>4, <1>5

\* What a planned rewrite leaves alone.
KeepsOthers(p, ticked) ==
    LET from == p.from.sections
        to   == p.to.sections
    IN  \A key \in DOMAIN from : key \in DOMAIN to /\ \A n \in DOMAIN from[key] :
            /\ n \in DOMAIN to[key]
            /\ \/ to[key][n] = from[key][n]
               \/ /\ to[key][n].run = Proxy /\ n \in DOMAIN p.services
                  /\ \E j \in DOMAIN ticked : ticked[j].entry.run = p.services[n].run
                  /\ MayReplace(p, key, n)

\* In a file that has not changed since the scan, a name found is in the section
\* that is rewritten, or there under an entry that is no server.
LEMMA FoundInSection ==
  ASSUME NEW h, h.schema \in {"mcp", "auto", "toml"}, NEW c, NEW n,
         LET rk == RewriteKey(h, c)
         IN  /\ n \in DOMAIN scan_host_file(h, c)
             /\ rk \in DOMAIN c.sections /\ n \in DOMAIN c.sections[rk]
  PROVE  LET rk == RewriteKey(h, c)
         IN  \/ c.sections[rk][n] = scan_host_file(h, c)[n]
             \/ h.schema = "auto" /\ rk = "mcpServers" /\ c.sections[rk][n].run = Opaque
<1> DEFINE rk == RewriteKey(h, c)
           mainKey == IF h.schema = "toml" THEN "mcp_servers" ELSE "mcpServers"
           main == McpShaped(Table(c, mainKey))
           found == scan_host_file(h, c)
<1>1. found = IF h.schema = "auto" /\ DOMAIN main = {} THEN McpShaped(Table(c, "servers")) ELSE main
  BY DEF scan_host_file
<1>2. \A t : /\ DOMAIN McpShaped(t) = {m \in DOMAIN t : t[m].run # Opaque}
             /\ \A m \in DOMAIN McpShaped(t) : McpShaped(t)[m] = t[m]
  BY DEF McpShaped, Restrict
<1>3. \A key \in DOMAIN c.sections : Table(c, key) = c.sections[key]
  BY DEF Table
<1>4. \A key : key \notin DOMAIN c.sections => DOMAIN Table(c, key) = {}
  BY NoRows DEF Table
<1>5. rk \in DOMAIN c.sections /\ n \in DOMAIN c.sections[rk] /\ n \in DOMAIN found
  OBVIOUS
<1>6. rk = IF h.schema = "toml" THEN "mcp_servers"
           ELSE IF h.schema = "auto" /\ "mcpServers" \notin DOMAIN c.sections
                       /\ "servers" \in DOMAIN c.sections THEN "servers"
           ELSE "mcpServers"
  BY DEF RewriteKey
<1>7. c.sections[rk][n] = found[n] \/ (h.schema = "auto" /\ rk = "mcpServers" /\ c.sections[rk][n].run = Opaque)
  <2> HIDE DEF rk, found
  <2>1. CASE rk = mainKey /\ ~(h.schema = "auto" /\ DOMAIN main = {})
    BY <1>1, <1>2, <1>3, <1>5, <2>1
  <2>2. CASE rk = mainKey /\ h.schema = "auto" /\ DOMAIN main = {}
    <3>1. rk = "mcpServers" /\ Table(c, mainKey) = c.sections[rk]
      BY <1>3, <1>5, <2>2
    <3>2. n \notin {m \in DOMAIN c.sections[rk] : c.sections[rk][m].run # Opaque}
      BY <1>2, <2>2, <3>1
    <3> QED
      BY <1>5, <2>2, <3>1, <3>2
  <2>3. CASE rk # mainKey
    <3>1. rk = "servers" /\ h.schema = "auto" /\ "mcpServers" \notin DOMAIN c.sections
      BY <1>6, <2>3
    <3>2. DOMAIN Table(c, "mcpServers") = {}
      BY <1>4, <3>1
    <3>3. DOMAIN main = {}
      BY <1>2, <3>1, <3>2
    <3>4. found = McpShaped(c.sections["servers"])
      BY <1>1, <1>3, <1>5, <3>1, <3>3
    <3> QED
      BY <1>2, <1>5, <3>1, <3>4
  <2> QED
    BY <2>1, <2>2, <2>3
<1> QED
  BY <1>7

\* The rewritten section has the old entries, and the proxy for the ticked ones.
LEMMA RewriteKeeps ==
  ASSUME NEW x, NEW ticked, Rewritable(x, ticked), NEW c,
         NEW p, p = [id |-> x.id, file |-> x.file, services |-> x.services, from |-> c,
                     to |-> rewrite_keep_others(x.host, c, x.services)]
  PROVE  KeepsOthers(p, ticked)
<1> DEFINE table == x.services
           rk == RewriteKey(x.host, c)
           found == scan_host_file(x.host, x.file)
           t == Over(Proxies(table), Table(c, rk))
           to == Put(c.sections, rk, t)
<1>1. /\ p.id = x.id /\ p.from = c /\ p.file = x.file /\ p.services = table /\ p.to.sections = to
      /\ x.host = Hosts[x.id] /\ x.id \in HostIds
  BY DEF rewrite_keep_others, InSection, Rewritable
<1>2. /\ DOMAIN to = DOMAIN c.sections \cup {rk} /\ to[rk] = t
      /\ \A key \in DOMAIN c.sections : key # rk => to[key] = c.sections[key]
  <2> HIDE DEF rk, t
  <2> QED
    BY DEF Put
<1>3. /\ DOMAIN t = DOMAIN table \cup DOMAIN Table(c, rk)
      /\ \A n \in DOMAIN table : t[n].run = Proxy
      /\ \A n \in DOMAIN Table(c, rk) : n \notin DOMAIN table => t[n] = Table(c, rk)[n]
  <2>1. DOMAIN Proxies(table) = DOMAIN table /\ \A n \in DOMAIN table : Proxies(table)[n].run = Proxy
    BY DEF Proxies, ProxyEntry, Entry
  <2> HIDE DEF table, rk
  <2> QED
    BY <2>1 DEF Over
<1>4. ASSUME NEW n \in DOMAIN table
      PROVE  /\ n \in DOMAIN found /\ table[n] = found[n]
             /\ \E j \in DOMAIN ticked : ticked[j].entry.run = table[n].run
  <2>1. n \in DOMAIN found /\ Matches(ticked, n, found[n]) /\ table[n] = found[n]
    BY DEF Rewritable, TickedOf, Restrict
  <2>2. PICK j \in DOMAIN ticked : Shape(ticked[j].entry) = Shape(found[n])
    BY <2>1 DEF Matches
  <2>3. Shape(ticked[j].entry)[1] = ticked[j].entry.run /\ Shape(found[n])[1] = found[n].run
    BY DEF Shape
  <2> QED
    BY <2>1, <2>2, <2>3
<1>5. ASSUME NEW n \in DOMAIN table, rk \in DOMAIN c.sections, n \in DOMAIN c.sections[rk]
      PROVE  MayReplace(p, rk, n)
  <2>1. CASE c = x.file
    <3>1. x.host.schema \in {"mcp", "auto", "toml"}
      BY <1>1, HostAssumption DEF HostIds
    <3>2. \/ c.sections[rk][n] = found[n]
          \/ x.host.schema = "auto" /\ rk = "mcpServers" /\ c.sections[rk][n].run = Opaque
      BY <1>4, <1>5, <2>1, <3>1, FoundInSection
    <3>3. c.sections[rk][n] = table[n] \/ (Hosts[x.id].schema = "auto" /\ rk = "mcpServers" /\ c.sections[rk][n].run = Opaque)
      BY <1>1, <1>4, <3>2
    <3> HIDE DEF rk, table, found, t, to
    <3> QED
      BY <1>1, <3>3 DEF MayReplace
  <2>2. CASE c # x.file
    BY <1>1, <2>2 DEF MayReplace
  <2> QED
    BY <2>1, <2>2
<1> SUFFICES ASSUME NEW key \in DOMAIN c.sections, NEW n \in DOMAIN c.sections[key]
             PROVE  /\ key \in DOMAIN to /\ n \in DOMAIN to[key]
                    /\ \/ to[key][n] = c.sections[key][n]
                       \/ /\ to[key][n].run = Proxy /\ n \in DOMAIN table
                          /\ \E j \in DOMAIN ticked : ticked[j].entry.run = table[n].run
                          /\ MayReplace(p, key, n)
  <2> HIDE DEF to, table
  <2> QED
    BY <1>1, <1>2 DEF KeepsOthers
<1>6. CASE key # rk
  <2> HIDE DEF rk, t, to, table
  <2> QED
    BY <1>2, <1>6
<1>7. CASE key = rk
  <2>1. Table(c, rk) = c.sections[key]
    BY <1>7 DEF Table
  <2> HIDE DEF to, t, found, rk, table
  <2>2. n \in DOMAIN to[key] /\ to[key] = t /\ key \in DOMAIN to
    BY <1>2, <1>3, <1>7, <2>1
  <2>3. CASE n \in DOMAIN table
    BY <1>3, <1>4, <1>5, <1>7, <2>2, <2>3
  <2>4. CASE n \notin DOMAIN table
    BY <1>3, <2>1, <2>2, <2>4
  <2> QED
    BY <2>3, <2>4
<1> QED
  BY <1>6, <1>7

\* The scans that rewrites are planned for.
LEMMA ScansPicked ==
  ASSUME SourceTypes
  PROVE  IsList(ScansToPlan) /\ \A i \in DOMAIN ScansToPlan : Rewritable(ScansToPlan[i], Ticked)
<1> DEFINE scans == selected_scans
           I == {i \in DOMAIN scans : scans[i].host.eligible /\ DOMAIN scans[i].services # {}}
<1>1. /\ IsList(scans)
      /\ \A i \in DOMAIN scans : \E h \in HostIds :
              /\ CanScan(h) /\ scans[i].host = Hosts[h] /\ scans[i].id = h /\ scans[i].file = files[h]
              /\ scans[i].services = TickedOf(scan_host_file(Hosts[h], files[h]), Ticked)
  BY SelectedMade
<1>2. ScansToPlan = Kept(scans, I)
  BY DEF ScansToPlan
<1> HIDE DEF scans
<1>3. IsList(Kept(scans, I)) /\ \A k \in DOMAIN Kept(scans, I) : \E i \in I : Kept(scans, I)[k] = scans[i]
  <2>1. I \subseteq DOMAIN scans
    OBVIOUS
  <2> HIDE DEF I
  <2> QED
    BY <1>1, <2>1, KeptList
<1>4. ASSUME NEW i \in I PROVE Rewritable(scans[i], Ticked)
  <2>1. PICK h \in HostIds :
              /\ CanScan(h) /\ scans[i].host = Hosts[h] /\ scans[i].id = h /\ scans[i].file = files[h]
              /\ scans[i].services = TickedOf(scan_host_file(Hosts[h], files[h]), Ticked)
    BY <1>1
  <2>2. scans[i].host.eligible /\ Readable(Hosts[h], files[h])
    BY <2>1 DEF CanScan
  <2> QED
    BY <2>1, <2>2 DEF Rewritable
<1> HIDE DEF I
<1> QED
  BY <1>2, <1>3, <1>4

\* The plan grows by one rewrite of a file that was read twice.
LEMMA PlanGrows ==
  ASSUME ScannedTypes, PlanTypes, PlanTouchesOnlyTicked, push_rewrite_action
  PROVE  \E p :
          /\ IsList(p) /\ \A i \in DOMAIN p : ReadTwice(p[i]) /\ KeepsOthers(p[i], Ticked)
          /\ IF Len(scanned) = 1 THEN Prompt(p) ELSE plan' = p /\ UNCHANGED <<pc, step>>
<1> DEFINE scan == Head(scanned)
           now  == files[scan.id]
           e == [id |-> scan.id, file |-> scan.file, services |-> scan.services, from |-> now,
                 to |-> rewrite_keep_others(scan.host, now, scan.services)]
           grown == scan.id \in DOMAIN files /\ now.valid
           p == IF grown THEN Append(plan, e) ELSE plan
<1>1. IF Len(scanned) = 1 THEN Prompt(p) ELSE plan' = p /\ UNCHANGED <<pc, step>>
  BY DEF push_rewrite_action
<1>2. IsList(plan) /\ \A i \in DOMAIN plan : ReadTwice(plan[i]) /\ KeepsOthers(plan[i], Ticked)
  BY DEF PlanTypes, PlanTouchesOnlyTicked, KeepsOthers
<1>3. Rewritable(scan, Ticked)
  <2>1. IsList(scanned) /\ scanned # <<>>
    BY DEF ScannedTypes, push_rewrite_action
  <2>2. Head(scanned) = scanned[1] /\ 1 \in DOMAIN scanned
    BY <2>1, ListPlaces
  <2> QED
    BY <2>2 DEF ScannedTypes
<1>4. ASSUME grown PROVE ReadTwice(e) /\ KeepsOthers(e, Ticked)
  <2> HIDE DEF scan
  <2>1. KeepsOthers(e, Ticked)
    BY <1>3, RewriteKeeps
  <2>2. e.id = scan.id /\ e.file = scan.file /\ e.from = now
    OBVIOUS
  <2> HIDE DEF e
  <2>3. ReadTwice(e)
    BY <1>3, <1>4, <2>2 DEF ReadTwice, Rewritable
  <2> QED
    BY <2>1, <2>3
<1> HIDE DEF e, grown
<1>5. IsList(p) /\ \A i \in DOMAIN p : ReadTwice(p[i]) /\ KeepsOthers(p[i], Ticked)
  <2>1. CASE grown
    BY <1>2, <1>4, <2>1, AddedList
  <2>2. CASE ~grown
    BY <1>2, <2>2
  <2> QED
    BY <2>1, <2>2
<1> HIDE DEF p
<1> QED
  BY <1>1, <1>5

\* The plan is made from the scans, file by file, and shrinks while it is carried
\* out; nothing is ticked or unticked meanwhile.
LEMMA StepPlan ==
  ASSUME ControlTypes, SourceTypes, ScannedTypes, PlanTypes, DangerDiscipline,
         PlanTouchesOnlyTicked, [WizardNext]_wizardVars
  PROVE  ScannedTypes' /\ PlanTypes' /\ DangerDiscipline' /\ PlanTouchesOnlyTicked'
<1> DEFINE Planning == {"confirm", "copy", "write"}
<1> USE DEF diskVars, appVars, runVars, boundVars, historyVars, wizardVars
<1>a. \A i \in DOMAIN plan : KeepsOthers(plan[i], Ticked)
  BY DEF PlanTouchesOnlyTicked, KeepsOthers
<1>b. ASSUME \A i \in DOMAIN plan' : KeepsOthers(plan'[i], Ticked') PROVE PlanTouchesOnlyTicked'
  BY <1>b DEF PlanTouchesOnlyTicked, KeepsOthers
<1>c. ASSUME services' = services PROVE Ticked' = Ticked
  BY <1>c DEF Ticked
<1>d. ASSUME pc' \in Planning => ~dry_run', PlanTypes' PROVE DangerDiscipline'
  BY <1>d DEF DangerDiscipline, PlanTypes, ReadTwice
<1>e. pc \in Planning => ~dry_run
  BY DEF DangerDiscipline
<1>n. ASSUME scanned' = <<>>, pc' # "plan" PROVE ScannedTypes'
  BY <1>n, NoRows DEF ScannedTypes
<1>0. ASSUME plan' = <<>>, scanned' = <<>>, pc' \notin Planning \cup {"plan"}
      PROVE  ScannedTypes' /\ PlanTypes' /\ DangerDiscipline' /\ PlanTouchesOnlyTicked'
  <2>1. DOMAIN plan' = {} /\ IsList(plan')
    BY <1>0, NoRows
  <2>2. PlanTouchesOnlyTicked'
    BY <1>b, <2>1
  <2>3. PlanTypes'
    BY <1>0, <2>1 DEF PlanTypes
  <2> QED
    BY <1>0, <1>d, <1>n, <2>2, <2>3
<1>1. ASSUME UNCHANGED <<plan, scanned, services, dry_run>>, pc' \in Planning <=> pc \in Planning,
             pc' = "plan" <=> pc = "plan"
      PROVE  ScannedTypes' /\ PlanTypes' /\ DangerDiscipline' /\ PlanTouchesOnlyTicked'
  <2>1. Ticked' = Ticked
    BY <1>1, <1>c
  <2>2. PlanTouchesOnlyTicked'
    BY <1>1, <1>a, <1>b, <2>1
  <2>3. PlanTypes'
    BY <1>1 DEF PlanTypes
  <2>4. ScannedTypes'
    BY <1>1, <2>1 DEF ScannedTypes
  <2> QED
    BY <1>1, <1>d, <1>e, <2>2, <2>3, <2>4
<1>2. /\ pc \in {"keys", "off", "generate"} => plan = <<>> /\ scanned = <<>>
      /\ pc \in Planning => scanned = <<>> /\ plan # <<>>
  BY DEF PlanTypes, ScannedTypes
<1>3. CASE Start \/ KeyQuitWizard \/ KeyStartTray \/ GenerateFails \/ CrashInRewrite
  <2>1. pc' \in {"keys", "off"} /\ scanned' = scanned
    BY <1>3 DEF Start, KeyQuitWizard, KeyStartTray, GenerateFails, CrashInRewrite, Ended, Still
  <2>2. \/ plan' = <<>> /\ pc \in Planning
        \/ plan' = plan /\ pc \in {"keys", "off", "generate"}
    BY <1>3 DEF Start, KeyQuitWizard, KeyStartTray, GenerateFails, CrashInRewrite, Still, At
  <2> QED
    BY <1>0, <1>2, <2>1, <2>2
<1>4. CASE \/ \E i \in 1..MaxSources : KeyToggleSource(i)
           \/ \E h \in (Defaults + 1)..Len(Hosts) : add_custom_source(h)
           \/ \E i \in DOMAIN services : KeyToggleService(i)
  BY <1>0, <1>2, <1>4 DEF KeyToggleSource, add_custom_source, KeyToggleService, Still, At
<1>5. CASE advance_to_step2 \/ KeyNext2 \/ KeyBack \/ KeyNext3
  BY <1>0, <1>2, <1>5 DEF advance_to_step2, KeyNext2, KeyBack, KeyNext3, Goto, Still, At
<1>6. CASE run_unified_generate \/ run_per_client_generate
  <2>1. pc = "keys" /\ plan' = plan /\ scanned' = scanned /\ pc' \in {"keys", "generate"}
    <3>1. CASE run_unified_generate
      BY <3>1 DEF run_unified_generate, Generate, ToStep5, Step5, Confirmed, At
    <3>2. CASE run_per_client_generate
      BY <3>2 DEF run_per_client_generate, Generate, ToStep5, Step5, Confirmed, At
    <3> QED
      BY <1>6, <3>1, <3>2
  <2> QED
    BY <1>0, <1>2, <2>1
<1>7. CASE GenerateNext
  BY <1>0, <1>2, <1>7 DEF GenerateNext, Step5
<1>8. CASE ConfirmNo
  BY <1>0, <1>2, <1>8 DEF ConfirmNo, Step5
<1>9. CASE ConfirmYes \/ CopyBackup
  BY <1>1, <1>9 DEF ConfirmYes, CopyBackup, Decided
<1>10. CASE RewriteFails \/ WriteRewrite
  <2>1. /\ pc \in {"copy", "write"} /\ plan' = Tail(plan) /\ UNCHANGED <<services, dry_run, scanned>>
        /\ IF Len(plan) = 1 THEN pc' = "keys" ELSE pc' = "copy"
    BY <1>10 DEF RewriteFails, WriteRewrite, Dropped, Step5
  <2>2. IsList(plan) /\ plan # <<>>
    BY <2>1 DEF PlanTypes
  <2>3. /\ IsList(Tail(plan)) /\ (Tail(plan) = <<>> <=> Len(plan) = 1)
        /\ \A i \in DOMAIN Tail(plan) : i + 1 \in DOMAIN plan /\ Tail(plan)[i] = plan[i + 1]
    BY <2>2, ListPlaces
  <2>4. Ticked' = Ticked
    BY <1>c, <2>1
  <2>5. \A i \in DOMAIN plan' : \E j \in DOMAIN plan : plan'[i] = plan[j]
    BY <2>1, <2>3
  <2>6. PlanTouchesOnlyTicked'
    BY <1>a, <1>b, <2>4, <2>5
  <2>7. PlanTypes'
    BY <2>1, <2>3, <2>5 DEF PlanTypes
  <2>8. ScannedTypes' /\ ~dry_run'
    BY <1>2, <1>e, <1>n, <2>1
  <2> QED
    BY <1>d, <2>6, <2>7, <2>8
<1>11. CASE run_danger_auto_configure
  <2> DEFINE scans == ScansToPlan
  <2>1. UNCHANGED <<services, dry_run>> /\ pc = "keys"
    BY <1>11 DEF run_danger_auto_configure, Decided, Confirmed, At
  <2>2. CASE ToStep5
    BY <1>0, <1>2, <2>1, <2>2 DEF ToStep5, Step5
  <2>3. CASE scans # <<>> /\ pc' = "plan" /\ scanned' = scans /\ plan' = plan
    <3>1. IsList(scans) /\ \A i \in DOMAIN scans : Rewritable(scans[i], Ticked)
      BY ScansPicked
    <3> HIDE DEF scans
    <3>2. Ticked' = Ticked
      BY <1>c, <2>1
    <3>3. ScannedTypes'
      BY <2>3, <3>1, <3>2 DEF ScannedTypes
    <3>4. plan' = <<>> /\ IsList(plan') /\ DOMAIN plan' = {}
      BY <1>2, <2>1, <2>3, NoRows
    <3>5. PlanTypes' /\ PlanTouchesOnlyTicked'
      BY <1>b, <2>3, <3>4 DEF PlanTypes
    <3> QED
      BY <1>d, <2>3, <3>3, <3>5
  <2> QED
    BY <1>11, <2>2, <2>3 DEF run_danger_auto_configure
<1>12. CASE push_rewrite_action
  <2>1. PICK p :
          /\ IsList(p) /\ \A i \in DOMAIN p : ReadTwice(p[i]) /\ KeepsOthers(p[i], Ticked)
          /\ IF Len(scanned) = 1 THEN Prompt(p) ELSE plan' = p /\ UNCHANGED <<pc, step>>
    BY <1>12, PlanGrows
  <2>2. pc = "plan" /\ scanned' = Tail(scanned) /\ UNCHANGED <<services, dry_run>>
    BY <1>12 DEF push_rewrite_action, Decided
  <2>3. /\ IsList(Tail(scanned)) /\ (Tail(scanned) = <<>> <=> Len(scanned) = 1)
        /\ \A i \in DOMAIN Tail(scanned) : i + 1 \in DOMAIN scanned /\ Tail(scanned)[i] = scanned[i + 1]
    BY <2>2, ListPlaces DEF ScannedTypes
  <2>4. Ticked' = Ticked
    BY <1>c, <2>2
  <2>5. CASE Len(scanned) = 1
    <3>1. scanned' = <<>>
      BY <2>2, <2>3, <2>5
    <3>2. CASE plan' = <<>> /\ pc' = "keys"
      BY <1>0, <3>1, <3>2
    <3>3. CASE p # <<>> /\ ~dry_run /\ pc' = "confirm" /\ plan' = p
      <4>1. PlanTypes'
        BY <2>1, <3>3 DEF PlanTypes
      <4>2. PlanTouchesOnlyTicked'
        BY <1>b, <2>1, <2>4, <3>3
      <4> QED
        BY <1>d, <1>n, <2>2, <3>1, <3>3, <4>1, <4>2
    <3> QED
      BY <2>1, <2>5, <3>2, <3>3 DEF Prompt, Step5
  <2>6. CASE Len(scanned) # 1
    <3>1. plan' = p /\ pc' = "plan"
      BY <2>1, <2>2, <2>6
    <3>2. PlanTypes'
      BY <2>1, <3>1 DEF PlanTypes
    <3>3. PlanTouchesOnlyTicked'
      BY <1>b, <2>1, <2>4, <3>1
    <3>4. \A i \in DOMAIN scanned' : Rewritable(scanned'[i], Ticked')
      BY <2>2, <2>3, <2>4 DEF ScannedTypes
    <3>5. ScannedTypes'
      BY <2>2, <2>3, <2>6, <3>1, <3>4 DEF ScannedTypes
    <3> QED
      BY <1>d, <3>1, <3>2, <3>3, <3>5
  <2> QED
    BY <2>5, <2>6
<1>13. CASE (\E h \in Shared : EditFile(h) \/ run_rewire_cmd(h)) \/ run_scan_cmd \/ UNCHANGED wizardVars
  BY <1>1, <1>13 DEF EditFile, run_rewire_cmd, run_scan_cmd, Outside
<1> QED
  BY <1>3, <1>4, <1>5, <1>6, <1>7, <1>8, <1>9, <1>10, <1>11, <1>12, <1>13 DEF WizardNext

(***************************************************************************)
(* The generated files.                                                    *)
(***************************************************************************)

\* The per-client strategy writes the daemon's file and a file for each kind.
LEMMA PerClientList ==
  ASSUME NEW scans, IsList(scans)
  PROVE  IsList(build_per_client_outputs(scans)) /\ build_per_client_outputs(scans) # <<>>
<1> DEFINE of(k) == merge_services(SelectSeq(scans, LAMBDA x : x.host.kind = k))
           I == {i \in DOMAIN scans : \A j \in 1..(i - 1) : scans[j].host.kind # scans[i].host.kind}
           first == Kept(scans, I)
           all == KindsOf(scans)
           J == {i \in DOMAIN all : of(all[i]) # <<>>}
           kinds == Kept(all, J)
           clients == [i \in DOMAIN kinds |-> Output(kinds[i], build_client(of(kinds[i])))]
           daemons == Output(config_toml, build_daemon_config(merge_services(scans)))
<1>1. IsList(first)
  <2>1. I \subseteq DOMAIN scans
    OBVIOUS
  <2> HIDE DEF I
  <2> QED
    BY <2>1, KeptList
<1>2. IsList(all)
  <2>1. all = [k \in DOMAIN first |-> first[k].host.kind]
    BY DEF KindsOf
  <2> HIDE DEF first, all
  <2>2. all = [k \in DOMAIN first |-> all[k]]
    BY <2>1
  <2> QED
    BY <1>1, <2>2, MappedList
<1>3. IsList(kinds)
  <2>1. J \subseteq DOMAIN all
    OBVIOUS
  <2> HIDE DEF J, all
  <2> QED
    BY <1>2, <2>1, KeptList
<1>4. build_per_client_outputs(scans) = <<daemons>> \o clients
  BY Zenon DEF build_per_client_outputs
<1> HIDE DEF kinds, daemons
<1>5. IsList(clients)
  <2>1. clients = [i \in DOMAIN kinds |-> clients[i]]
    OBVIOUS
  <2> HIDE DEF clients
  <2> QED
    BY <1>3, <2>1, MappedList
<1> HIDE DEF clients
<1>6. ASSUME NEW T, NEW s \in Seq(T), NEW x \in T
      PROVE  /\ IsList(<<x>> \o s) /\ <<x>> \o s # <<>>
  <2>1. <<x>> \o s \in Seq(T) /\ Len(<<x>> \o s) = Len(s) + 1 /\ Len(s) \in Nat
    OBVIOUS
  <2> DEFINE t == <<x>> \o s
  <2>2. t \in Seq(T) /\ Len(t) \in Nat /\ Len(t) # 0
    BY <2>1
  <2> HIDE DEF t
  <2>3. t = [i \in 1..Len(t) |-> t[i]] /\ t # <<>>
    BY <2>2
  <2>4. IsList(t)
    BY <2>2, <2>3, ListOf
  <2> QED
    BY <2>3, <2>4 DEF t
<1>7. IsList(<<daemons>> \o clients) /\ <<daemons>> \o clients # <<>>
  <2> DEFINE T == Range(clients) \cup {daemons}
  <2>1. clients \in Seq(T) /\ daemons \in T
    BY <1>5 DEF IsList
  <2> HIDE DEF T
  <2> QED
    BY <1>6, <2>1
<1> QED
  BY <1>4, <1>7

\* The unified strategy writes three files.
LEMMA UnifiedList ==
  ASSUME NEW a, NEW b, NEW c
  PROVE  /\ IsList(<<a, b, c>>) /\ <<a, b, c>> # <<>>
         /\ Head(<<a, b, c>>) = a /\ Tail(<<a, b, c>>) = <<b, c>> /\ Len(<<a, b, c>>) = 3
         /\ Head(<<b, c>>) = b /\ Tail(<<b, c>>) = <<c>> /\ Len(<<b, c>>) = 2
         /\ Head(<<c>>) = c /\ Len(<<c>>) = 1
<1>1. <<a, b, c>> \in Seq({a, b, c}) /\ <<a, b, c>> = [i \in 1..3 |-> <<a, b, c>>[i]]
  OBVIOUS
<1>2. IsList(<<a, b, c>>)
  BY <1>1, ListOf
<1>3. /\ <<a, b, c>> # <<>>
      /\ Head(<<a, b, c>>) = a /\ Tail(<<a, b, c>>) = <<b, c>> /\ Len(<<a, b, c>>) = 3
  OBVIOUS
<1>4. /\ Head(<<b, c>>) = b /\ Tail(<<b, c>>) = <<c>> /\ Len(<<b, c>>) = 2
      /\ Head(<<c>>) = c /\ Len(<<c>>) = 1
  OBVIOUS
<1> QED
  BY <1>2, <1>3, <1>4

\* The files yet to be generated.
LEMMA StepTodo ==
  ASSUME ControlTypes, SourceTypes, TodoTypes, [WizardNext]_wizardVars
  PROVE  TodoTypes'
<1> USE DEF diskVars, appVars, runVars, boundVars, historyVars, wizardVars
<1>0. ASSUME todo' = todo, pc' = "generate" <=> pc = "generate", written' = {} \/ UNCHANGED <<written, mux>>
      PROVE  TodoTypes'
  BY <1>0 DEF TodoTypes
<1>1. ASSUME todo' = <<>>, pc' # "generate", written' = {} PROVE TodoTypes'
  BY <1>1, NoRows DEF TodoTypes
<1>2. CASE Start \/ KeyQuitWizard \/ KeyStartTray \/ CrashInRewrite
  <2>1. todo' = todo /\ pc # "generate" /\ pc' # "generate"
    BY <1>2 DEF Start, KeyQuitWizard, KeyStartTray, CrashInRewrite, Ended, Still, At
  <2>2. written' = {} \/ UNCHANGED <<written, mux>>
    BY <1>2 DEF Start, KeyQuitWizard, KeyStartTray, CrashInRewrite, Ended
  <2> QED
    BY <1>0, <2>1, <2>2
<1>3. CASE GenerateFails
  BY <1>1, <1>3 DEF GenerateFails, Ended
<1>4. CASE \/ \E i \in 1..MaxSources : KeyToggleSource(i)
           \/ \E h \in (Defaults + 1)..Len(Hosts) : add_custom_source(h)
           \/ \E i \in DOMAIN services : KeyToggleService(i)
  BY <1>0, <1>4 DEF KeyToggleSource, add_custom_source, KeyToggleService, Still, At
<1>5. CASE advance_to_step2 \/ KeyNext2 \/ KeyBack \/ KeyNext3
  BY <1>0, <1>5 DEF advance_to_step2, KeyNext2, KeyBack, KeyNext3, Goto, Still, At
<1>6. ASSUME pc = "keys", Decided, ToStep5 PROVE TodoTypes'
  BY <1>0, <1>6 DEF Decided, ToStep5, Step5
<1>7. ASSUME NEW nothing, NEW outputs, IsList(outputs), outputs # <<>>, pc = "keys", Decided,
             Generate(nothing, outputs)
      PROVE  TodoTypes'
  <2>1. CASE ToStep5
    BY <1>6, <1>7, <2>1
  <2>2. CASE pc' = "generate" /\ todo' = outputs
    BY <1>7, <2>2 DEF TodoTypes, Decided
  <2> QED
    BY <1>7, <2>1, <2>2 DEF Generate
<1>8. CASE run_unified_generate
  <2>1. IsList(build_mux_outputs(Ticked)) /\ build_mux_outputs(Ticked) # <<>>
    BY UnifiedList DEF build_mux_outputs
  <2>2. pc = "keys" /\ Decided /\ Generate(Ticked = <<>>, build_mux_outputs(Ticked))
    BY <1>8 DEF run_unified_generate, Confirmed, At
  <2> QED
    BY <1>7, <2>1, <2>2
<1>9. CASE run_per_client_generate
  <2> DEFINE none == \A i \in DOMAIN selected_scans : DOMAIN selected_scans[i].services = {}
             outputs == build_per_client_outputs(selected_scans)
  <2>1. IsList(outputs) /\ outputs # <<>>
    BY SelectedMade, PerClientList
  <2>2. pc = "keys" /\ Decided /\ Generate(none, outputs)
    BY <1>9 DEF run_per_client_generate, Confirmed, At
  <2> HIDE DEF none, outputs
  <2> QED
    BY <1>7, <2>1, <2>2
<1>10. CASE run_danger_auto_configure
  <2>1. pc = "keys" /\ Decided /\ (ToStep5 \/ (pc' = "plan" /\ todo' = todo))
    BY <1>10 DEF run_danger_auto_configure, Confirmed, At
  <2>2. CASE pc' = "plan" /\ todo' = todo
    BY <1>0, <2>1, <2>2 DEF Decided
  <2> QED
    BY <1>6, <2>1, <2>2
<1>11. CASE GenerateNext
  <2>1. /\ pc = "generate" /\ mux' = Put(mux, Head(todo).file, Head(todo).table)
        /\ written' = written \cup {Head(todo).file} /\ todo' = Tail(todo)
        /\ IF Len(todo) = 1 THEN pc' = "keys" ELSE pc' = pc
    BY <1>11 DEF GenerateNext, Step5
  <2>2. IsList(todo) /\ todo # <<>>
    BY <2>1 DEF TodoTypes
  <2>3. IsList(Tail(todo)) /\ (Tail(todo) = <<>> <=> Len(todo) = 1)
    BY <2>2, ListPlaces
  <2>4. DOMAIN mux' = DOMAIN mux \cup {Head(todo).file}
    BY <2>1 DEF Put
  <2> QED
    BY <2>1, <2>3, <2>4 DEF TodoTypes
<1>12. CASE ConfirmYes \/ ConfirmNo \/ RewriteFails \/ WriteRewrite \/ CopyBackup
  <2>1. UNCHANGED <<todo, written, mux>> /\ pc # "generate" /\ pc' # "generate"
    BY <1>12 DEF ConfirmYes, ConfirmNo, RewriteFails, WriteRewrite, CopyBackup, Decided, Dropped, Step5
  <2> QED
    BY <1>0, <2>1
<1>p. CASE push_rewrite_action
  <2>1. UNCHANGED <<todo, written, mux>> /\ pc # "generate" /\ pc' # "generate"
    BY <1>p, PlanningKeeps
  <2> QED
    BY <1>0, <2>1
<1>13. CASE (\E h \in Shared : EditFile(h) \/ run_rewire_cmd(h)) \/ run_scan_cmd \/ UNCHANGED wizardVars
  BY <1>0, <1>13 DEF EditFile, run_rewire_cmd, run_scan_cmd, Outside
<1> QED
  BY <1>2, <1>3, <1>4, <1>5, <1>8, <1>9, <1>10, <1>11, <1>12, <1>p, <1>13 DEF WizardNext

\* The files of the unified strategy are written one after the other, all of them
\* from what is ticked.
LEMMA StepUnified ==
  ASSUME TodoTypes, UnifiedWritten, [WizardNext]_wizardVars
  PROVE  UnifiedWritten'
<1> USE DEF diskVars, appVars, runVars, boundVars, historyVars, wizardVars
<1> DEFINE D == build_daemon_config(Ticked)
           C == build_client(Ticked)
           o1 == Output(config_toml, D)
           o2 == Output(mcp_json, C)
           o3 == Output(mcp_toml, C)
<1>0. ASSUME pc # "generate", ~At(5) PROVE written = {}
  BY <1>0 DEF UnifiedWritten
<1>1. ASSUME written' = {}, pc' # "generate" PROVE UnifiedWritten'
  BY <1>1 DEF UnifiedWritten
<1>2. ASSUME services' = services PROVE (build_daemon_config(Ticked))' = D /\ (build_client(Ticked))' = C
  <2>1. Ticked' = Ticked
    BY <1>2 DEF Ticked
  <2> QED
    BY <2>1 DEF build_daemon_config, build_client, Names, Latest
<1>3. ASSUME UNCHANGED <<services, strategy, written, mux, todo, pc, step>> PROVE UnifiedWritten'
  <2>1. (build_daemon_config(Ticked))' = D /\ (build_client(Ticked))' = C
    BY <1>2, <1>3
  <2> HIDE DEF D, C
  <2> QED
    BY <1>3, <2>1 DEF UnifiedWritten, At, D, C
<1>4. CASE KeyQuitWizard \/ KeyStartTray \/ GenerateFails \/ CrashInRewrite
  BY <1>1, <1>4 DEF KeyQuitWizard, KeyStartTray, GenerateFails, CrashInRewrite, Ended
<1>5. CASE Start
  BY <1>0, <1>1, <1>5 DEF Start, At
<1>6. CASE \/ \E i \in 1..MaxSources : KeyToggleSource(i)
           \/ \E h \in (Defaults + 1)..Len(Hosts) : add_custom_source(h)
           \/ \E i \in DOMAIN services : KeyToggleService(i)
  <2>1. UNCHANGED <<written, pc>> /\ (At(1) \/ At(2))
    BY <1>6 DEF KeyToggleSource, add_custom_source, KeyToggleService
  <2>2. pc = "keys" /\ step # 5
    BY <2>1 DEF At
  <2> QED
    BY <1>0, <1>1, <2>1, <2>2 DEF At
<1>7. CASE advance_to_step2 \/ KeyNext2 \/ KeyBack \/ KeyNext3
  BY <1>0, <1>1, <1>7 DEF advance_to_step2, KeyNext2, KeyBack, KeyNext3, Goto, At
<1>8. CASE ConfirmYes \/ ConfirmNo \/ RewriteFails \/ WriteRewrite \/ CopyBackup
  <2>1. written' = written /\ pc \in {"confirm", "copy", "write"} /\ pc' # "generate"
    BY <1>8 DEF ConfirmYes, ConfirmNo, RewriteFails, WriteRewrite, CopyBackup, Decided, Dropped, Step5
  <2> QED
    BY <1>0, <1>1, <2>1 DEF At
<1>p. CASE push_rewrite_action
  <2>1. written' = written /\ pc = "plan" /\ pc' # "generate"
    BY <1>p, PlanningKeeps
  <2> QED
    BY <1>0, <1>1, <2>1 DEF At
<1>9. ASSUME NEW s, Confirmed(s), Decided
      PROVE  /\ written = {} /\ written' = {} /\ strategy = s
             /\ UNCHANGED <<services, strategy, mux>>
  BY <1>0, <1>9 DEF Confirmed, Decided, At
<1>10. CASE run_danger_auto_configure
  <2>1. Confirmed("rewire") /\ Decided /\ pc' # "generate"
    BY <1>10 DEF run_danger_auto_configure, ToStep5, Step5
  <2> QED
    BY <1>1, <1>9, <2>1
<1>11. CASE run_per_client_generate
  <2>1. Confirmed("perclient") /\ Decided
    BY <1>11 DEF run_per_client_generate
  <2>2. strategy' = "perclient" /\ written' = {}
    BY <1>9, <2>1
  <2> QED
    BY <2>2 DEF UnifiedWritten
<1>12. CASE run_unified_generate
  <2>1. Confirmed("unified") /\ Decided /\ Generate(Ticked = <<>>, build_mux_outputs(Ticked))
    BY <1>12 DEF run_unified_generate
  <2>2. written' = {} /\ UNCHANGED services
    BY <1>9, <2>1
  <2>3. CASE pc' # "generate"
    BY <1>1, <2>2, <2>3
  <2>4. CASE pc' = "generate"
    <3>1. todo' = build_mux_outputs(Ticked)
      BY <2>1, <2>4 DEF Generate, ToStep5, Step5
    <3>2. todo' = <<o1, o2, o3>>
      BY <3>1 DEF build_mux_outputs
    <3>3. (build_daemon_config(Ticked))' = D /\ (build_client(Ticked))' = C
      BY <1>2, <2>2
    <3> HIDE DEF D, C
    <3> QED
      BY <2>2, <2>4, <3>2, <3>3 DEF UnifiedWritten, At
  <2> QED
    BY <2>3, <2>4
<1>13. CASE GenerateNext
  <2>1. /\ pc = "generate" /\ mux' = Put(mux, Head(todo).file, Head(todo).table) /\ todo' = Tail(todo)
        /\ (Len(todo) = 1 => pc' = "keys" /\ step' = 5) /\ (Len(todo) # 1 => pc' = pc)
        /\ UNCHANGED <<services, strategy>>
    BY <1>13 DEF GenerateNext, Step5
  <2>2. (build_daemon_config(Ticked))' = D /\ (build_client(Ticked))' = C
    BY <1>2, <2>1
  <2>3. pc' = "generate" \/ At(5)'
    BY <2>1 DEF At
  <2>4. CASE strategy # "unified"
    BY <2>1, <2>3, <2>4 DEF UnifiedWritten
  <2>5. CASE strategy = "unified"
    <3>1. \/ todo = <<o1, o2, o3>>
          \/ todo = <<o2, o3>> /\ config_toml \in DOMAIN mux /\ mux[config_toml] = D
          \/ /\ todo = <<o3>> /\ {config_toml, mcp_json} \subseteq DOMAIN mux
             /\ mux[config_toml] = D /\ mux[mcp_json] = C
      BY <2>1, <2>5 DEF UnifiedWritten
    <3>2. /\ o1.file = config_toml /\ o1.table = D /\ o2.file = mcp_json /\ o2.table = C
          /\ o3.file = mcp_toml /\ o3.table = C
      BY DEF Output
    <3>3. config_toml # mcp_json /\ config_toml # mcp_toml /\ mcp_json # mcp_toml
      BY DEF config_toml, mcp_json, mcp_toml
    <3> HIDE DEF D, C, o1, o2, o3
    <3>4. /\ Head(<<o1, o2, o3>>) = o1 /\ Tail(<<o1, o2, o3>>) = <<o2, o3>> /\ Len(<<o1, o2, o3>>) = 3
          /\ Head(<<o2, o3>>) = o2 /\ Tail(<<o2, o3>>) = <<o3>> /\ Len(<<o2, o3>>) = 2
          /\ Head(<<o3>>) = o3 /\ Len(<<o3>>) = 1
      BY UnifiedList
    <3>5. /\ DOMAIN mux' = DOMAIN mux \cup {Head(todo).file} /\ mux'[Head(todo).file] = Head(todo).table
          /\ \A f \in DOMAIN mux : f # Head(todo).file => mux'[f] = mux[f]
      BY <2>1 DEF Put
    <3>6. CASE todo = <<o1, o2, o3>>
      <4>1. todo' = <<o2, o3>> /\ config_toml \in DOMAIN mux' /\ mux'[config_toml] = D /\ pc' = "generate"
        BY <2>1, <3>2, <3>4, <3>5, <3>6
      <4> QED
        BY <2>2, <4>1 DEF UnifiedWritten, At, o2, o3
    <3>7. CASE todo = <<o2, o3>> /\ config_toml \in DOMAIN mux /\ mux[config_toml] = D
      <4>1. /\ todo' = <<o3>> /\ {config_toml, mcp_json} \subseteq DOMAIN mux' /\ pc' = "generate"
            /\ mux'[config_toml] = D /\ mux'[mcp_json] = C
        BY <2>1, <3>2, <3>3, <3>4, <3>5, <3>7
      <4> QED
        BY <2>2, <4>1 DEF UnifiedWritten, At, o3
    <3>8. CASE /\ todo = <<o3>> /\ {config_toml, mcp_json} \subseteq DOMAIN mux
               /\ mux[config_toml] = D /\ mux[mcp_json] = C
      <4>1. /\ {config_toml, mcp_json, mcp_toml} \subseteq DOMAIN mux' /\ pc' = "keys" /\ step' = 5
            /\ mux'[config_toml] = D /\ mux'[mcp_json] = C /\ mux'[mcp_toml] = C
        BY <2>1, <3>2, <3>3, <3>4, <3>5, <3>8
      <4> QED
        BY <2>2, <4>1 DEF UnifiedWritten, At
    <3> QED
      BY <3>1, <3>6, <3>7, <3>8
  <2> QED
    BY <2>4, <2>5
<1>14. CASE (\E h \in Shared : EditFile(h) \/ run_rewire_cmd(h)) \/ run_scan_cmd \/ UNCHANGED wizardVars
  BY <1>3, <1>14 DEF EditFile, run_rewire_cmd, run_scan_cmd, Outside
<1> QED
  BY <1>4, <1>5, <1>6, <1>7, <1>8, <1>p, <1>10, <1>11, <1>12, <1>13, <1>14 DEF WizardNext

\* A wizard that starts has the default sources and has written nothing.
LEMMA WizardStarts == WizardInit => WizardIInv
<1> SUFFICES ASSUME WizardInit PROVE WizardIInv
  OBVIOUS
<1>1. DiskTypes
  BY NoRows, WizardAssumption DEF WizardInit, DiskTypes
<1>2. ControlTypes
  BY WizardAssumption DEF WizardInit, ControlTypes, Strategy
<1>3. SourceTypes
  BY NoRows, WizardAssumption DEF WizardInit, SourceTypes
<1>4. TodoTypes /\ ScannedTypes /\ PlanTypes /\ BackedUp /\ dry_run \in BOOLEAN
  BY NoRows DEF WizardInit, TodoTypes, ScannedTypes, PlanTypes, BackedUp
<1>5. Restorable
  BY DEF WizardInit, Restorable
<1>6. DangerDiscipline /\ PlanTouchesOnlyTicked
  BY NoRows DEF WizardInit, DangerDiscipline, PlanTouchesOnlyTicked
<1>7. UnifiedWritten
  BY DEF WizardInit, UnifiedWritten, At
<1> QED
  BY <1>1, <1>2, <1>3, <1>4, <1>5, <1>6, <1>7 DEF WizardIInv

\* Whatever the keys, the owners of the files, the subcommands, failed writes and
\* crashes do, the wizard stays within its inductive invariant (run_wizard,
\* write_mux_outputs, execute_plan).
THEOREM WizardCorrect == WizardSpec => []WizardIInv
<1>1. WizardInit => WizardIInv
  BY WizardStarts
<1>2. WizardIInv /\ [WizardNext]_wizardVars => WizardIInv'
  <2> SUFFICES ASSUME WizardIInv, [WizardNext]_wizardVars PROVE WizardIInv'
    OBVIOUS
  <2>1. DiskTypes' /\ ControlTypes' /\ dry_run' \in BOOLEAN /\ SourceTypes' /\ TodoTypes'
    BY StepDisk, StepControl, StepSources, StepTodo DEF WizardIInv
  <2>2. ScannedTypes' /\ PlanTypes' /\ DangerDiscipline' /\ PlanTouchesOnlyTicked'
    BY StepPlan DEF WizardIInv
  <2>3. Restorable' /\ BackedUp' /\ UnifiedWritten'
    BY StepRestorable, StepUnified DEF WizardIInv
  <2> QED
    BY <2>1, <2>2, <2>3 DEF WizardIInv
<1> QED
  BY <1>1, <1>2, PTL DEF WizardSpec

\* The state of the wizard and of the files it works on has its type: in
\* particular scans are there exactly while a plan is made, a plan is there from
\* the prompt on until it has been carried out, and outputs are there exactly
\* while files are generated (AppState, plan_danger_rewrite_for_scans,
\* execute_plan).
THEOREM WizardTyped == WizardSpec => []WizardTypeOK
<1>1. WizardIInv => WizardTypeOK
  <2> SUFFICES ASSUME WizardIInv PROVE WizardTypeOK
    OBVIOUS
  <2>1. (todo # <<>>) = (pc = "generate")
    BY DEF WizardIInv, TodoTypes
  <2>2. /\ (scanned # <<>>) = (pc = "plan")
        /\ pc # "plan" => (plan # <<>>) = (pc \in {"confirm", "copy", "write"})
    BY DEF WizardIInv, ScannedTypes, PlanTypes
  <2> QED
    BY <2>1, <2>2 DEF WizardIInv, WizardTypeOK, DiskTypes, ControlTypes, SourceTypes, TodoTypes
<1> QED
  BY <1>1, WizardCorrect, PTL

\* What its owner left in a client file is still in it, or in a timestamped
\* backup next to it (write_with_timestamped_backup, execute_plan).
THEOREM OwnersContentKept == WizardSpec => []Restorable
<1>1. WizardIInv => Restorable
  BY DEF WizardIInv
<1> QED
  BY <1>1, WizardCorrect, PTL

\* The auto-rewire prompts, and writes, only outside of a dry run, and only for
\* eligible files that parsed at the scan and again when the rewrite was planned
\* (run_danger_auto_configure, push_rewrite_action).
THEOREM DangerDisciplined == WizardSpec => []DangerDiscipline
<1>1. WizardIInv => DangerDiscipline
  BY DEF WizardIInv
<1> QED
  BY <1>1, WizardCorrect, PTL

\* A planned rewrite replaces, in the section it updates, entries under the names
\* of servers that the scan found and that run a ticked program, and leaves every
\* other entry of the file as it is.  The entry replaced is that very server,
\* unless the file has changed since the scan, or the servers were found in the
\* section "servers" and mcpServers has something else under the name
\* (rewrite_json_keep_other_keys, SelectedServiceFilter).
THEOREM OnlyTickedRewritten == WizardSpec => []PlanTouchesOnlyTicked
<1>1. WizardIInv => PlanTouchesOnlyTicked
  BY DEF WizardIInv
<1> QED
  BY <1>1, WizardCorrect, PTL

\* A service with a name of its own is the one the generated tables have under
\* that name.
LEMMA LatestUnique ==
  ASSUME NEW list, DOMAIN list \subseteq Int, NEW i \in DOMAIN list,
         \A j \in DOMAIN list \ {i} : list[j].name # list[i].name
  PROVE  Latest(list, list[i].name) = list[i]
<1> DEFINE n == list[i].name
           last == CHOOSE k \in DOMAIN list :
                        /\ list[k].name = n
                        /\ \A j \in DOMAIN list : list[j].name = n => j <= k
<1>1. \A j \in DOMAIN list : list[j].name = n => j = i
  OBVIOUS
<1>2. i <= i
  OBVIOUS
<1>3. \E k \in DOMAIN list : list[k].name = n /\ \A j \in DOMAIN list : list[j].name = n => j <= k
  BY <1>1, <1>2
<1>4. last \in DOMAIN list /\ list[last].name = n
  BY <1>3
<1>5. last = i
  BY <1>1, <1>4
<1> QED
  BY <1>5 DEF Latest

\* After the unified strategy every ticked service with a name of its own is
\* served: its entry in both client files leads to the socket at which the daemon
\* runs its program (run_unified_generate, write_mux_outputs).
THEOREM TickedReached == WizardSpec => []TickedServed
<1>1. UnifiedWritten => TickedServed
  <2> SUFFICES ASSUME UnifiedWritten, At(5), strategy = "unified", written # {},
                      NEW i \in DOMAIN Ticked, NEW f \in {mcp_json, mcp_toml},
                      \A j \in DOMAIN Ticked \ {i} : Ticked[j].name # Ticked[i].name
               PROVE  Ticked[i].name \in DOMAIN mux[f] /\ Reaches(mux[f][Ticked[i].name], Ticked[i].entry.run)
    BY DEF TickedServed
  <2> DEFINE n == Ticked[i].name
             d == mux[config_toml]
  <2>1. mux[config_toml] = build_daemon_config(Ticked) /\ mux[f] = build_client(Ticked)
    BY DEF UnifiedWritten
  <2>2. DOMAIN Ticked \subseteq Int
    BY DEF Ticked, Kept, Ascending, InOrder
  <2>3. Latest(Ticked, n) = Ticked[i]
    BY <2>2, LatestUnique
  <2>4. n \in Names(Ticked)
    BY DEF Names
  <2>5. n \in DOMAIN mux[f] /\ mux[f][n] = ProxyEntry(Ticked[i])
    BY <2>1, <2>3, <2>4 DEF build_client
  <2>6. n \in DOMAIN d /\ d[n] = Entry(Ticked[i].entry.run, Ticked[i].entry.to, Ticked[i].entry.cwd, SocketOf(Ticked[i]))
    BY <2>1, <2>3, <2>4 DEF build_daemon_config
  <2>7. mux[f][n].to = d[n].socket /\ d[n].run = Ticked[i].entry.run
    BY <2>5, <2>6 DEF ProxyEntry, Entry
  <2> QED
    BY <2>5, <2>6, <2>7 DEF Reaches
<1>2. WizardIInv => TickedServed
  BY <1>1 DEF WizardIInv
<1> QED
  BY <1>2, WizardCorrect, PTL

=============================================================================
