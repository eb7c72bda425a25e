----------------------------- MODULE HostConfig -----------------------------
(***************************************************************************)
(* What mux-agent computes from the configuration files of MCP clients:    *)
(* the servers it finds in them, how it merges them, the files it          *)
(* generates and the rewritten client files (scan.rs, mux_gen.rs,          *)
(* danger.rs, wizard/persist.rs).  Every operator is a pure function.      *)
(*                                                                         *)
(* A name is its base and its suffixes, each a number: a counter "-2" its  *)
(* value, "-from-<kind>" the number of the kind, which is above every      *)
(* counter.  The order of names is then that of their strings.             *)
(* An entry of a server table runs a program (command, args and env in     *)
(* one), or the proxy for a socket, in a directory; or it is nothing that  *)
(* RawServer can read.  The socket of a server is named by a server name.  *)
(***************************************************************************)
EXTENDS Tables, Sequences, SequencesExt, Functions

CONSTANTS
    Programs,      \* the upstream servers' commands
    Hosts,         \* HostFile records, the default sources in their order first
    FirstKind,     \* the kinds of clients are numbers from here on
    BackupTries    \* how many suffixes a backup name may get

ASSUME HostAssumption ==
    /\ FirstKind \in Nat /\ BackupTries \in Nat /\ Hosts \in Seq(Range(Hosts))
    /\ \A i \in DOMAIN Hosts :
        /\ Hosts[i].kind >= FirstKind /\ Hosts[i].eligible \in BOOLEAN
        /\ Hosts[i].schema \in {"mcp", "auto", "toml"}

NoName == <<>>

Proxy  == "proxy"
Opaque == "opaque"

Entry(run, to, cwd, socket) == [run |-> run, to |-> to, cwd |-> cwd, socket |-> socket]

\* A file that does not parse.
Unparsable == [valid |-> FALSE, sections |-> <<>>]

Before(m, n) ==
    \E k \in 0..Len(m) :
        /\ k < Len(n) /\ \A i \in 1..k : m[i] = n[i]
        /\ k = Len(m) \/ m[k + 1] < n[k + 1]

IsRenamed(n) == \E i \in 2..Len(n) : n[i] >= FirstKind

(***************************************************************************)
(* scan_host_file.                                                         *)
(***************************************************************************)

Table(c, key) == IF key \in DOMAIN c.sections THEN c.sections[key] ELSE <<>>

\* Entries that are no MCP server are skipped.
McpShaped(t) == Restrict(t, {n \in DOMAIN t : t[n].run # Opaque})

Readable(h, c) == c.valid /\ (h.schema = "mcp" => "mcpServers" \in DOMAIN c.sections)

scan_host_file(h, c) ==
    LET main == McpShaped(Table(c, IF h.schema = "toml" THEN "mcp_servers" ELSE "mcpServers"))
    IN  IF h.schema = "auto" /\ DOMAIN main = {} THEN McpShaped(Table(c, "servers")) ELSE main

(***************************************************************************)
(* merge_services.  A scan is a client file and the table of its servers.  *)
(***************************************************************************)

Service(n, e) == [name |-> n, entry |-> e]

\* The scans that have a server of that name, unlike any before it.
Variants(scans, n) ==
    SelectSeq([i \in DOMAIN scans |-> i], LAMBDA i :
        /\ n \in DOMAIN scans[i].services
        /\ \A j \in 1..(i - 1) :
            n \in DOMAIN scans[j].services => scans[j].services[n] # scans[i].services[n])

ensure_unique(used, n) ==
    IF n \notin used THEN n
    ELSE Append(n, CHOOSE k \in 2..(Cardinality(used) + 2) :
                    /\ Append(n, k) \notin used
                    /\ \A j \in 2..(k - 1) : Append(n, j) \in used)

\* A name with one variant is kept, and not looked up among the names in use;
\* the variants of any other get the kind of their client as a suffix.
MergeName(scans, acc, n) ==
    LET vs == Variants(scans, n)
        keep(a, m, i) == [out  |-> Append(a.out, Service(m, scans[i].services[n])),
                          used |-> a.used \cup {m}]
    IN  IF Len(vs) = 1 THEN keep(acc, n, vs[1])
        ELSE FoldLeft(LAMBDA a, i :
                        keep(a, ensure_unique(a.used, Append(n, scans[i].host.kind)), i),
                      acc, vs)

merge_services(scans) ==
    LET names == SetToSortSeq(UNION {DOMAIN scans[i].services : i \in DOMAIN scans}, Before)
    IN  FoldLeft(LAMBDA acc, n : MergeName(scans, acc, n), [out |-> <<>>, used |-> {}], names).out

(***************************************************************************)
(* The generated files.  A later server replaces one of the same name.     *)
(***************************************************************************)

SocketOf(s) == IF s.entry.socket # NoName THEN s.entry.socket ELSE s.name

Latest(services, n) ==
    services[CHOOSE i \in DOMAIN services :
                /\ services[i].name = n
                /\ \A j \in DOMAIN services : services[j].name = n => j <= i]

Names(services) == {services[i].name : i \in DOMAIN services}

\* build_daemon_config and build_manifest.
build_daemon_config(services) ==
    [n \in Names(services) |->
        LET s == Latest(services, n) IN Entry(s.entry.run, s.entry.to, s.entry.cwd, SocketOf(s))]

ProxyEntry(s) == Entry(Proxy, SocketOf(s), 0, NoName)

\* Faulty variant: the socket of a client entry is always named after the server.
build_client_by_name(services) ==
    [n \in Names(services) |-> Entry(Proxy, n, 0, NoName)]

\* build_client_json and build_client_toml.
build_client(services) ==
    [n \in Names(services) |-> ProxyEntry(Latest(services, n))]

\* Output files: the daemon's, the two of the unified strategy, and one for
\* each kind of client.
config_toml == 0
mcp_json == 1
mcp_toml == 2

Output(f, table) == [file |-> f, table |-> table]

\* write_mux_outputs writes them in this order.
build_mux_outputs(services) ==
    <<Output(config_toml, build_daemon_config(services)),
      Output(mcp_json, build_client(services)), Output(mcp_toml, build_client(services))>>

\* group_scans_by_kind: the kinds in the order of their first scan.
KindsOf(scans) ==
    LET first == Kept(scans, {i \in DOMAIN scans :
                    \A j \in 1..(i - 1) : scans[j].host.kind # scans[i].host.kind})
    IN  [k \in DOMAIN first |-> first[k].host.kind]

\* The daemon serves the merge of all clients, a client file has the merge of
\* its kind alone; a kind without servers gets no file.
build_per_client_outputs(scans) ==
    LET of(k) == merge_services(SelectSeq(scans, LAMBDA s : s.host.kind = k))
        kinds == Kept(KindsOf(scans), {i \in DOMAIN KindsOf(scans) : of(KindsOf(scans)[i]) # <<>>})
    IN  <<Output(config_toml, build_daemon_config(merge_services(scans)))>>
            \o [i \in DOMAIN kinds |-> Output(kinds[i], build_client(of(kinds[i])))]

(***************************************************************************)
(* The rewritten client files.                                             *)
(***************************************************************************)

Proxies(table) == [n \in DOMAIN table |-> ProxyEntry(Service(n, table[n]))]

InSection(c, key, table) == [valid |-> c.valid, sections |-> Put(c.sections, key, table)]

\* The section that push_rewrite_action updates.
RewriteKey(h, c) ==
    IF h.schema = "toml" THEN "mcp_servers"
    ELSE IF h.schema = "auto" /\ "mcpServers" \notin DOMAIN c.sections
                /\ "servers" \in DOMAIN c.sections THEN "servers"
    ELSE "mcpServers"

\* Faulty variant: the section is replaced by the rewritten servers alone.
rewrite_whole_section(h, c, table) == InSection(c, RewriteKey(h, c), Proxies(table))

\* rewrite_json_keep_other_keys and rewrite_toml_keep_other_tables.
rewrite_keep_others(h, c, table) ==
    LET key == RewriteKey(h, c)
    IN  InSection(c, key, Over(Proxies(table), Table(c, key)))

\* rewire_host: every server found is replaced, the directory is kept, and
\* what else the section had is dropped.  A TOML file that is not the Codex
\* CLI's gets a section its own parser does not read.
rewire_host(h, c) ==
    LET table == scan_host_file(h, c)
        key   == IF h.schema = "toml" /\ h.codex THEN "mcp_servers" ELSE "mcpServers"
    IN  InSection(c, key, [n \in DOMAIN table |->
                            [Proxies(table)[n] EXCEPT !.cwd = table[n].cwd]])

(***************************************************************************)
(* SelectedServiceFilter: a server of a file is ticked when a ticked       *)
(* service has its name and shape, or has been renamed and has its shape.  *)
(* The directory is no part of the shape.                                  *)
(***************************************************************************)

Shape(e) == <<e.run, e.to, e.socket>>

Matches(ticked, n, e) ==
    \E i \in DOMAIN ticked :
        /\ Shape(ticked[i].entry) = Shape(e)
        /\ ticked[i].name = n \/ IsRenamed(ticked[i].name)

retain(scan, ticked) ==
    LET t == scan.services
    IN  [scan EXCEPT !.services = Restrict(t, {n \in DOMAIN t : Matches(ticked, n, t[n])})]

\* write_with_timestamped_backup: the first free backup name of the second, or
\* none.
FreeStamps(taken, secs) ==
    {<<secs, k>> : k \in {k \in 0..BackupTries :
        <<secs, k>> \notin taken /\ \A j \in 0..(k - 1) : <<secs, j>> \in taken}}

=============================================================================
