------------------------------ MODULE MCWizard ------------------------------
(***************************************************************************)
(* An instance of Wizard for TLC: Claude Code, the Codex CLI and a custom  *)
(* file.  Claude and Codex have a server of one name that runs different   *)
(* programs, Codex at a socket of its own; Claude also has an entry that   *)
(* is no server.                                                           *)
(***************************************************************************)
EXTENDS Wizard

MCHosts ==
    <<[kind |-> 10, schema |-> "mcp", eligible |-> TRUE, codex |-> FALSE],
      [kind |-> 11, schema |-> "toml", eligible |-> TRUE, codex |-> TRUE],
      [kind |-> 12, schema |-> "auto", eligible |-> TRUE, codex |-> FALSE]>>

Upstream(p) == Entry(p, NoName, 0, NoName)

In(key, table) == [valid |-> TRUE, sections |-> (key :> table)]

Other == Entry("u2", NoName, 0, <<3>>)

Claude == In("mcpServers", (<<1>> :> Upstream("u1")) @@ (<<2>> :> Upstream(Opaque)))
Codex  == In("mcp_servers", <<1>> :> Other)

\* mcpServers without a server, so that servers is read; one entry of mcpServers
\* has the name of a server.
Custom == [valid |-> TRUE, sections |->
            ("mcpServers" :> [n \in {<<1>>, <<2>>} |-> Upstream(Opaque)])
            @@ ("servers" :> (<<1>> :> Other))]

MCPresent  == (1 :> Claude) @@ (2 :> Codex) @@ (3 :> Custom)
MCContents == {In("mcpServers", <<1>> :> Upstream("u2"))}
MCBuiltIn  == <<>>
MCRunning  == <<Service(<<4>>, Upstream("u2"))>>

=============================================================================
