---------------------------- MODULE DaemonStart -----------------------------
(***************************************************************************)
(* How a rust-mux daemon finds out which services to run, and takes and    *)
(* gives up their sockets: the configuration file and the command line     *)
(* (mux-agent/src/config.rs, bin/rust-mux.rs), run_mux_multi (lib.rs), and *)
(* both ends of run_mux_internal_with_status (runtime/mod.rs).  Several    *)
(* daemons may run; nothing tells one of another.                          *)
(*                                                                         *)
(* A setting is a name, or Unset.  A path stands for what expand_path      *)
(* makes of it.  limit stands for the settings resolved like max_restarts, *)
(* clients for max_active_clients and log_level, cwd for cwd and env.      *)
(***************************************************************************)
EXTENDS Naturals, FiniteSets

CONSTANTS
    Daemons,       \* processes, each started at most once
    CommandLines,  \* what they are started with
    ConfigFiles    \* what may be at the path of the configuration file

Unset == "unset"

ServerConfig == {"socket", "cmd", "args", "cwd", "clients", "limit", "tray"}

\* only and except have one set of names, or none.
CliOptions ==
    {"socket", "cmd", "args", "clients", "limit", "tray", "service", "only", "except"}

ASSUME DaemonAssumption ==
    /\ {"nobody", "stale"} \cap Daemons = {} /\ CommandLines # {}
    /\ \A c \in CommandLines : DOMAIN c = CliOptions /\ c.clients # Unset
    /\ \A f \in ConfigFiles :
        /\ f.state \in {"missing", "broken", "parsed"}
        /\ \A n \in DOMAIN f.servers : n # Unset /\ DOMAIN f.servers[n] = ServerConfig

VARIABLES
    process,    \* off, refused, up, stopping or down
    line,       \* the command line of each daemon
    read,       \* the configuration file as each daemon read it
    params,     \* the services of each daemon, resolved
    at,         \* where the task of each service is
    paths,      \* who listens at a path, if anyone
    contested   \* paths two tasks have used at one time (history)

daemonVars == <<process, line, read, params, at, paths, contested>>

Nobody == <<"nobody", "">>
Stale  == <<"stale", "">>

(***************************************************************************)
(* config.rs.                                                              *)
(***************************************************************************)

Or(a, b) == IF a # Unset THEN a ELSE b

\* No configuration, or one.  A file that does not parse is an error.
load_config(f) == IF f.state = "missing" THEN {} ELSE {f.servers}

NoConfig == [k \in ServerConfig |-> Unset]

service_cfg(c, config) ==
    IF config = {} THEN NoConfig ELSE (CHOOSE servers \in config : TRUE)[c.service]

\* The command line first and the file second, but for clients, and cwd, which
\* the command line has not.
resolve_params(c, config) ==
    LET s == service_cfg(c, config)
    IN  [socket  |-> Or(c.socket, s.socket), cmd |-> Or(c.cmd, s.cmd),
         args    |-> Or(c.args, s.args), cwd |-> s.cwd,
         clients |-> Or(s.clients, c.clients),
         limit   |-> Or(Or(c.limit, s.limit), "default"), tray |-> Or(c.tray, s.tray)]

\* The errors of resolve_params.
Resolves(c, config) ==
    /\ \A servers \in config : c.service \in DOMAIN servers
    /\ resolve_params(c, config).socket # Unset /\ resolve_params(c, config).cmd # Unset

\* Faulty variant: --except is forgotten.
SelectedOnly(c, servers) == {n \in DOMAIN servers : \A names \in c.only : n \in names}

\* The filters of resolve_params_multi.
Selected(c, servers) ==
    {n \in DOMAIN servers : /\ \A names \in c.only : n \in names
                            /\ \A names \in c.except : n \notin names}

\* SingleCli.
ForService(c, n) == [c EXCEPT !.service = n]

(***************************************************************************)
(* async_main.                                                             *)
(***************************************************************************)

is_multi_mode(c, config) ==
    config # {} /\ c.service = Unset /\ (c.only # {} \/ c.except # {} \/ c.socket = Unset)

ServicesOf(c, config) ==
    IF is_multi_mode(c, config) THEN UNION {Selected(c, servers) : servers \in config}
    ELSE {c.service}

Starts(c, f) ==
    /\ f.state # "broken"
    /\ ServicesOf(c, load_config(f)) # {}
    /\ \A n \in ServicesOf(c, load_config(f)) : Resolves(ForService(c, n), load_config(f))

resolve_params_multi(c, f) ==
    [n \in ServicesOf(c, load_config(f)) |-> resolve_params(ForService(c, n), load_config(f))]

(***************************************************************************)
(* The daemons.                                                            *)
(***************************************************************************)

Unread == [state |-> "missing", servers |-> <<>>]

\* Every path a service may get.
AllPaths ==
    ({c.socket : c \in CommandLines}
        \cup UNION {{f.servers[n].socket : n \in DOMAIN f.servers} : f \in ConfigFiles}) \ {Unset}

DaemonInit ==
    /\ process = [d \in Daemons |-> "off"]
    /\ line = [d \in Daemons |-> CHOOSE c \in CommandLines : TRUE]
    /\ read = [d \in Daemons |-> Unread]
    /\ params = [d \in Daemons |-> <<>>] /\ at = [d \in Daemons |-> <<>>]
    /\ paths = [p \in AllPaths |-> Nobody] /\ contested = {}

Active(d, n) == at[d][n] \in {"clear", "bind", "serve"}

ActivePaths == UNION {{params[d][n].socket : n \in {m \in DOMAIN at[d] : Active(d, m)}} : d \in Daemons}

\* The paths of some services that are in use, or wanted by two of them.
Contests(ps) ==
    {ps[n].socket : n \in {m \in DOMAIN ps :
        \/ ps[m].socket \in ActivePaths
        \/ \E k \in DOMAIN ps \ {m} : ps[k].socket = ps[m].socket}}

Launch(d, c, f) ==
    /\ process[d] = "off"
    /\ \/ /\ Starts(c, f)
          /\ LET ps == resolve_params_multi(c, f)
             IN  /\ params' = [params EXCEPT ![d] = ps]
                 /\ at' = [at EXCEPT ![d] = [n \in DOMAIN ps |-> "clear"]]
                 /\ contested' = contested \cup Contests(ps)
          /\ process' = [process EXCEPT ![d] = "up"]
          /\ line' = [line EXCEPT ![d] = c] /\ read' = [read EXCEPT ![d] = f]
       \/ /\ ~Starts(c, f) /\ process' = [process EXCEPT ![d] = "refused"]
          /\ UNCHANGED <<line, read, params, at, contested>>
    /\ UNCHANGED paths

Goto(d, n, to) == at' = [at EXCEPT ![d][n] = to]

tasking == UNCHANGED <<process, line, read, params, contested>>

\* Faulty variant: what is at the path stays there.
ClearPathKeeps(d, n) ==
    at[d][n] = "clear" /\ Goto(d, n, "bind") /\ UNCHANGED paths /\ tasking

\* The directory is made and the path removed, whoever listens there.
ClearPath(d, n) ==
    /\ at[d][n] = "clear"
    /\ \/ Goto(d, n, "bind") /\ paths' = [paths EXCEPT ![params[d][n].socket] = Nobody]
       \/ Goto(d, n, "no directory") /\ UNCHANGED paths
    /\ tasking

\* bind refuses a path that exists.  The task ends; other services of the
\* daemon go on, and run_mux_multi does not look before the end.
BindPath(d, n) ==
    /\ at[d][n] = "bind"
    /\ LET p == params[d][n].socket
       IN  IF paths[p] = Nobody
           THEN Goto(d, n, "serve") /\ paths' = [paths EXCEPT ![p] = <<d, n>>]
           ELSE Goto(d, n, "not bound") /\ UNCHANGED paths
    /\ tasking

\* The token is cancelled: each task leaves its loop and removes its path,
\* whoever listens there by then.
UnlinkPath(d, n) ==
    /\ process[d] = "stopping" /\ at[d][n] = "serve"
    /\ Goto(d, n, "ended") /\ paths' = [paths EXCEPT ![params[d][n].socket] = Nobody]
    /\ tasking

\* Ctrl+C, which only run_mux_multi listens to, or Quit in the tray of a service.
Stop(d) ==
    /\ process[d] = "up"
    /\ is_multi_mode(line[d], load_config(read[d])) \/ \E n \in DOMAIN at[d] : params[d][n].tray # Unset
    /\ process' = [process EXCEPT ![d] = "stopping"]
    /\ UNCHANGED <<line, read, params, at, paths, contested>>

\* Killed: the paths it listens at are left behind.
Kill(d) ==
    /\ process[d] \in {"up", "stopping"} /\ process' = [process EXCEPT ![d] = "down"]
    /\ at' = [at EXCEPT ![d] = [n \in DOMAIN @ |-> "ended"]]
    /\ paths' = [p \in AllPaths |-> IF paths[p][1] = d THEN Stale ELSE paths[p]]
    /\ UNCHANGED <<line, read, params, contested>>

DaemonNext ==
    \E d \in Daemons :
        \/ \E c \in CommandLines, f \in ConfigFiles : Launch(d, c, f)
        \/ \E n \in DOMAIN at[d] : ClearPath(d, n) \/ BindPath(d, n) \/ UnlinkPath(d, n)
        \/ Stop(d) \/ Kill(d)

DaemonSpec == DaemonInit /\ [][DaemonNext]_daemonVars

(***************************************************************************)
(* Properties.                                                             *)
(***************************************************************************)

DaemonTypeOK ==
    /\ process \in [Daemons -> {"off", "refused", "up", "stopping", "down"}]
    /\ line \in [Daemons -> CommandLines] /\ read \in [Daemons -> ConfigFiles \cup {Unread}]
    /\ \A d \in Daemons :
        /\ DOMAIN at[d] = DOMAIN params[d]
        /\ \A n \in DOMAIN at[d] :
            /\ at[d][n] \in {"clear", "bind", "serve", "no directory", "not bound", "ended"}
            /\ params[d][n].socket \in AllPaths
    /\ \A p \in AllPaths : paths[p] \in {Nobody, Stale} \/ paths[p][2] \in DOMAIN at[paths[p][1]]
    /\ contested \subseteq AllPaths

\* A service gets its socket and is the one its clients reach there, whatever
\* a killed daemon left behind and however the services start and stop, unless
\* two of them have used the path at one time: a second daemon takes the path
\* of the first, which removes that of the second when it stops
\* (run_mux_internal_with_status).
ServiceReachable ==
    \A d \in Daemons : \A n \in DOMAIN at[d] :
        params[d][n].socket \notin contested =>
            /\ at[d][n] # "not bound"
            /\ at[d][n] = "serve" => paths[params[d][n].socket] = <<d, n>>

\* At the socket of an entry of its file, a daemon that was started with
\* neither --socket nor --cmd runs the command of that entry, and only if its
\* filters let it, or --service names it, which passes them (async_main).  Of
\* entries with one socket nothing is said: the one let through has it
\* (resolve_params_multi).
ConfiguredReached ==
    \A d \in Daemons : line[d].socket = Unset /\ line[d].cmd = Unset =>
        \A m \in DOMAIN read[d].servers :
            LET s == read[d].servers[m]
            IN  /\ s.socket \in AllPaths /\ paths[s.socket][1] = d
                /\ \A k \in DOMAIN read[d].servers \ {m} : read[d].servers[k].socket # s.socket
                =>  /\ params[d][paths[s.socket][2]].cmd = s.cmd
                    /\ \/ line[d].service = m
                       \/ /\ line[d].service = Unset
                          /\ \A names \in line[d].only : m \in names
                          /\ \A names \in line[d].except : m \notin names

=============================================================================
