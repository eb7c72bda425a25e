--------------------------- MODULE ControlSocket ----------------------------
(***************************************************************************)
(* The daemon's control socket (mux-agent/src/ipc/server.rs, handlers.rs)  *)
(* and its clients: the subscribers of the tray (tray-agent/src/           *)
(* ipc_client.rs), of the cockpit (tui-agent/src/mux.rs) and of the macOS  *)
(* shell (shell-agent/ffi/src/lib.rs), and the one-shot commands of the    *)
(* tray's menu.  Every service of a daemon starts its own listener on the  *)
(* same path.  Only the events of Observed are followed.                   *)
(***************************************************************************)
EXTENDS StatusPublish

CONSTANTS
    Services,        \* the services of the daemon
    Observed,        \* the one whose events are followed
    Clients,         \* which of tray, cockpit, shell and menu there are
    MAX_CONCURRENT,  \* connections of one listener
    Capacity,        \* of the broadcast channel
    MaxAttempts,     \* after which a subscriber gives up
    MaxCrashes       \* bound: ends of the daemon

ASSUME ControlAssumption ==
    /\ Observed \in Services /\ {"none", "stale"} \cap Services = {}
    /\ Clients \subseteq {"tray", "cockpit", "shell", "menu"}
    /\ MAX_CONCURRENT \in Nat \ {0} /\ Capacity \in Nat \ {0}
    /\ MaxAttempts \in Nat \ {0} /\ MaxCrashes \in Nat

VARIABLES
    sock,      \* the file at the path: none, stale, or the service listening on it
    start,     \* where each service's run_server is
    cl,        \* where each client is
    attempts,  \* failed attempts of each client
    via,       \* the listener each connection was made to
    conn,      \* where the daemon is with each connection
    cursor,    \* the next event of each subscription
    told,      \* what the user was told of the last menu command
    crashes

socketVars  == <<sock, start>>
clientVars  == <<cl, attempts, told>>
serverVars  == <<via, conn, cursor>>
controlVars == <<sock, start, cl, attempts, via, conn, cursor, told, crashes>>

\* A socket file of an earlier daemon may be there: no daemon removes its own.
\* A client runs or does not.
ControlInit ==
    /\ sock \in {"none", "stale"} /\ start = [s \in Services |-> "check"]
    /\ cl \in [Clients -> {"down", "quit"}] /\ attempts = [c \in Clients |-> 0]
    /\ via = [c \in Clients |-> Observed] /\ conn = [c \in Clients |-> "none"]
    /\ cursor = [c \in Clients |-> 1] /\ told = "nothing" /\ crashes = 0

(***************************************************************************)
(* run_server, up to its loop.                                             *)
(***************************************************************************)

starting == UNCHANGED <<clientVars, serverVars, crashes, publishVars>>

\* Faulty variant: what is at the path is left there.
CheckPathKeeps(s) ==
    /\ start[s] = "check" /\ start' = [start EXCEPT ![s] = "bind"]
    /\ UNCHANGED sock /\ starting

CheckPath(s) ==
    /\ start[s] = "check"
    /\ start' = [start EXCEPT ![s] = IF sock = "none" THEN "bind" ELSE "remove"]
    /\ UNCHANGED sock /\ starting

RemovePath(s) ==
    /\ start[s] = "remove" /\ start' = [start EXCEPT ![s] = "bind"]
    /\ sock' = "none" /\ starting

\* bind refuses a path that exists, and run_server ends.
Bind(s) ==
    /\ start[s] = "bind"
    /\ \/ sock = "none" /\ sock' = s /\ start' = [start EXCEPT ![s] = "bound"]
       \/ sock # "none" /\ start' = [start EXCEPT ![s] = "refused"] /\ UNCHANGED sock
    /\ starting

Listen == \E s \in Services : CheckPath(s) \/ RemovePath(s) \/ Bind(s)

(***************************************************************************)
(* The clients.                                                            *)
(***************************************************************************)

Reachable == sock \in Services

\* What a client does after a failure: the menu tells the user; the shell does
\* not try again; the others do, after a pause, until they have had enough.
Fail(c, n) ==
    /\ attempts' = [attempts EXCEPT ![c] = n]
    /\ cl' = [cl EXCEPT ![c] = CASE c = "menu" -> "down"
                                 [] c = "shell" -> "gave up"
                                 [] OTHER -> IF n >= MaxAttempts THEN "gave up" ELSE "down"]
    /\ told' = IF c = "menu" THEN "failed" ELSE told

ConnectFails(c) ==
    /\ cl[c] = "down" /\ ~Reachable
    /\ Fail(c, IF c \in {"tray", "cockpit"} THEN attempts[c] + 1 ELSE 0)
    /\ UNCHANGED <<socketVars, serverVars, crashes, publishVars>>

\* Faulty variant: a connection is a success, also for the tray.
ConnectResets(c) ==
    /\ cl[c] = "down" /\ Reachable /\ conn[c] \in {"none", "closed"}
    /\ cl' = [cl EXCEPT ![c] = "open"] /\ via' = [via EXCEPT ![c] = sock]
    /\ conn' = [conn EXCEPT ![c] = "backlog"]
    /\ attempts' = [attempts EXCEPT ![c] = 0]
    /\ UNCHANGED <<told, cursor, socketVars, crashes, publishVars>>

\* Connect, and write the command (one menu command at a time).  The cockpit drops the write half of its
\* stream at once, which ends that direction; it counts from zero again.
Connect(c) ==
    /\ cl[c] = "down" /\ Reachable /\ conn[c] \in {"none", "closed"}
    /\ cl' = [cl EXCEPT ![c] = IF c = "cockpit" THEN "half closed" ELSE "open"]
    /\ via' = [via EXCEPT ![c] = sock] /\ conn' = [conn EXCEPT ![c] = "backlog"]
    /\ attempts' = [attempts EXCEPT ![c] = IF c = "cockpit" THEN 0 ELSE @]
    /\ told' = IF c = "menu" THEN "nothing" ELSE told
    /\ UNCHANGED <<cursor, socketVars, crashes, publishVars>>

\* The end of the stream: subscribe_once always ends in an error; the cockpit
\* connects again at once; a menu command without an answer has failed.
SeeClose(c) ==
    /\ cl[c] \in {"open", "half closed"} /\ conn[c] = "closed"
    /\ Fail(c, IF c = "tray" THEN attempts[c] + 1 ELSE 0)
    /\ conn' = [conn EXCEPT ![c] = "none"]
    /\ UNCHANGED <<via, cursor, socketVars, crashes, publishVars>>

\* The user quits the tray: Shutdown is sent without waiting, and not
\* implemented; the process ends and its connection with it.
TrayQuits ==
    /\ "tray" \in Clients /\ cl["tray"] \in {"down", "open"}
    /\ cl' = [cl EXCEPT !["tray"] = "quit"]
    /\ UNCHANGED <<attempts, told, serverVars, socketVars, crashes, publishVars>>

(***************************************************************************)
(* The daemon's end of a connection.                                       *)
(***************************************************************************)

Goes(c, to) == conn' = [conn EXCEPT ![c] = to]

serving == UNCHANGED <<via, socketVars, crashes, publishVars>>

\* The connections that hold a permit of a listener.
Permits(s) == {c \in Clients : via[c] = s /\ conn[c] \notin {"none", "backlog", "closed"}}

\* Faulty variant: a connection waits for a permit.
AcceptWaits(c) ==
    /\ conn[c] = "backlog" /\ Cardinality(Permits(via[c])) < MAX_CONCURRENT
    /\ Goes(c, "commands")
    /\ UNCHANGED <<clientVars, cursor>> /\ serving

\* accept and try_acquire_owned: no permit, no connection.
Accept(c) ==
    /\ conn[c] = "backlog"
    /\ Goes(c, IF Cardinality(Permits(via[c])) < MAX_CONCURRENT THEN "commands" ELSE "closed")
    /\ UNCHANGED <<clientVars, cursor>> /\ serving

\* handle_command and its response.  A menu command ends with the answer:
\* status, routes, drift, or Unimplemented, which is told as sent.
HandleCommand(c) ==
    /\ conn[c] = "commands"
    /\ IF c = "menu"
       THEN /\ Goes(c, "drain") /\ cl' = [cl EXCEPT ![c] = "down"]
            /\ told' \in {"answer", "restart sent"} /\ UNCHANGED attempts
       ELSE Goes(c, "answered") /\ UNCHANGED clientVars
    /\ UNCHANGED cursor /\ serving

\* tx.subscribe: after the answer, so what is sent in between is not seen.
SubscribeRx(c) ==
    /\ conn[c] = "answered" /\ Goes(c, "subscribed")
    /\ cursor' = [cursor EXCEPT ![c] = Len(log) + 1]
    /\ UNCHANGED clientVars /\ serving

Lag(c) == Len(log) + 1 - cursor[c] > Capacity

Live(c) == cl[c] \in {"open", "half closed"}

\* Faulty variant: an event is passed on when the next one comes.
RecvEventLate(c) ==
    /\ conn[c] = "subscribed" /\ via[c] = Observed /\ cursor[c] < Len(log) /\ ~Lag(c)
    /\ cursor' = [cursor EXCEPT ![c] = @ + 1]
    /\ IF Live(c) THEN UNCHANGED conn ELSE Goes(c, "closed")
    /\ UNCHANGED clientVars /\ serving

\* An event is passed on; when the client is gone the connection ends.
RecvEvent(c) ==
    /\ conn[c] = "subscribed" /\ via[c] = Observed /\ cursor[c] <= Len(log) /\ ~Lag(c)
    /\ cursor' = [cursor EXCEPT ![c] = @ + 1]
    /\ IF Live(c) THEN UNCHANGED conn ELSE Goes(c, "closed")
    /\ UNCHANGED clientVars /\ serving

\* The receiver lagged: Err does not match Ok(event), the arm is disabled and
\* the select waits for the client to write, which no subscriber does.
RecvLagged(c) ==
    /\ conn[c] = "subscribed" /\ via[c] = Observed /\ Lag(c)
    /\ Goes(c, "stalled") /\ cursor' = [cursor EXCEPT ![c] = Len(log) + 1 - Capacity]
    /\ UNCHANGED clientVars /\ serving

\* The client's direction has ended: out of the loop, and out of the handler.
ReadEof(c) ==
    /\ conn[c] \in {"subscribed", "stalled", "drain"} /\ cl[c] # "open"
    /\ Goes(c, "closed")
    /\ UNCHANGED <<clientVars, cursor>> /\ serving

Serve(c) == Accept(c) \/ HandleCommand(c) \/ SubscribeRx(c) \/ RecvEvent(c) \/ RecvLagged(c) \/ ReadEof(c)

\* The daemon ends and is started again.  Its connections end, the path stays.
Crash ==
    /\ crashes < MaxCrashes /\ crashes' = crashes + 1
    /\ sock' = (IF Reachable THEN "stale" ELSE sock)
    /\ start' = [s \in Services |-> "check"]
    /\ conn' = [c \in Clients |-> IF conn[c] = "none" THEN "none" ELSE "closed"]
    /\ PublishRestart
    /\ UNCHANGED <<clientVars, via, cursor>>

ControlNext ==
    \/ PublishNext /\ UNCHANGED controlVars
    \/ Listen \/ Crash \/ TrayQuits
    \/ \E c \in Clients : Connect(c) \/ ConnectFails(c) \/ SeeClose(c) \/ Serve(c)

ControlSpec == PublishInit /\ ControlInit /\ [][ControlNext]_<<publishVars, controlVars>>

(***************************************************************************)
(* Fairness.  Every task of the daemon goes on, and so does every client;  *)
(* only the menu is used at the user's pleasure.                           *)
(***************************************************************************)

Retry(c) == Connect(c) \/ ConnectFails(c)

\* The listener of a path that names one is bound; nobody binds twice.
ControlTypeOK ==
    /\ PublishTypeOK
    /\ sock \in {"none", "stale"} \cup {s \in Services : start[s] = "bound"}
    /\ start \in [Services -> {"check", "remove", "bind", "bound", "refused"}]
    /\ \A c \in Clients :
        /\ cl[c] \in {"down", "open", "half closed", "gave up", "quit"}
        /\ attempts[c] \in 0..MaxAttempts /\ via[c] \in Services
        /\ conn[c] \in {"none", "backlog", "commands", "answered", "subscribed", "stalled", "drain", "closed"}
        /\ cursor[c] \in 1..MaxVersions + 1
        /\ cl[c] \in {"open", "half closed"} => conn[c] # "none"
    /\ \A s \in Services : Cardinality(Permits(s)) <= MAX_CONCURRENT
    /\ told \in {"nothing", "failed", "answer", "restart sent"} /\ crashes \in 0..MaxCrashes

\* However the services of a daemon race for the path, and whatever an earlier
\* daemon left there, one of them listens on it once they have all started
\* (run_server: check, remove and bind are three steps).
ControlReachable ==
    (\A s \in Services : start[s] \in {"bound", "refused"}) => Reachable

\* The tray gets every event sent while it is subscribed, the last one too,
\* unless it lags by more than the channel holds (handle_connection).
TrayCatchesUp ==
    \A i \in 1..MaxVersions :
        (conn["tray"] = "subscribed" /\ via["tray"] = Observed /\ cursor["tray"] <= i /\ i <= Len(log))
            ~> (cursor["tray"] > i \/ conn["tray"] # "subscribed")

\* The tray does not stay between the two: it gets its subscription or gives up
\* and shows the failure, also when the daemon is full and accepts it only to
\* drop it (subscribe_loop).
TraySettles ==
    (cl["tray"] = "down") ~> (conn["tray"] = "subscribed" \/ cl["tray"] \in {"gave up", "quit"})

\* A menu command comes to an end, also when subscribers hold every permit
\* (run_server, send_command).
MenuSettles == (cl["menu"] = "open") ~> (cl["menu"] = "down")

=============================================================================
