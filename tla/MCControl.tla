----------------------------- MODULE MCControl ------------------------------
(***************************************************************************)
(* An instance of ControlSocket, StdioProxy and DaemonStart for TLC.  They *)
(* share nothing, so a behaviour is one of a proxy, one of the daemons and *)
(* their service sockets, or one inside a daemon.  Of the last, it shows   *)
(* the publishing tasks and the status file, or the services that start    *)
(* their control sockets, or the clients of one listener and one task.     *)
(***************************************************************************)
EXTENDS ControlSocket, StdioProxy, DaemonStart

VARIABLE scene

\* A file with two services, one of which has the tray, and a daemon started on
\* all of them, on some, on one, with a socket for all, or without the file.
Plain == [socket |-> Unset, cmd |-> Unset, args |-> Unset, clients |-> "5", limit |-> Unset,
          tray |-> Unset, service |-> Unset, only |-> {}, except |-> {}]

MCCommandLines ==
    {Plain, [Plain EXCEPT !.except = {{"a"}}], [Plain EXCEPT !.service = "a", !.limit = "low", !.only = {{"b"}}],
     [Plain EXCEPT !.only = {{"a", "b"}}, !.socket = "p1"],
     [Plain EXCEPT !.socket = "p2", !.cmd = "mine", !.tray = "tray"]}

MCConfigFiles ==
    LET entry(p, c, t) == [NoConfig EXCEPT !.socket = p, !.cmd = c, !.clients = "9", !.tray = t]
    IN  {[state |-> "missing", servers |-> <<>>], [state |-> "broken", servers |-> <<>>],
         [state |-> "parsed", servers |-> [a |-> entry("p1", "A", Unset), b |-> entry("p2", "B", "tray")]],
         [state |-> "parsed", servers |-> [b |-> entry(Unset, "B", Unset)]]}

allVars == <<publishVars, controlVars, proxyVars, daemonVars, scene>>

MCInit ==
    /\ PublishInit /\ ControlInit /\ ProxyInit /\ DaemonInit
    /\ scene \in {"publish", "start", "clients", "proxy", "daemons"}
    /\ scene # "proxy" => flavour = "frames"
    /\ scene \notin {"start", "clients"} => sock = "none"
    /\ cl = [c \in Clients |-> IF scene = "clients" THEN "down" ELSE "quit"]

\* What stands still in each scene.
Still ==
    /\ scene # "publish" => writer' = writer /\ \A t \in Tasks \ {CHOOSE t \in Tasks : TRUE} : task'[t] = "idle"
    /\ scene = "start" => task' = task
    /\ scene = "publish" => start' = start
    /\ scene = "clients" => \A s \in Services \ {Observed} : start'[s] = "check"

InControl(A) ==
    scene \in {"publish", "start", "clients"} /\ A /\ Still /\ UNCHANGED <<proxyVars, daemonVars, scene>>
InProxy(A)   == scene = "proxy" /\ A /\ UNCHANGED <<publishVars, controlVars, daemonVars, scene>>
InDaemons(A) == scene = "daemons" /\ A /\ UNCHANGED <<publishVars, controlVars, proxyVars, scene>>

MCNext == InControl(ControlNext) \/ InProxy(ProxyNext) \/ InDaemons(DaemonNext)

\* The tasks of the daemon, the clients that retry by themselves, the proxy and
\* the mux that answers it go on.
MCSpec ==
    /\ MCInit /\ [][MCNext]_allVars
    /\ WF_allVars(InControl(Listen))
    /\ \A c \in Clients :
        /\ WF_allVars(InControl(Serve(c))) /\ WF_allVars(InControl(SeeClose(c)))
        /\ c # "menu" => WF_allVars(InControl(Retry(c)))
    /\ WF_allVars(InProxy(Proxy)) /\ WF_allVars(InProxy(Mux))

TypeOK == ControlTypeOK /\ ProxyTypeOK /\ DaemonTypeOK

=============================================================================
