-------------------------- MODULE ServerSupervisor --------------------------
(***************************************************************************)
(* Keeping the child process alive: the server manager that starts and     *)
(* restarts it (runtime/server.rs), the heartbeat inspector that probes it *)
(* and asks for restarts (runtime/heartbeat.rs), the router between them   *)
(* (runtime/mod.rs) and the shutdown token.  Only the probes are in the    *)
(* to_server channel here; MuxRuntime has the clients' messages, the lazy  *)
(* start and max_restarts.  How long a backoff lasts is left out: no step  *)
(* depends on it.                                                          *)
(***************************************************************************)
EXTENDS Naturals, Sequences

CONSTANTS
    MaxFailures,   \* HeartbeatConfig.max_failures
    MaxQueue,      \* MAX_QUEUE
    MaxProbes,     \* bound: probes sent
    MaxGen,        \* bound: children that may hang or die
    Faults         \* what may go wrong outside the mux

ASSUME SupervisorAssumption ==
    /\ MaxFailures \in Nat \ {0} /\ MaxQueue \in Nat \ {0}
    /\ MaxProbes \in Nat /\ MaxGen \in Nat
    /\ Faults \subseteq {"hang", "full", "exit", "spawn", "shutdown"}

VARIABLES
    \* MuxState
    server_status, child_pid, server_initialized,
    \* the manager
    mpc, mheld,
    \* the channels, and the oneshot of the probe in flight
    toServer, restartQ, events, heartbeatQ, fired,
    \* HeartbeatState
    hpc, hbId, hbPending, failures,
    \* the child: its number, what became of it, the probes it has to answer
    gen, health, inbox,
    shutdown,
    \* history: a probe was counted as failed although its response had come;
    \* the restart requests the manager has followed
    miscounted, followed

stateVars     == <<server_status, child_pid, server_initialized>>
managerVars   == <<mpc, mheld>>
inspectorVars == <<hpc, hbId, hbPending, failures>>
childVars     == <<gen, health, inbox>>
vars == <<stateVars, managerVars, toServer, restartQ, events, heartbeatQ, fired,
          inspectorVars, childVars, shutdown, miscounted, followed>>

Probe == 1..MaxProbes

\* A Reset, or the child's response to a probe.
Reset == [type |-> "reset", id |-> 0]
Pong(id) == [type |-> "pong", id |-> id]
Event == [type : {"reset", "pong"}, id : Nat]

Init ==
    /\ server_status = "Starting" /\ child_pid = 0 /\ server_initialized = FALSE
    /\ mpc = "top" /\ mheld = 0
    /\ toServer = <<>> /\ restartQ = 0 /\ events = <<>> /\ heartbeatQ = <<>>
    /\ fired = FALSE
    /\ hpc = "idle" /\ hbId = 0 /\ hbPending = {} /\ failures = 0
    /\ gen = 0 /\ health = "dead" /\ inbox = {}
    /\ shutdown = FALSE
    /\ miscounted = FALSE /\ followed = 0

(***************************************************************************)
(* The server manager.                                                     *)
(***************************************************************************)

\* The head of the restart loop.
LoopTop ==
    /\ mpc = "top"
    /\ mpc' = IF shutdown THEN "exited" ELSE "start"
    /\ toServer' = IF shutdown THEN <<>> ELSE toServer
    /\ UNCHANGED <<stateVars, mheld, restartQ, events, heartbeatQ, fired,
                   inspectorVars, childVars, shutdown, miscounted, followed>>

Spawn ==
    /\ mpc = "start"
    /\ gen' = gen + 1 /\ health' = "up" /\ inbox' = {}
    /\ mpc' = "attach"
    /\ UNCHANGED <<stateVars, mheld, toServer, restartQ, events, heartbeatQ, fired,
                   inspectorVars, shutdown, miscounted, followed>>

\* server_manager returns; nobody changes server_status any more.
SpawnFails ==
    /\ "spawn" \in Faults
    /\ mpc = "start"
    /\ mpc' = "exited" /\ toServer' = <<>>
    /\ UNCHANGED <<stateVars, mheld, restartQ, events, heartbeatQ, fired,
                   inspectorVars, childVars, shutdown, miscounted, followed>>

Attach ==
    /\ mpc = "attach"
    /\ server_status' = "Running" /\ child_pid' = gen
    /\ mpc' = "run"
    /\ UNCHANGED <<server_initialized, mheld, toServer, restartQ, events, heartbeatQ,
                   fired, inspectorVars, childVars, shutdown, miscounted, followed>>

\* The write loop: one arm of its select each.  The first goes on to write what it
\* received, and no other arm is polled before that is done.
ReceiveProbe ==
    /\ mpc = "run" /\ toServer # <<>>
    /\ mheld' = Head(toServer)
    /\ toServer' = Tail(toServer)
    /\ mpc' = "write"
    /\ UNCHANGED <<stateVars, restartQ, events, heartbeatQ, fired, inspectorVars,
                   childVars, shutdown, miscounted, followed>>

\* writer.send(msg).await: it waits while the pipe of a live child is full.
WriteProbe ==
    /\ mpc = "write" /\ health # "deaf"
    /\ IF health = "dead"
       THEN mpc' = "failed" /\ UNCHANGED inbox
       ELSE mpc' = "run" /\ inbox' = inbox \cup {mheld}
    /\ mheld' = 0
    /\ UNCHANGED <<stateVars, toServer, restartQ, events, heartbeatQ, fired,
                   inspectorVars, gen, health, shutdown, miscounted, followed>>

\* Faulty variant: an exit is noticed only when there is something to write.
ExitNoticedOnWrite ==
    /\ mpc = "run" /\ health = "dead" /\ toServer # <<>>
    /\ mpc' \in {"cleanup", "failed"}
    /\ UNCHANGED <<stateVars, mheld, toServer, restartQ, events, heartbeatQ, fired,
                   inspectorVars, childVars, shutdown, miscounted, followed>>

\* child_wait returns the exit status, or an error, which is recorded.
ExitNoticed ==
    /\ mpc = "run" /\ health = "dead"
    /\ mpc' \in {"cleanup", "failed"}
    /\ UNCHANGED <<stateVars, mheld, toServer, restartQ, events, heartbeatQ, fired,
                   inspectorVars, childVars, shutdown, miscounted, followed>>

\* Faulty variant: the restart channel is not awaited.
HeartbeatRestartUnasked ==
    /\ mpc = "run"
    /\ restartQ' = restartQ - 1 /\ followed' = followed + 1
    /\ mpc' = "failed"
    /\ UNCHANGED <<stateVars, mheld, toServer, events, heartbeatQ, fired,
                   inspectorVars, childVars, shutdown, miscounted>>

HeartbeatRestart ==
    /\ mpc = "run" /\ restartQ > 0
    /\ restartQ' = restartQ - 1 /\ followed' = followed + 1
    /\ mpc' = "failed"
    /\ UNCHANGED <<stateVars, mheld, toServer, events, heartbeatQ, fired,
                   inspectorVars, childVars, shutdown, miscounted>>

\* Faulty variant: the token is looked at between two messages only.
ShutdownSeenOnWrite ==
    /\ mpc = "run" /\ shutdown /\ toServer # <<>>
    /\ mpc' = "cleanup"
    /\ UNCHANGED <<stateVars, mheld, toServer, restartQ, events, heartbeatQ, fired,
                   inspectorVars, childVars, shutdown, miscounted, followed>>

ShutdownSeen ==
    /\ mpc = "run" /\ shutdown
    /\ mpc' = "cleanup"
    /\ UNCHANGED <<stateVars, mheld, toServer, restartQ, events, heartbeatQ, fired,
                   inspectorVars, childVars, shutdown, miscounted, followed>>

MarkFailed ==
    /\ mpc = "failed"
    /\ server_status' = "Failed"
    /\ mpc' = "cleanup"
    /\ UNCHANGED <<child_pid, server_initialized, mheld, toServer, restartQ, events,
                   heartbeatQ, fired, inspectorVars, childVars, shutdown, miscounted, followed>>

\* The tasks of this child are aborted and the router is told.
SendReset ==
    /\ mpc = "cleanup"
    /\ events' = Append(events, Reset)
    /\ mpc' = "clear"
    /\ UNCHANGED <<stateVars, mheld, toServer, restartQ, heartbeatQ, fired,
                   inspectorVars, childVars, shutdown, miscounted, followed>>

\* Faulty variant: the pid of the old child stays.
ClearStateKeepsPid ==
    /\ mpc = "clear"
    /\ child_pid' = child_pid
    /\ server_status' = IF shutdown THEN "Stopped" ELSE "Restarting"
    /\ health' = "dead" /\ inbox' = {}
    /\ mpc' = "decide"
    /\ UNCHANGED <<server_initialized, mheld, toServer, restartQ, events, heartbeatQ,
                   fired, inspectorVars, gen, shutdown, miscounted, followed>>

ClearState ==
    /\ mpc = "clear"
    /\ child_pid' = 0
    /\ server_status' = IF shutdown THEN "Stopped" ELSE "Restarting"
    /\ health' = "dead" /\ inbox' = {}
    /\ mpc' = "decide"
    /\ UNCHANGED <<server_initialized, mheld, toServer, restartQ, events, heartbeatQ,
                   fired, inspectorVars, gen, shutdown, miscounted, followed>>

\* The token is read a second time.
Decide ==
    /\ mpc = "decide"
    /\ mpc' = IF shutdown THEN "exited" ELSE "sleep"
    /\ toServer' = IF shutdown THEN <<>> ELSE toServer
    /\ UNCHANGED <<stateVars, mheld, restartQ, events, heartbeatQ, fired,
                   inspectorVars, childVars, shutdown, miscounted, followed>>

\* The backoff: restart_backoff before the first restart, later doubled up to
\* restart_backoff_max.
Sleep ==
    /\ mpc = "sleep"
    /\ mpc' = "top"
    /\ UNCHANGED <<stateVars, mheld, toServer, restartQ, events, heartbeatQ, fired,
                   inspectorVars, childVars, shutdown, miscounted, followed>>

(***************************************************************************)
(* The heartbeat inspector.                                                *)
(***************************************************************************)

\* Faulty variant: the failure is not counted.
NoRecord(n) == n

\* record_failure
RecordFailure(n) == n + 1

\* Faulty variant: one failure too few.
ShouldRestartEarly == failures + 1 >= MaxFailures

\* should_restart
ShouldRestart == failures >= MaxFailures

\* A tick of the interval; it is skipped while the server is not ready.
Tick ==
    /\ hpc = "idle" /\ hbId < MaxProbes
    /\ server_status = "Running" /\ server_initialized
    /\ hbId' = hbId + 1
    /\ hbPending' = hbPending \cup {hbId + 1}
    /\ fired' = FALSE
    /\ hpc' = "send"
    /\ UNCHANGED <<stateVars, managerVars, toServer, restartQ, events, heartbeatQ,
                   failures, childVars, shutdown, miscounted, followed>>

SendProbe ==
    /\ hpc = "send"
    /\ mpc # "exited" /\ Len(toServer) < MaxQueue
    /\ toServer' = Append(toServer, hbId)
    /\ hpc' = "wait"
    /\ UNCHANGED <<stateVars, managerVars, restartQ, events, heartbeatQ, fired, hbId,
                   hbPending, failures, childVars, shutdown, miscounted, followed>>

\* The manager is gone and its receiver dropped: the probe counts as failed.
SendFails ==
    /\ hpc = "send"
    /\ mpc = "exited"
    /\ hbPending' = hbPending \ {hbId}
    /\ failures' = RecordFailure(failures)
    /\ hpc' = "report"
    /\ UNCHANGED <<stateVars, managerVars, toServer, restartQ, events, heartbeatQ,
                   fired, hbId, childVars, shutdown, miscounted, followed>>

\* timeout(response_rx) is over: record_success if the oneshot fired, otherwise
\* record_failure.
ProbeEnds ==
    /\ hpc = "wait"
    /\ hbPending' = hbPending \ {hbId}
    /\ failures' = IF fired THEN 0 ELSE RecordFailure(failures)
    /\ miscounted' = (miscounted \/ (~fired /\ \E i \in 1..Len(heartbeatQ) :
                                                 heartbeatQ[i] = hbId))
    /\ hpc' = "report"
    /\ UNCHANGED <<stateVars, managerVars, toServer, restartQ, events, heartbeatQ,
                   fired, hbId, childVars, shutdown, followed>>

\* update_state_metrics and check_restart.
Report ==
    /\ hpc = "report"
    /\ restartQ' = IF ShouldRestart THEN restartQ + 1 ELSE restartQ
    /\ hpc' = "idle"
    /\ UNCHANGED <<stateVars, managerVars, toServer, events, heartbeatQ, fired, hbId,
                   hbPending, failures, childVars, shutdown, miscounted, followed>>

\* heartbeat_rx.recv() is an arm of the same select as the tick, so it is polled
\* between two probes and never while the tick's arm waits for the oneshot.
HeartbeatEvent ==
    /\ hpc = "idle" /\ heartbeatQ # <<>>
    /\ heartbeatQ' = Tail(heartbeatQ)
    /\ hbPending' = hbPending \ {Head(heartbeatQ)}
    /\ fired' = (fired \/ Head(heartbeatQ) \in hbPending)
    /\ UNCHANGED <<stateVars, managerVars, toServer, restartQ, events, hpc, hbId,
                   failures, childVars, shutdown, miscounted, followed>>

InspectorStops ==
    /\ hpc = "idle" /\ shutdown
    /\ hpc' = "done"
    /\ UNCHANGED <<stateVars, managerVars, toServer, restartQ, events, heartbeatQ,
                   fired, hbId, hbPending, failures, childVars, shutdown, miscounted, followed>>

(***************************************************************************)
(* The router, the child and the rest of the daemon.                       *)
(***************************************************************************)

\* reset_state forgets the pid, of whichever child it is by now.
RouteReset ==
    /\ events # <<>> /\ Head(events).type = "reset"
    /\ events' = Tail(events)
    /\ child_pid' = 0
    /\ UNCHANGED <<server_status, server_initialized, managerVars, toServer, restartQ,
                   heartbeatQ, fired, inspectorVars, childVars, shutdown, miscounted, followed>>

\* is_heartbeat_response: the response goes to the inspector.
RoutePong ==
    /\ events # <<>> /\ Head(events).type = "pong"
    /\ events' = Tail(events)
    /\ heartbeatQ' = Append(heartbeatQ, Head(events).id)
    /\ UNCHANGED <<stateVars, managerVars, toServer, restartQ, fired, inspectorVars,
                   childVars, shutdown, miscounted, followed>>

\* The child answers a ping.
Respond ==
    /\ health = "up"
    /\ \E id \in inbox : inbox' = inbox \ {id} /\ events' = Append(events, Pong(id))
    /\ UNCHANGED <<stateVars, managerVars, toServer, restartQ, heartbeatQ, fired,
                   inspectorVars, gen, health, shutdown, miscounted, followed>>

ChildHangs ==
    /\ "hang" \in Faults
    /\ health = "up" /\ gen < MaxGen
    /\ health' = "hung"
    /\ UNCHANGED <<stateVars, managerVars, toServer, restartQ, events, heartbeatQ, fired,
                   inspectorVars, gen, inbox, shutdown, miscounted, followed>>

\* The input of a child that no longer reads fills up, with clients' messages too.
PipeFills ==
    /\ "full" \in Faults
    /\ health = "hung"
    /\ health' = "deaf"
    /\ UNCHANGED <<stateVars, managerVars, toServer, restartQ, events, heartbeatQ, fired,
                   inspectorVars, gen, inbox, shutdown, miscounted, followed>>

ChildDies ==
    /\ "exit" \in Faults
    /\ health # "dead" /\ gen < MaxGen
    /\ health' = "dead"
    /\ UNCHANGED <<stateVars, managerVars, toServer, restartQ, events, heartbeatQ, fired,
                   inspectorVars, gen, inbox, shutdown, miscounted, followed>>

\* A client sends notifications/initialized.
ClientInitialized ==
    /\ ~server_initialized
    /\ server_initialized' = TRUE
    /\ UNCHANGED <<server_status, child_pid, managerVars, toServer, restartQ, events,
                   heartbeatQ, fired, inspectorVars, childVars, shutdown, miscounted, followed>>

Shutdown ==
    /\ "shutdown" \in Faults
    /\ ~shutdown
    /\ shutdown' = TRUE
    /\ UNCHANGED <<stateVars, managerVars, toServer, restartQ, events, heartbeatQ, fired,
                   inspectorVars, childVars, miscounted, followed>>

-----------------------------------------------------------------------------
ManagerStep ==
    \/ LoopTop \/ Spawn \/ Attach \/ ReceiveProbe \/ WriteProbe \/ ExitNoticed
    \/ HeartbeatRestart \/ ShutdownSeen \/ MarkFailed \/ SendReset \/ ClearState \/ Decide \/ Sleep

InspectorStep ==
    \/ Tick \/ SendProbe \/ SendFails \/ ProbeEnds \/ Report \/ HeartbeatEvent
    \/ InspectorStops

RouterStep == RouteReset \/ RoutePong

OutsideStep ==
    \/ SpawnFails \/ Respond \/ ChildHangs \/ PipeFills \/ ChildDies
    \/ ClientInitialized \/ Shutdown

Next == ManagerStep \/ InspectorStep \/ RouterStep \/ OutsideStep

Spec == Init /\ [][Next]_vars

(***************************************************************************)
(* Tokio polls every ready task, timeouts and sleeps end and the interval  *)
(* keeps ticking; of a select with several ready arms, any may be taken.   *)
(* Nothing is assumed of the child, the clients or failures.               *)
(***************************************************************************)
Fairness == WF_vars(ManagerStep) /\ WF_vars(InspectorStep) /\ WF_vars(RouterStep)

FairSpec == Spec /\ Fairness

-----------------------------------------------------------------------------
(***************************************************************************)
(* Properties                                                              *)
(***************************************************************************)

\* Type invariant: the shape of the supervisor's state.
TypeOK ==
    /\ server_status \in {"Starting", "Running", "Failed", "Restarting", "Stopped"}
    /\ child_pid \in Nat /\ server_initialized \in BOOLEAN
    /\ mpc \in {"top", "start", "attach", "run", "write", "failed", "cleanup", "clear",
                "decide", "sleep", "exited"}
    /\ mheld \in Nat
    /\ toServer \in Seq(Nat) /\ restartQ \in Nat /\ events \in Seq(Event)
    /\ heartbeatQ \in Seq(Nat) /\ fired \in BOOLEAN
    /\ hpc \in {"idle", "send", "wait", "report", "done"}
    /\ hbId \in Nat /\ hbPending \subseteq Nat /\ failures \in Nat
    /\ gen \in Nat /\ health \in {"up", "hung", "deaf", "dead"} /\ inbox \subseteq Nat
    /\ shutdown \in BOOLEAN /\ miscounted \in BOOLEAN /\ followed \in Nat

\* Where the manager holds a child.
Attached == mpc \in {"run", "write", "failed", "cleanup", "clear"}

\* What MuxState says of the server is what the manager is doing, although the router
\* handles a Reset at any later time: Running and a pid mean the child the manager
\* holds now, Failed that it is being given up, Stopped that there will be no other.
StatusAgrees ==
    /\ server_status = "Running" => Attached
    /\ server_status = "Failed" => mpc \in {"cleanup", "clear"}
    /\ server_status = "Restarting" =>
         mpc \in {"decide", "sleep", "top", "start", "attach", "exited"}
    /\ server_status = "Stopped" => shutdown /\ mpc \in {"decide", "exited"}
    /\ child_pid # 0 => child_pid = gen /\ Attached

\* The restart requests, waiting and followed, never outnumber the probes that earned
\* them: none before MaxFailures probes, then at most one for each (heartbeat.rs,
\* check_restart), however long a request waits in the channel for a manager that is
\* busy with the restart before.
RestartNeedsFailures ==
    restartQ + followed > 0 => restartQ + followed + MaxFailures <= hbId + 1

\* What makes it inductive: no more failures than probes that ended, and the probe in
\* flight has not asked for a restart yet.
ProbeCount ==
    /\ failures <= hbId
    /\ hpc \in {"send", "wait"} => failures + 1 <= hbId
    /\ restartQ + followed > 0 =>
         restartQ + followed + MaxFailures <=
           IF hpc \in {"send", "wait", "report"} THEN hbId ELSE hbId + 1

\* There are probes left to find out with: the model's bound, not the code's.
Probing == hbId + MaxFailures <= MaxProbes

\* The manager waits for room in the pipe of a child that does not read.
Blocked == mpc = "write" /\ health = "deaf"

\* A child that hangs after its handshake is replaced, or the daemon ends, or the
\* command can no longer be started (heartbeat.rs:3-5).  Not so the child whose full
\* pipe blocks the manager: nobody takes the inspector's requests out of the channel
\* any more, and only the child's own end frees the manager.
HungRestarted ==
    \A g \in 1..MaxGen :
        \/ (gen = g /\ health \in {"hung", "deaf"} /\ server_status = "Running"
              /\ server_initialized /\ Probing)
             ~> (gen > g \/ mpc = "exited")
        \/ <>[](gen = g /\ Blocked)

\* A child that died is replaced, or the daemon ends, or it can no longer be started.
ExitRecovered ==
    \A g \in 1..MaxGen :
        (gen = g /\ health = "dead") ~> (gen > g \/ mpc = "exited")

\* After shutdown the manager and the inspector both come to an end: no arm waits for
\* something that no longer comes, except a manager that a full pipe blocks.
ShutdownCompletes == (shutdown ~> (mpc = "exited" /\ hpc = "done")) \/ <>[]Blocked

\* A probe counts as failed only when there was no response within the timeout
\* (heartbeat.rs:155-157).
FailuresGenuine == ~miscounted

=============================================================================
