------------------------- MODULE MCServerSupervisor -------------------------
(***************************************************************************)
(* Instances of ServerSupervisor for TLC, with a step for an idle daemon.  *)
(***************************************************************************)
EXTENDS ServerSupervisor

\* Both tasks have ended, or there is no probe left and nothing to route.
Quiesced ==
    /\ events = <<>> /\ (restartQ = 0 \/ mpc = "exited")
    /\ mpc \in {"run", "exited"} /\ hpc \in {"idle", "done"}
    /\ UNCHANGED vars

\* The manager is blocked, and the inspector with it once the queue is full.
Stuck == Blocked /\ UNCHANGED vars

MCSpec == Init /\ [][Next \/ Quiesced \/ Stuck]_vars /\ Fairness

=============================================================================
