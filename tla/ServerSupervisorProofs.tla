----------------------- MODULE ServerSupervisorProofs -----------------------
(***************************************************************************)
(* The safety invariants of ServerSupervisor, for every configuration.     *)
(***************************************************************************)
EXTENDS ServerSupervisor, TLAPS

\* The actions in one list, for the proofs below.
LEMMA NextCases ==
  ASSUME [Next]_vars
  PROVE  \/ LoopTop \/ Spawn \/ SpawnFails \/ Attach \/ ReceiveProbe \/ WriteProbe
         \/ ExitNoticed \/ HeartbeatRestart \/ ShutdownSeen \/ MarkFailed \/ SendReset \/ ClearState
         \/ Decide \/ Sleep \/ Tick \/ SendProbe \/ SendFails \/ ProbeEnds \/ Report
         \/ HeartbeatEvent \/ InspectorStops \/ RouteReset \/ RoutePong \/ Respond
         \/ ChildHangs \/ PipeFills \/ ChildDies \/ ClientInitialized \/ Shutdown
         \/ UNCHANGED vars
  BY DEF Next, ManagerStep, InspectorStep, RouterStep, OutsideStep

\* Every action keeps the shape of the state.
LEMMA StepTypeOK == TypeOK /\ [Next]_vars => TypeOK'
<1> SUFFICES ASSUME TypeOK, [Next]_vars PROVE TypeOK'
  OBVIOUS
<1> USE SupervisorAssumption
    DEF TypeOK, stateVars, managerVars, inspectorVars, childVars
<1>1. CASE LoopTop
  BY <1>1 DEF LoopTop
<1>2. CASE Spawn
  BY <1>2 DEF Spawn
<1>3. CASE SpawnFails
  BY <1>3 DEF SpawnFails
<1>4. CASE Attach
  BY <1>4 DEF Attach
<1>5. CASE ReceiveProbe
  <2>1. Head(toServer) \in Nat /\ Tail(toServer) \in Seq(Nat)
    BY <1>5 DEF ReceiveProbe
  <2> QED
    BY <1>5, <2>1 DEF ReceiveProbe
<1>29. CASE WriteProbe
  <2>1. inbox' \subseteq Nat /\ mpc' \in {"run", "failed"}
    BY <1>29 DEF WriteProbe
  <2> QED
    BY <1>29, <2>1 DEF WriteProbe
<1>6. CASE ExitNoticed
  BY <1>6 DEF ExitNoticed
<1>7. CASE HeartbeatRestart
  BY <1>7 DEF HeartbeatRestart
<1>8. CASE ShutdownSeen
  BY <1>8 DEF ShutdownSeen
<1>9. CASE MarkFailed
  BY <1>9 DEF MarkFailed
<1>10. CASE SendReset
  BY <1>10 DEF SendReset, Reset, Event
<1>11. CASE ClearState
  BY <1>11 DEF ClearState
<1>12. CASE Decide
  BY <1>12 DEF Decide
<1>13. CASE Sleep
  BY <1>13 DEF Sleep
<1>14. CASE Tick
  <2>1. hbPending' \subseteq Nat /\ hbId' \in Nat
    BY <1>14 DEF Tick
  <2> QED
    BY <1>14, <2>1 DEF Tick
<1>15. CASE SendProbe
  BY <1>15 DEF SendProbe
<1>16. CASE SendFails
  BY <1>16 DEF SendFails, RecordFailure
<1>17. CASE ProbeEnds
  <2>1. miscounted' \in BOOLEAN
    BY <1>17 DEF ProbeEnds
  <2> QED
    BY <1>17, <2>1 DEF ProbeEnds, RecordFailure
<1>18. CASE Report
  BY <1>18 DEF Report, ShouldRestart
<1>19. CASE HeartbeatEvent
  <2>1. fired' \in BOOLEAN
    BY <1>19 DEF HeartbeatEvent
  <2>2. Tail(heartbeatQ) \in Seq(Nat)
    BY <1>19 DEF HeartbeatEvent
  <2> QED
    BY <1>19, <2>1, <2>2 DEF HeartbeatEvent
<1>20. CASE InspectorStops
  BY <1>20 DEF InspectorStops
<1>21. CASE RouteReset
  BY <1>21 DEF RouteReset
<1>22. CASE RoutePong
  <2>1. Head(events) \in Event /\ Tail(events) \in Seq(Event)
    BY <1>22 DEF RoutePong
  <2> QED
    BY <1>22, <2>1 DEF RoutePong, Event
<1>23. CASE Respond
  <2>1. PICK id \in inbox : inbox' = inbox \ {id} /\ events' = Append(events, Pong(id))
    BY <1>23 DEF Respond
  <2>2. Pong(id) \in Event
    BY DEF Pong, Event
  <2> HIDE DEF Pong
  <2>3. events' \in Seq(Event) /\ inbox' \subseteq Nat
    BY <2>1, <2>2
  <2> QED
    BY <1>23, <2>3 DEF Respond
<1>24. CASE ChildHangs
  BY <1>24 DEF ChildHangs
<1>30. CASE PipeFills
  BY <1>30 DEF PipeFills
<1>25. CASE ChildDies
  BY <1>25 DEF ChildDies
<1>26. CASE ClientInitialized
  BY <1>26 DEF ClientInitialized
<1>27. CASE Shutdown
  BY <1>27 DEF Shutdown
<1>28. CASE UNCHANGED vars
  BY <1>28 DEF vars
<1> QED
  BY <1>1, <1>2, <1>3, <1>4, <1>5, <1>6, <1>7, <1>8, <1>9, <1>10, <1>11, <1>12, <1>13,
     <1>14, <1>15, <1>16, <1>17, <1>18, <1>19, <1>20, <1>21, <1>22, <1>23, <1>24, <1>25,
     <1>26, <1>27, <1>28, <1>29, <1>30, NextCases

\* The status and the pid change only where the manager moves to a place that agrees
\* with them; a late Reset only clears the pid.
LEMMA StepStatusAgrees == TypeOK /\ StatusAgrees /\ [Next]_vars => StatusAgrees'
<1> SUFFICES ASSUME TypeOK, StatusAgrees, [Next]_vars PROVE StatusAgrees'
  OBVIOUS
<1> USE DEF TypeOK, StatusAgrees, Attached, stateVars, managerVars, inspectorVars,
            childVars
<1>1. CASE LoopTop
  BY <1>1 DEF LoopTop
<1>2. CASE Spawn
  BY <1>2 DEF Spawn
<1>3. CASE Attach
  BY <1>3 DEF Attach
<1>4. CASE ReceiveProbe \/ WriteProbe
  BY <1>4 DEF ReceiveProbe, WriteProbe
<1>5. CASE ExitNoticed \/ HeartbeatRestart \/ ShutdownSeen
  BY <1>5 DEF ExitNoticed, HeartbeatRestart, ShutdownSeen
<1>6. CASE MarkFailed \/ SendReset
  BY <1>6 DEF MarkFailed, SendReset
<1>7. CASE ClearState
  BY <1>7 DEF ClearState
<1>8. CASE Decide \/ Sleep \/ SpawnFails
  BY <1>8 DEF Decide, Sleep, SpawnFails
<1>9. CASE RouteReset
  BY <1>9 DEF RouteReset
<1>10. CASE Shutdown
  BY <1>10 DEF Shutdown
<1>11. ASSUME UNCHANGED <<server_status, child_pid, mpc, gen, shutdown>>
       PROVE  StatusAgrees'
  BY <1>11
<1>12. CASE \/ Tick \/ SendProbe \/ SendFails \/ ProbeEnds \/ Report \/ HeartbeatEvent
            \/ InspectorStops \/ RoutePong \/ Respond \/ ChildHangs \/ PipeFills
            \/ ChildDies \/ ClientInitialized \/ UNCHANGED vars
  BY <1>11, <1>12
  DEF Tick, SendProbe, SendFails, ProbeEnds, Report, HeartbeatEvent, InspectorStops,
      RoutePong, Respond, ChildHangs, PipeFills, ChildDies, ClientInitialized, vars
<1> QED
  BY <1>1, <1>2, <1>3, <1>4, <1>5, <1>6, <1>7, <1>8, <1>9, <1>10, <1>12, NextCases

\* Each probe adds at most one failure and each report at most one signal.
LEMMA StepProbeCount == TypeOK /\ ProbeCount /\ [Next]_vars => ProbeCount'
<1> SUFFICES ASSUME TypeOK, ProbeCount, [Next]_vars PROVE ProbeCount'
  OBVIOUS
<1> USE SupervisorAssumption
    DEF TypeOK, ProbeCount, stateVars, managerVars, inspectorVars, childVars
<1>1. CASE Tick
  BY <1>1 DEF Tick
<1>2. CASE SendProbe
  BY <1>2 DEF SendProbe
<1>3. CASE SendFails
  BY <1>3 DEF SendFails, RecordFailure
<1>4. CASE ProbeEnds
  BY <1>4 DEF ProbeEnds, RecordFailure
<1>5. CASE Report
  BY <1>5 DEF Report, ShouldRestart
<1>6. CASE InspectorStops
  BY <1>6 DEF InspectorStops
<1>7. CASE HeartbeatRestart
  BY <1>7 DEF HeartbeatRestart
<1>8. ASSUME UNCHANGED <<hpc, hbId, failures, restartQ, followed>> PROVE ProbeCount'
  BY <1>8
<1>9. CASE \/ LoopTop \/ Spawn \/ SpawnFails \/ Attach \/ ReceiveProbe \/ WriteProbe
           \/ ExitNoticed \/ ShutdownSeen \/ MarkFailed \/ SendReset \/ ClearState \/ Decide \/ Sleep
           \/ HeartbeatEvent \/ RouteReset \/ RoutePong \/ Respond \/ ChildHangs
           \/ PipeFills \/ ChildDies \/ ClientInitialized \/ Shutdown \/ UNCHANGED vars
  BY <1>8, <1>9
  DEF LoopTop, Spawn, SpawnFails, Attach, ReceiveProbe, WriteProbe, ExitNoticed,
      ShutdownSeen, MarkFailed, SendReset, ClearState, Decide, Sleep, HeartbeatEvent,
      RouteReset, RoutePong, Respond, ChildHangs, PipeFills, ChildDies, ClientInitialized, Shutdown, vars
<1> QED
  BY <1>1, <1>2, <1>3, <1>4, <1>5, <1>6, <1>7, <1>9, NextCases

\* The conjunction that is proved inductive.
IInv == TypeOK /\ StatusAgrees /\ ProbeCount

\* The initial state satisfies it.
LEMMA InitIInv == Init => IInv
<1> SUFFICES ASSUME Init PROVE IInv
  OBVIOUS
<1>1. TypeOK
  <2>1. hbPending \subseteq Nat /\ inbox \subseteq Nat
    BY DEF Init
  <2>2. toServer \in Seq(Nat) /\ events \in Seq(Event) /\ heartbeatQ \in Seq(Nat)
    BY DEF Init
  <2> QED
    BY <2>1, <2>2 DEF Init, TypeOK
<1>2. StatusAgrees /\ ProbeCount
  BY DEF Init, StatusAgrees, Attached, ProbeCount
<1> QED
  BY <1>1, <1>2 DEF IInv

\* The inductive invariant of the supervisor holds for ever.
THEOREM SupervisorCorrect == Spec => []IInv
<1>1. IInv /\ [Next]_vars => IInv'
  BY StepTypeOK, StepStatusAgrees, StepProbeCount DEF IInv
<1> QED
  BY <1>1, InitIInv, PTL DEF Spec

\* The channels between the manager, the inspector and the router carry only what each
\* of them reads, and every counter is a number: the type invariant TypeOK.
THEOREM SupervisorTypes == Spec => []TypeOK
<1>1. IInv => TypeOK
  BY DEF IInv
<1> QED
  BY <1>1, SupervisorCorrect, PTL

\* What MuxState says of the server agrees with what the manager does (StatusAgrees),
\* whenever the router handles the Resets.
THEOREM StatusHonest == Spec => []StatusAgrees
<1>1. IInv => StatusAgrees
  BY DEF IInv
<1> QED
  BY <1>1, SupervisorCorrect, PTL

\* No restart is asked for before MaxFailures probes have been made, and at most one for
\* each probe after that, counting the requests followed as well as the waiting ones
\* (RestartNeedsFailures).
THEOREM RestartsEarned == Spec => []RestartNeedsFailures
<1>1. IInv => RestartNeedsFailures
  BY SupervisorAssumption DEF IInv, ProbeCount, RestartNeedsFailures, TypeOK
<1> QED
  BY <1>1, SupervisorCorrect, PTL

=============================================================================
