----------------------------- MODULE MCCockpit ------------------------------
(***************************************************************************)
(* An instance of Cockpit and of Launch for TLC.  Neither reads what the   *)
(* other changes, the loop being suspended while a command is waited for,  *)
(* so a behaviour is one of the board or one of the launches.              *)
(***************************************************************************)
EXTENDS Cockpit, Launch

VARIABLE scene

\* Run 2 has an id that is no file name: its marker has the name of run 1.
MCMarkerName == <<1, 1>>
MCMatchLen   == <<1, 0>>

Plain == [words |-> {}, last_error |-> FALSE, updated_at |-> 0, started_at |-> 0,
          last_heartbeat |-> 0, offers |-> {}]

\* A run at work that offers its session, and one that is over.
MCTemplates ==
    {[Plain EXCEPT !.words = {"active"}, !.offers = {"resume", "report"}],
     [Plain EXCEPT !.words = {"done", "active"}]}

MCInit ==
    /\ Init /\ LaunchInit
    /\ scene \in {"board", "launch"} /\ (scene = "launch" => files = <<>>)

MCNext ==
    /\ \/ scene = "board" /\ Next /\ UNCHANGED launchVars
       \/ scene = "launch" /\ LaunchNext /\ UNCHANGED vars
    /\ UNCHANGED scene

\* The fairness of each specification, in its own scene.
MCSpec ==
    /\ MCInit /\ [][MCNext]_<<vars, launchVars, scene>>
    /\ WF_vars(scene = "board" /\ Tick /\ UNCHANGED <<launchVars, scene>>)
    /\ WF_launchVars(scene = "launch" /\ Foreground /\ UNCHANGED <<vars, scene>>)
    /\ WF_launchVars(scene = "launch" /\ DeadlinePasses /\ UNCHANGED <<vars, scene>>)

=============================================================================
