------------------------------ MODULE Launch --------------------------------
(***************************************************************************)
(* How the cockpit waits for a command it has put in the foreground:       *)
(* suspend_and_run and wait_for_interactive_launch (tui-agent/src/lib.rs), *)
(* the readiness probe (launch.rs), the process and its zellij session.    *)
(* The process, the session and the clock move on their own between the    *)
(* steps of the waiting loop.                                              *)
(***************************************************************************)
EXTENDS Naturals

VARIABLES
    lpc,      \* where suspend_and_run is
    cmd,      \* the command: launch (terminal, visible) or a deep action
    child,    \* its process
    held,     \* a process it started holds the pipe of its standard error
    session,  \* list-sessions has the name the command carries
    seen,     \* a probe saw it
    expired,  \* READINESS_DEADLINE has passed
    raw,      \* the terminal is the cockpit's: raw mode, alternate screen
    report    \* what the operator is told

launchVars == <<lpc, cmd, child, held, session, seen, expired, raw, report>>

Command == {"launch", "attach", "resume", "health", "skill"}

LaunchInit ==
    /\ lpc = "idle" /\ cmd = "none" /\ child = "none" /\ held = FALSE
    /\ session = FALSE /\ seen = FALSE /\ expired = FALSE /\ raw = TRUE
    /\ report = "none"

\* readiness_probe: a command with a --session argument is probed.  A launch
\* in a terminal has one, and so has vibecrafted resume.
readiness_probe(c) == c \in {"launch", "resume"}

\* suspend_and_run: the terminal is given up and the command is spawned, or
\* cannot be.  The terminal may refuse: raw mode stays on, or is off already
\* when the alternate screen cannot be left.  Then nothing is spawned, and
\* nothing taken back.
Suspend(c) ==
    /\ lpc = "idle" /\ cmd' = c
    /\ held' = FALSE /\ session' = FALSE /\ seen' = FALSE /\ expired' = FALSE
    /\ \/ /\ child' = "running" /\ report' = "none" /\ raw' = FALSE
          /\ lpc' = IF readiness_probe(c) THEN "probe" ELSE "wait"
       \/ /\ child' = "none" /\ report' = "not spawned" /\ raw' = FALSE
          /\ lpc' = "restore"
       \/ /\ child' = "none" /\ report' = "no terminal" /\ raw' \in {raw, FALSE}
          /\ lpc' = "idle"

waiting == UNCHANGED <<cmd, held, session, expired, raw>>

\* One probe that sees the session.
ProbeSees ==
    /\ lpc = "probe" /\ ~expired /\ session
    /\ lpc' = "wait" /\ seen' = TRUE
    /\ waiting /\ UNCHANGED <<child, report>>

\* One probe that does not see it: it is not there, or the probe fails.
ProbeMisses ==
    /\ lpc = "probe" /\ ~expired
    /\ lpc' = "inspect"
    /\ waiting /\ UNCHANGED <<child, seen, report>>

\* Faulty variant: a child that ended early counts as one that was seen.
InspectTrusting ==
    /\ lpc = "inspect"
    /\ \/ child = "running" /\ lpc' = "probe" /\ UNCHANGED report
       \/ child # "running" /\ lpc' = "wait" /\ UNCHANGED report
       \/ lpc' = "restore" /\ report' = "not inspected"
    /\ waiting /\ UNCHANGED <<child, seen>>

\* try_wait: go on, collect a child that ended before its session was seen, or
\* leave at once because it failed, without a kill or a wait.
Inspect ==
    /\ lpc = "inspect"
    /\ \/ child = "running" /\ lpc' = "probe" /\ UNCHANGED report
       \/ child # "running" /\ lpc' = "drain" /\ UNCHANGED report
       \/ lpc' = "restore" /\ report' = "not inspected"
    /\ waiting /\ UNCHANGED <<child, seen>>

\* Faulty variant: after the deadline the command is waited for.
GiveUpWaits ==
    /\ lpc = "probe" /\ expired
    /\ lpc' = "wait"
    /\ waiting /\ UNCHANGED <<child, seen, report>>

\* The deadline has passed: kill and reap the child itself, not what it started.
GiveUp ==
    /\ lpc = "probe" /\ expired
    /\ child' = IF child = "running" THEN "killed" ELSE child
    /\ report' = "no show" /\ lpc' = "restore"
    /\ waiting /\ UNCHANGED seen

\* What the exit status says; a child that was not seen has failed whatever it is.
Outcome ==
    IF child # "ok" THEN "exit status"
    ELSE IF lpc = "drain" THEN "exited early" ELSE "done"

\* wait_with_output reads the standard error to its end, then waits, or fails to.
Collect ==
    /\ lpc \in {"wait", "drain"} /\ child # "running" /\ ~held
    /\ lpc' = "restore" /\ report' \in {Outcome, "not waited"}
    /\ waiting /\ UNCHANGED <<child, seen>>

\* The terminal is taken back and the caller shows the report; when that fails,
\* the operator is told so instead.
Restore ==
    /\ lpc = "restore" /\ lpc' = "idle"
    /\ \/ raw' = TRUE /\ UNCHANGED report
       \/ raw' = FALSE /\ report' = "terminal lost"
    /\ UNCHANGED <<cmd, child, held, session, seen, expired>>

Foreground == ProbeSees \/ ProbeMisses \/ Inspect \/ GiveUp \/ Collect \/ Restore

(***************************************************************************)
(* The launched process, its session, what it starts itself, and           *)
(* READINESS_DEADLINE.  The list-sessions of the command deck does not     *)
(* list agent sessions.                                                    *)
(***************************************************************************)

SessionAppears ==
    /\ child = "running" /\ cmd = "launch" /\ ~session /\ session' = TRUE
    /\ UNCHANGED <<lpc, cmd, child, held, seen, expired, raw, report>>

\* A client that detaches leaves its session behind.
ChildExits ==
    /\ child = "running" /\ child' \in {"ok", "failed"} /\ session' \in {FALSE, session}
    /\ UNCHANGED <<lpc, cmd, held, seen, expired, raw, report>>

\* A process the child started inherits the pipe, and may outlive the child.
PipeInherited ==
    /\ child = "running" /\ ~held /\ held' = TRUE
    /\ UNCHANGED <<lpc, cmd, child, session, seen, expired, raw, report>>

PipeReleased ==
    /\ held /\ held' = FALSE
    /\ UNCHANGED <<lpc, cmd, child, session, seen, expired, raw, report>>

DeadlinePasses ==
    /\ lpc \in {"probe", "inspect"} /\ ~expired /\ expired' = TRUE
    /\ UNCHANGED <<lpc, cmd, child, held, session, seen, raw, report>>

LaunchNext ==
    \/ \E c \in Command : Suspend(c)
    \/ Foreground \/ SessionAppears \/ ChildExits \/ PipeInherited \/ PipeReleased
    \/ DeadlinePasses

\* The waiting loop goes on and the deadline passes; nothing is asked of the
\* launched process.
LaunchFairness == WF_launchVars(Foreground) /\ WF_launchVars(DeadlinePasses)

LaunchSpec == LaunchInit /\ [][LaunchNext]_launchVars /\ LaunchFairness

(***************************************************************************)
(* Properties.                                                             *)
(***************************************************************************)

LaunchTypeOK ==
    /\ lpc \in {"idle", "probe", "inspect", "wait", "drain", "restore"}
    /\ cmd \in Command \cup {"none"}
    /\ child \in {"none", "running", "ok", "failed", "killed"} /\ held \in BOOLEAN
    /\ session \in BOOLEAN /\ seen \in BOOLEAN /\ expired \in BOOLEAN /\ raw \in BOOLEAN
    /\ report \in {"none", "not spawned", "exited early", "exit status", "no show", "done",
                   "no terminal", "not inspected", "not waited", "terminal lost"}

\* How a command may be reported (suspend_and_run, wait_for_interactive_launch).  A
\* launch in a terminal is done only if a probe saw its session and the command then
\* succeeded: never on the exit status alone.  The command is left running only when
\* it could not be inspected (lib.rs:587), which the operator is told unless the
\* terminal could not be taken back either.  And the operator works on with a terminal
\* that is not the cockpit's only after being told that.  Of a session that comes up
\* after the last probe the operator is told that it did not appear.
LaunchReportTrue ==
    /\ report = "done" => child = "ok" /\ (cmd = "launch" => seen)
    /\ lpc \in {"idle", "restore"} /\ child = "running"
         => report \in {"not inspected", "terminal lost"}
    /\ lpc = "idle" /\ ~raw => report \in {"no terminal", "terminal lost"}

\* A launch whose session does not appear comes to an end within READINESS_DEADLINE:
\* the loop does not hang on a command it has not seen come up.  One case does hang:
\* a child that ended early is collected with wait_with_output (lib.rs:565), which a
\* process it left behind can hold up for ever, as the comment at lib.rs:611 says of
\* the other path.
UnseenLaunchReturns ==
    \/ (lpc = "probe") ~> (seen \/ lpc = "idle")
    \/ <>[](lpc = "drain" /\ held)

=============================================================================
