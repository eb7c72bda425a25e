---------------------------- MODULE MCMuxRuntime ----------------------------
(***************************************************************************)
(* Instances of MuxRuntime for TLC.  An idle daemon has nothing to do once *)
(* the bounded clients have said all:  Quiesced is that state, so that the *)
(* deadlock check still finds a task that waits for ever.                  *)
(***************************************************************************)
EXTENDS MuxRefinement, TLC

\* A client that may send any request, and its half of the handshake, at any time.
Freely == [n \in LocalId |-> {"initialize", "initialized", "call"}]

\* Four messages, enough to fill the manager's hand, the queue and a handler's hand
\* and to leave one more buffered call behind.
Handshaking ==
    <<{"initialize", "note", "large", "call"}, {"call", "initialized"}, {"call"},
      {"initialized"}>>

\* Two clients of which the child also tells something of its own accord.
Sharing ==
    <<{"initialize", "initialized", "call"}, {"initialized", "call"}>>

Quiesced ==
    /\ \A c \in Client : \/ pc[c] \in {"done", "leaked"}
                         \/ pc[c] = "read" /\ msgs[c] = MaxMsgs
    /\ pending = <<>> /\ expired = {} /\ rpc = "idle"
    /\ events = <<>> /\ toServer = <<>>
    /\ mpc \in {"lazy", "run", "exited"}
    /\ UNCHANGED vars

\* The one place where everyone waits for everyone: MaxRestartsReached.  The run
\* maxrestarts is about it, the safety runs go on to look for others.
SelfDeadlocked == mpc = "stuck" /\ UNCHANGED vars

MCSpec == Init /\ [][Next \/ Quiesced \/ SelfDeadlocked]_vars

Symmetry == Permutations(Client)

=============================================================================
