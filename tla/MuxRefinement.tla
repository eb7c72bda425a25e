--------------------------- MODULE MuxRefinement ----------------------------
(***************************************************************************)
(* The request path implements RequestBroker: its registered clients are   *)
(* the members, and the history of what was asked and answered is the      *)
(* broker's.  The handshake, the tables, the tasks, the child and its      *)
(* restarts are hidden.                                                    *)
(***************************************************************************)
EXTENDS MuxRuntime

Broker == INSTANCE RequestBroker WITH members <- clients

\* Every step of a handler, the router, the reaper, the manager or the child is
\* a step of the broker or none: one answer at most to each request, to a
\* registered client, to the point, and for good (handle_client_message,
\* handle_server_message, reset_state, reap_timeouts).
BrokerPromise == Broker!Spec

=============================================================================
