----------------------------- MODULE MuxRuntime -----------------------------
(***************************************************************************)
(* The request path of the rust-mux daemon: many clients share one child   *)
(* process.  Tasks of the Tokio runtime interleave between the critical    *)
(* sections of the Mutex around MuxState, so one action here is one such   *)
(* section (or one channel operation between two sections):                *)
(*                                                                         *)
(*   one handler per client   runtime/client.rs  handle_client             *)
(*   one writer per client    runtime/client.rs  the task of line 60       *)
(*   the router               runtime/mod.rs     handle_server_events_...  *)
(*   the reaper               runtime/mod.rs     reap_timeouts             *)
(*   the server manager       runtime/server.rs  server_manager            *)
(*   the child process        external                                     *)
(*                                                                         *)
(* Lock sections that only read a constant, refresh queue_depth or publish *)
(* a status snapshot are left out: no step of this module depends on them. *)
(***************************************************************************)
EXTENDS Naturals, Sequences, FiniteSets

CONSTANTS
    Client,       \* connection ids handed out by next_client_id, used once each
    Kinds,        \* the kinds of message a client may send as its n-th
    Faults,       \* what may go wrong outside the mux
    MaxMsgs,      \* bound: messages a client sends
    MaxClients,   \* max_active_clients, the permits of the semaphore
    MaxPending,   \* MAX_PENDING
    MaxQueue,     \* MAX_QUEUE, the capacity of the to_server channel
    MaxRestarts,  \* max_restarts, 0 for no limit
    MaxGen,       \* bound: child processes spawned
    MaxCopies,    \* bound: times a child repeats one response
    MaxNotes,     \* bound: notifications the children send
    LazyStart     \* lazy_start

ASSUME ClientAssumption == IsFiniteSet(Client)

ASSUME KindsAssumption ==
    Kinds \in [1..MaxMsgs ->
                SUBSET {"initialize", "initialized", "call", "note", "large"}]

ASSUME FaultsAssumption ==
    Faults \subseteq {"close", "decode", "write", "spawn", "exit", "heartbeat",
                     "stdin", "stdout"}

ASSUME BoundsAssumption ==
    /\ MaxMsgs \in Nat /\ MaxClients \in Nat /\ MaxPending \in Nat
    /\ MaxQueue \in Nat \ {0} /\ MaxRestarts \in Nat /\ MaxGen \in Nat
    /\ MaxCopies \in Nat \ {0} /\ MaxNotes \in Nat

ASSUME LazyAssumption == LazyStart \in BOOLEAN

VARIABLES
    \* MuxState, guarded by the Mutex
    clients,             \* keys of clients and of client_handshakes
    initialized,         \* clients whose handshake is complete
    buffered,            \* buffered_messages of each client, as local ids
    pending,             \* global id -> [req, init]
    next_global_id,
    cached,              \* cached_initialize: the child it came from, 0 for None
    initializing,
    init_waiting,
    server_initialized,
    \* the handlers
    pc, msgs, work, out,
    \* the reaper's and the router's local variables
    expired, rpc, held, resp,
    \* the manager's local variables
    mpc, mheld, restarts,
    \* the channels
    toServer, events,
    \* the child process: its number, its input, what it has been told; the
    \* pipes that no longer pass anything: a full "stdin", an unread "stdout"
    gen, alive, childIn, greeted, notes, jammed,
    \* history: what each client asked and what its channel was sent
    asked, answers, notified

stateVars   == <<clients, initialized, buffered, pending, next_global_id, cached,
                 initializing, init_waiting, server_initialized>>
handlerVars == <<pc, msgs, work, out>>
routerVars  == <<rpc, held, resp>>
managerVars == <<mpc, mheld, restarts>>
childVars   == <<gen, alive, childIn, greeted, notes, jammed>>
historyVars == <<asked, answers, notified>>
vars == <<stateVars, handlerVars, expired, routerVars, managerVars, toServer,
          events, childVars, historyVars>>

-----------------------------------------------------------------------------
LocalId == 1..MaxMsgs

\* A request is named by its client and the JSON-RPC id the client gave it.
Request == Client \X LocalId

\* A message to the child.  gid is the id the mux gave it, 0 for notifications.
Msg == [type : {"initialize", "initialized", "call", "note"},
        gid : Nat, req : Request]

Pending == [req : Request, init : BOOLEAN]

Event == [type : {"response", "reset", "note"}, msg : SUBSET Msg, gen : Nat]

Reset == [type |-> "reset", msg |-> {}, gen |-> 0]

\* What a request is answered with: {q} is the child's response to request q,
\* the empty set an error the mux made up.
Answer == SUBSET Request

\* cached_initialize: the child it came from and the request it answered.
Cached == [gen : Nat, about : Answer]

NoCache == [gen |-> 0, about |-> {}]

\* The Mutex is free again after every step but one: see MaxRestartsReached.
LockFree == mpc # "stuck"

\* Handlers that hold a permit of the semaphore.
Active == {c \in Client : pc[c] \notin {"new", "done", "leaked"}}

\* The receiver of the to_server channel is dropped when the manager returns.
ChannelClosed == mpc = "exited"

QueueFull == Len(toServer) >= MaxQueue

Overloaded == Cardinality(DOMAIN pending) >= MaxPending

\* Faulty variant: errors are not sent.
DeliverNoErrors(R, a) ==
    answers' = [r \in Request |-> IF r \in R /\ r[1] \in clients /\ a # {}
                                  THEN Append(answers[r], a) ELSE answers[r]]

\* Faulty variant: a channel outlives its registration.
DeliverToGone(R, a) ==
    answers' = [r \in Request |-> IF r \in R THEN Append(answers[r], a) ELSE answers[r]]

\* What the channels of the registered clients among R are sent.  The requests
\* of R are distinct entries of the code's map: OneOwner below.
Deliver(R, a) ==
    answers' = [r \in Request |-> IF r \in R /\ r[1] \in clients
                                  THEN Append(answers[r], a) ELSE answers[r]]

\* unregister_client
Unregister(c) ==
    /\ clients' = clients \ {c}
    /\ initialized' = initialized \ {c}
    /\ buffered' = [buffered EXCEPT ![c] = {}]
    /\ pending' = [g \in {h \in DOMAIN pending : pending[h].req[1] # c} |-> pending[g]]
    /\ init_waiting' = {r \in init_waiting : r[1] # c}

-----------------------------------------------------------------------------
Init ==
    /\ clients = {} /\ initialized = {}
    /\ buffered = [c \in Client |-> {}]
    /\ pending = [g \in {} |-> <<>>]
    /\ next_global_id = 1
    /\ cached = NoCache
    /\ initializing = FALSE
    /\ init_waiting = {}
    /\ server_initialized = FALSE
    /\ pc = [c \in Client |-> "new"]
    /\ msgs = [c \in Client |-> 0]
    /\ work = [c \in Client |-> {}]
    /\ out = [c \in Client |-> {}]
    /\ expired = {}
    /\ rpc = "idle" /\ held = {} /\ resp = {}
    /\ mpc = IF LazyStart THEN "lazy" ELSE "spawn"
    /\ mheld = {} /\ restarts = 0
    /\ toServer = <<>> /\ events = <<>>
    /\ gen = 0 /\ alive = FALSE /\ childIn = {} /\ greeted = {} /\ notes = 0
    /\ jammed = {}
    /\ asked = [r \in Request |-> "none"]
    /\ answers = [r \in Request |-> <<>>]
    /\ notified = {}

(***************************************************************************)
(* The client handlers.                                                    *)
(***************************************************************************)

\* Accept, take a permit, register_client.
Connect(c) ==
    /\ LockFree
    /\ pc[c] = "new"
    /\ Cardinality(Active) < MaxClients
    /\ clients' = clients \cup {c}
    /\ pc' = [pc EXCEPT ![c] = "read"]
    /\ UNCHANGED <<initialized, buffered, pending, next_global_id, cached, initializing,
                   init_waiting, server_initialized, msgs, work, out, expired,
                   routerVars, managerVars, toServer, events, childVars, historyVars>>

\* The next message of client c has been read and is of kind k.
Receive(c, k) ==
    /\ pc[c] = "read"
    /\ msgs[c] < MaxMsgs
    /\ k \in Kinds[msgs[c] + 1]
    /\ msgs' = [msgs EXCEPT ![c] = @ + 1]

Current(c) == <<c, msgs[c] + 1>>

\* A frame larger than max_request_bytes is answered at once.
ReadTooLarge(c) ==
    /\ LockFree
    /\ Receive(c, "large")
    /\ asked' = [asked EXCEPT ![Current(c)] = "large"]
    /\ Deliver({Current(c)}, {})
    /\ UNCHANGED <<stateVars, pc, work, out, expired, routerVars, managerVars,
                   toServer, events, childVars, notified>>

\* Faulty variant: the id counter does not advance.
AllocateReusesId(c, r, type) ==
    /\ pending' = [g \in DOMAIN pending \cup {next_global_id} |->
                     IF g = next_global_id
                     THEN [req |-> r, init |-> type = "initialize"] ELSE pending[g]]
    /\ next_global_id' = next_global_id
    /\ out' = [out EXCEPT ![c] = {[type |-> type, gid |-> next_global_id, req |-> r]}]
    /\ pc' = [pc EXCEPT ![c] = "send"]

\* Take a global id for r, record it as pending and leave the section with the
\* message to send in out.
Allocate(c, r, type) ==
    /\ pending' = [g \in DOMAIN pending \cup {next_global_id} |->
                     IF g = next_global_id
                     THEN [req |-> r, init |-> type = "initialize"] ELSE pending[g]]
    /\ next_global_id' = next_global_id + 1
    /\ out' = [out EXCEPT ![c] = {[type |-> type, gid |-> next_global_id, req |-> r]}]
    /\ pc' = [pc EXCEPT ![c] = "send"]

\* initialize: from the cache, behind a running initialize, refused, or forwarded.
ReadInitialize(c) ==
    /\ LockFree
    /\ Receive(c, "initialize")
    /\ asked' = [asked EXCEPT ![Current(c)] = "initialize"]
    /\ \/ /\ cached # NoCache
          /\ Deliver({Current(c)}, cached.about)
          /\ UNCHANGED <<init_waiting, pending, next_global_id, out, pc>>
       \/ /\ cached = NoCache /\ initializing
          /\ init_waiting' = init_waiting \cup {Current(c)}
          /\ UNCHANGED <<answers, pending, next_global_id, out, pc>>
       \/ /\ cached = NoCache /\ ~initializing /\ Overloaded
          /\ Deliver({Current(c)}, {})
          /\ UNCHANGED <<init_waiting, pending, next_global_id, out, pc>>
       \/ /\ cached = NoCache /\ ~initializing /\ ~Overloaded
          /\ Allocate(c, Current(c), "initialize")
          /\ UNCHANGED <<init_waiting, answers>>
    /\ UNCHANGED <<clients, initialized, buffered, cached, initializing,
                   server_initialized, work, expired, routerVars, managerVars,
                   toServer, events, childVars, notified>>

\* Faulty variant: every client counts as initialized.
HandshakeAssumed(c) == TRUE

\* is_handshake_complete: true of a client that is no longer registered, too.
HandshakeComplete(c) == c \in clients => c \in initialized

\* Any other request: look at the handshake, in a section of its own.
ReadCall(c) ==
    /\ LockFree
    /\ Receive(c, "call")
    /\ asked' = [asked EXCEPT ![Current(c)] = "call"]
    /\ work' = [work EXCEPT ![c] = {msgs[c] + 1}]
    /\ pc' = [pc EXCEPT ![c] = IF HandshakeComplete(c) THEN "forward" ELSE "buffer"]
    /\ UNCHANGED <<stateVars, out, expired, routerVars, managerVars, toServer,
                   events, childVars, answers, notified>>

\* buffer_message
BufferMessage(c) ==
    /\ LockFree
    /\ pc[c] = "buffer"
    /\ buffered' = [buffered EXCEPT ![c] = IF c \in clients THEN @ \cup work[c] ELSE @]
    /\ work' = [work EXCEPT ![c] = {}]
    /\ pc' = [pc EXCEPT ![c] = "read"]
    /\ UNCHANGED <<clients, initialized, pending, next_global_id, cached, initializing,
                   init_waiting, server_initialized, msgs, out, expired, routerVars,
                   managerVars, toServer, events, childVars, historyVars>>

\* Faulty variant: the loop over the work has no end.
AfterOneEndless(w) == "forward"

\* Where a handler goes once it has dealt with one message of its work.
AfterOne(w) == IF w = {} THEN "read" ELSE "forward"

\* Faulty variant: the newest message comes first.
Newest(w) == CHOOSE n \in w : \A k \in w : n >= k

\* The oldest message of the work: local ids grow in the order of arrival.
Oldest(w) == CHOOSE n \in w : \A k \in w : n <= k

\* forward_request, up to the send.
Forward(c) ==
    /\ LockFree
    /\ pc[c] = "forward"
    /\ LET n == Oldest(work[c]) IN
         /\ work' = [work EXCEPT ![c] = @ \ {n}]
         /\ \/ /\ Overloaded
               /\ Deliver({<<c, n>>}, {})
               /\ pc' = [pc EXCEPT ![c] = AfterOne(work[c] \ {n})]
               /\ UNCHANGED <<pending, next_global_id, out>>
            \/ /\ ~Overloaded
               /\ Allocate(c, <<c, n>>, "call")
               /\ UNCHANGED answers
    /\ UNCHANGED <<clients, initialized, buffered, cached, initializing, init_waiting,
                   server_initialized, msgs, expired, routerVars, managerVars,
                   toServer, events, childVars, asked, notified>>

\* to_server_tx.send(msg).await: waits for room, fails when the channel is closed.
SendToServer(c) ==
    /\ pc[c] = "send"
    /\ \/ /\ ~ChannelClosed /\ ~QueueFull
          /\ \E m \in out[c] : toServer' = Append(toServer, m)
       \/ ChannelClosed /\ UNCHANGED toServer
    /\ out' = [out EXCEPT ![c] = {}]
    /\ pc' = [pc EXCEPT ![c] = AfterOne(work[c])]
    /\ UNCHANGED <<stateVars, msgs, work, expired, routerVars, managerVars, events,
                   childVars, historyVars>>

\* to_server_tx.try_send(msg): dropped when there is no room.
TrySend(m) ==
    toServer' = IF ChannelClosed \/ QueueFull THEN toServer ELSE Append(toServer, m)

\* A notification other than notifications/initialized.
ReadNote(c) ==
    /\ LockFree
    /\ Receive(c, "note")
    /\ TrySend([type |-> "note", gid |-> 0, req |-> Current(c)])
    /\ UNCHANGED <<stateVars, pc, work, out, expired, routerVars, managerVars, events,
                   childVars, historyVars>>

\* notifications/initialized, first section: only the first one ever is for the child.
ReadInitialized(c) ==
    /\ LockFree
    /\ Receive(c, "initialized")
    /\ server_initialized' = TRUE
    /\ pc' = [pc EXCEPT ![c] = IF server_initialized THEN "complete" ELSE "announce"]
    /\ UNCHANGED <<clients, initialized, buffered, pending, next_global_id, cached,
                   initializing, init_waiting, work, out, expired, routerVars,
                   managerVars, toServer, events, childVars, historyVars>>

\* ... its try_send, with the Mutex released.
Announce(c) ==
    /\ pc[c] = "announce"
    /\ TrySend([type |-> "initialized", gid |-> 0, req |-> <<c, msgs[c]>>])
    /\ pc' = [pc EXCEPT ![c] = "complete"]
    /\ UNCHANGED <<stateVars, msgs, work, out, expired, routerVars, managerVars,
                   events, childVars, historyVars>>

\* ... and complete_handshake, which hands over the buffered messages.
CompleteHandshake(c) ==
    /\ LockFree
    /\ pc[c] = "complete"
    /\ initialized' = initialized \cup (clients \cap {c})
    /\ work' = [work EXCEPT ![c] = buffered[c]]
    /\ buffered' = [buffered EXCEPT ![c] = {}]
    /\ pc' = [pc EXCEPT ![c] = AfterOne(buffered[c])]
    /\ UNCHANGED <<clients, pending, next_global_id, cached, initializing, init_waiting,
                   server_initialized, msgs, out, expired, routerVars, managerVars,
                   toServer, events, childVars, historyVars>>

\* The reader loop ends: end of file, or the handshake took too long.
Disconnect(c) ==
    /\ "close" \in Faults
    /\ pc[c] = "read"
    /\ pc' = [pc EXCEPT ![c] = "cleanup"]
    /\ UNCHANGED <<stateVars, msgs, work, out, expired, routerVars, managerVars,
                   toServer, events, childVars, historyVars>>

HandshakeTimeout(c) ==
    /\ LockFree
    /\ pc[c] = "read"
    /\ c \in clients \ initialized
    /\ pc' = [pc EXCEPT ![c] = "cleanup"]
    /\ UNCHANGED <<stateVars, msgs, work, out, expired, routerVars, managerVars,
                   toServer, events, childVars, historyVars>>

\* unregister_client at the end of handle_client; the permit is dropped.
Cleanup(c) ==
    /\ LockFree
    /\ pc[c] = "cleanup"
    /\ Unregister(c)
    /\ pc' = [pc EXCEPT ![c] = "done"]
    /\ UNCHANGED <<next_global_id, cached, initializing, server_initialized, msgs, work,
                   out, expired, routerVars, managerVars, toServer, events, childVars,
                   historyVars>>

\* A frame that does not decode: the `?` leaves handle_client at once, without
\* unregister_client.  The permit is dropped, the writer task lives on.
DecodeError(c) ==
    /\ "decode" \in Faults
    /\ pc[c] = "read"
    /\ pc' = [pc EXCEPT ![c] = "leaked"]
    /\ UNCHANGED <<stateVars, msgs, work, out, expired, routerVars, managerVars,
                   toServer, events, childVars, historyVars>>

\* The writer task cannot write what it was given and unregisters the client,
\* while the handler may be anywhere.
WriterFails(c) ==
    /\ "write" \in Faults
    /\ LockFree
    /\ c \in clients
    /\ c \in notified \/ \E r \in Request : r[1] = c /\ answers[r] # <<>>
    /\ Unregister(c)
    /\ UNCHANGED <<next_global_id, cached, initializing, server_initialized,
                   handlerVars, expired, routerVars, managerVars, toServer, events,
                   childVars, historyVars>>

(***************************************************************************)
(* The router: one event at a time, a response in up to three sections.    *)
(***************************************************************************)

\* Faulty variant: the cache survives the reset.
RouteResetKeepsCache ==
    /\ LockFree
    /\ rpc = "idle" /\ events # <<>> /\ Head(events).type = "reset"
    /\ events' = Tail(events)
    /\ Deliver({pending[g].req : g \in DOMAIN pending} \cup init_waiting, {})
    /\ pending' = [g \in {} |-> <<>>]
    /\ init_waiting' = {}
    /\ initializing' = FALSE
    /\ UNCHANGED <<cached, clients, initialized, buffered, next_global_id, server_initialized,
                   handlerVars, expired, routerVars, managerVars, toServer, childVars,
                   asked, notified>>

\* reset_state
RouteReset ==
    /\ LockFree
    /\ rpc = "idle" /\ events # <<>> /\ Head(events).type = "reset"
    /\ events' = Tail(events)
    /\ Deliver({pending[g].req : g \in DOMAIN pending} \cup init_waiting, {})
    /\ pending' = [g \in {} |-> <<>>]
    /\ init_waiting' = {}
    /\ cached' = NoCache
    /\ initializing' = FALSE
    /\ UNCHANGED <<clients, initialized, buffered, next_global_id, server_initialized,
                   handlerVars, expired, routerVars, managerVars, toServer, childVars,
                   asked, notified>>

\* A notification, or a message with a null id: to every client.
RouteNotification ==
    /\ LockFree
    /\ rpc = "idle" /\ events # <<>> /\ Head(events).type = "note"
    /\ events' = Tail(events)
    /\ notified' = notified \cup clients
    /\ UNCHANGED <<stateVars, handlerVars, expired, routerVars, managerVars, toServer,
                   childVars, asked, answers>>

\* handle_server_message, first section: claim the pending request.
RouteResponse ==
    /\ LockFree
    /\ rpc = "idle" /\ events # <<>> /\ Head(events).type = "response"
    /\ events' = Tail(events)
    /\ \E m \in Head(events).msg :
         IF m.gid \in DOMAIN pending
         THEN /\ pending' = [g \in DOMAIN pending \ {m.gid} |-> pending[g]]
              /\ held' = {pending[m.gid]}
              /\ resp' = {[about |-> {m.req}, gen |-> Head(events).gen]}
              /\ rpc' = IF pending[m.gid].init THEN "cache" ELSE "reply"
         ELSE UNCHANGED <<pending, held, resp, rpc>>
    /\ UNCHANGED <<clients, initialized, buffered, next_global_id, cached, initializing,
                   init_waiting, server_initialized, handlerVars, expired, managerVars,
                   toServer, childVars, historyVars>>

\* ... second section, for initialize: fill the cache and answer the waiters.
RouteCache ==
    /\ LockFree
    /\ rpc = "cache"
    /\ \E a \in resp : cached' = a /\ Deliver(init_waiting, a.about)
    /\ initializing' = FALSE
    /\ init_waiting' = {}
    /\ rpc' = "reply"
    /\ UNCHANGED <<clients, initialized, buffered, pending, next_global_id,
                   server_initialized, handlerVars, expired, held, resp, managerVars,
                   toServer, events, childVars, asked, notified>>

\* ... last section: the response goes to the client that asked, if it is still there.
RouteReply ==
    /\ LockFree
    /\ rpc = "reply"
    /\ \E a \in resp : Deliver({p.req : p \in held}, a.about)
    /\ held' = {} /\ resp' = {}
    /\ rpc' = "idle"
    /\ UNCHANGED <<stateVars, handlerVars, expired, managerVars, toServer, events,
                   childVars, asked, notified>>

(***************************************************************************)
(* The reaper.                                                             *)
(***************************************************************************)

\* Faulty variant: the expired requests stay in the table.
ReapExpireKeeps ==
    /\ LockFree
    /\ expired = {}
    /\ \E k \in DOMAIN pending :
         /\ expired' = {pending[g].req : g \in {h \in DOMAIN pending : h <= k}}
         /\ pending' = pending
    /\ UNCHANGED <<clients, initialized, buffered, next_global_id, cached, initializing,
                   init_waiting, server_initialized, handlerVars, routerVars,
                   managerVars, toServer, events, childVars, historyVars>>

\* The requests that started longest ago have timed out: those up to some id.
ReapExpire ==
    /\ LockFree
    /\ expired = {}
    /\ \E k \in DOMAIN pending :
         /\ expired' = {pending[g].req : g \in {h \in DOMAIN pending : h <= k}}
         /\ pending' = [g \in {h \in DOMAIN pending : h > k} |-> pending[g]]
    /\ UNCHANGED <<clients, initialized, buffered, next_global_id, cached, initializing,
                   init_waiting, server_initialized, handlerVars, routerVars,
                   managerVars, toServer, events, childVars, historyVars>>

\* Their clients are told in a section of its own.
ReapReply ==
    /\ LockFree
    /\ expired # {}
    /\ Deliver(expired, {})
    /\ expired' = {}
    /\ UNCHANGED <<stateVars, handlerVars, routerVars, managerVars, toServer, events,
                   childVars, asked, notified>>

(***************************************************************************)
(* The server manager.                                                     *)
(***************************************************************************)

\* lazy_start: the first message is taken from the queue before there is a child.
LazyReceive ==
    /\ mpc = "lazy" /\ toServer # <<>>
    /\ mheld' = {Head(toServer)}
    /\ toServer' = Tail(toServer)
    /\ mpc' = "spawn"
    /\ UNCHANGED <<stateVars, handlerVars, expired, routerVars, restarts, events,
                   childVars, historyVars>>

RestartsExhausted == MaxRestarts > 0 /\ restarts >= MaxRestarts

\* publish_status locks the Mutex again while this section still holds it: the
\* manager waits for itself and everyone else waits for the manager.
MaxRestartsReached ==
    /\ mpc = "spawn" /\ RestartsExhausted
    /\ mpc' = "stuck"
    /\ UNCHANGED <<stateVars, handlerVars, expired, routerVars, mheld, restarts,
                   toServer, events, childVars, historyVars>>

Spawn ==
    /\ mpc = "spawn" /\ ~RestartsExhausted
    /\ gen' = gen + 1
    /\ alive' = TRUE
    /\ childIn' = {} /\ greeted' = {} /\ jammed' = {}
    /\ mpc' = IF mheld = {} THEN "run" ELSE "first"
    /\ UNCHANGED <<stateVars, handlerVars, expired, routerVars, mheld, restarts,
                   toServer, events, notes, historyVars>>

\* The command cannot be started: server_manager returns, its receiver is dropped.
SpawnFails ==
    /\ "spawn" \in Faults
    /\ mpc = "spawn" /\ ~RestartsExhausted
    /\ mpc' = "exited"
    /\ mheld' = {} /\ toServer' = <<>>
    /\ UNCHANGED <<stateVars, handlerVars, expired, routerVars, restarts, events,
                   childVars, historyVars>>

\* What the child reads off its standard input.
Feed(m) ==
    /\ childIn' = IF m.type \in {"initialize", "call"} THEN childIn \cup {m} ELSE childIn
    /\ greeted' = IF m.type \in {"initialize", "initialized"}
                  THEN greeted \cup {m.type} ELSE greeted

\* writer.send(msg).await waits while a live child does not read and its pipe is
\* full.  The manager polls nothing else meanwhile: no exit, no restart request.
CanWrite == alive => "stdin" \notin jammed

\* The lazily taken first message; a failed write is only logged.
WriteFirst ==
    /\ mpc = "first" /\ CanWrite
    /\ IF alive THEN \E m \in mheld : Feed(m) ELSE UNCHANGED <<childIn, greeted>>
    /\ mheld' = {}
    /\ mpc' = "run"
    /\ UNCHANGED <<stateVars, handlerVars, expired, routerVars, restarts, toServer,
                   events, gen, alive, notes, jammed, historyVars>>

ReceiveForChild ==
    /\ LockFree
    /\ mpc = "run" /\ toServer # <<>>
    /\ mheld' = {Head(toServer)}
    /\ toServer' = Tail(toServer)
    /\ mpc' = "write"
    /\ UNCHANGED <<stateVars, handlerVars, expired, routerVars, restarts, events,
                   childVars, historyVars>>

\* A failed write loses the message and ends this child.
Write ==
    /\ mpc = "write" /\ CanWrite
    /\ IF alive
       THEN \E m \in mheld : Feed(m) /\ mpc' = "run"
       ELSE mpc' = "cleanup" /\ UNCHANGED <<childIn, greeted>>
    /\ mheld' = {}
    /\ UNCHANGED <<stateVars, handlerVars, expired, routerVars, restarts, toServer,
                   events, gen, alive, notes, jammed, historyVars>>

\* child_wait returns.
ExitNoticed ==
    /\ mpc = "run" /\ ~alive
    /\ mpc' = "cleanup"
    /\ UNCHANGED <<stateVars, handlerVars, expired, routerVars, mheld, restarts,
                   toServer, events, childVars, historyVars>>

\* The heartbeat inspector asked for a restart, of a live child or not.
HeartbeatRestart ==
    /\ "heartbeat" \in Faults
    /\ mpc = "run" /\ gen < MaxGen
    /\ mpc' = "cleanup"
    /\ UNCHANGED <<stateVars, handlerVars, expired, routerVars, mheld, restarts,
                   toServer, events, childVars, historyVars>>

\* Faulty variant: the router is not told.
SendResetForgotten ==
    /\ mpc = "cleanup"
    /\ events' = events
    /\ mpc' = "clear"
    /\ UNCHANGED <<stateVars, handlerVars, expired, routerVars, mheld, restarts,
                   toServer, childVars, historyVars>>

\* The reader task is aborted and the router is told.
SendReset ==
    /\ mpc = "cleanup"
    /\ events' = Append(events, Reset)
    /\ mpc' = "clear"
    /\ UNCHANGED <<stateVars, handlerVars, expired, routerVars, mheld, restarts,
                   toServer, childVars, historyVars>>

\* The manager's own reset; the backoff follows.
ClearCache ==
    /\ mpc = "clear"
    /\ cached' = NoCache
    /\ initializing' = FALSE
    /\ restarts' = restarts + 1
    /\ alive' = FALSE /\ childIn' = {}
    /\ mpc' = "spawn"
    /\ UNCHANGED <<clients, initialized, buffered, pending, next_global_id, init_waiting,
                   server_initialized, handlerVars, expired, routerVars, mheld,
                   toServer, events, gen, greeted, notes, jammed, historyVars>>

(***************************************************************************)
(* The child, and the task that reads its output.  An abort ends that task *)
(* at its next await only, so output may still arrive behind the Reset.    *)
(***************************************************************************)
ReaderRuns ==
    /\ mpc \in {"first", "run", "write", "cleanup", "clear"}
    /\ "stdout" \notin jammed

Respond ==
    /\ ReaderRuns
    /\ \E m \in childIn, n \in 1..MaxCopies :
         /\ events' = events \o [i \in 1..n |->
                        [type |-> "response", msg |-> {m}, gen |-> gen]]
         /\ childIn' = childIn \ {m}
    /\ UNCHANGED <<stateVars, handlerVars, expired, routerVars, managerVars, toServer,
                   gen, alive, greeted, notes, jammed, historyVars>>

Notify ==
    /\ ReaderRuns
    /\ notes < MaxNotes
    /\ notes' = notes + 1
    /\ events' = Append(events, [type |-> "note", msg |-> {}, gen |-> gen])
    /\ UNCHANGED <<stateVars, handlerVars, expired, routerVars, managerVars, toServer,
                   gen, alive, childIn, greeted, jammed, historyVars>>

ChildDies ==
    /\ "exit" \in Faults
    /\ alive /\ gen < MaxGen
    /\ alive' = FALSE
    /\ UNCHANGED <<stateVars, handlerVars, expired, routerVars, managerVars, toServer,
                   events, gen, childIn, greeted, notes, jammed, historyVars>>

\* A live child stops reading for good and its input pipe fills up.
StdinJams ==
    /\ "stdin" \in Faults
    /\ alive /\ "stdin" \notin jammed
    /\ jammed' = jammed \cup {"stdin"}
    /\ UNCHANGED <<stateVars, handlerVars, expired, routerVars, managerVars, toServer,
                   events, gen, alive, childIn, greeted, notes, historyVars>>

\* The reader task meets a frame that does not decode, or the end of the output of
\* a child that lives on.  It ends and tells nobody: what the child has been asked
\* is never heard of again.
ReaderEnds ==
    /\ "stdout" \in Faults
    /\ alive /\ mpc \in {"first", "run", "write"} /\ "stdout" \notin jammed
    /\ jammed' = jammed \cup {"stdout"}
    /\ childIn' = {}
    /\ UNCHANGED <<stateVars, handlerVars, expired, routerVars, managerVars, toServer,
                   events, gen, alive, greeted, notes, historyVars>>

-----------------------------------------------------------------------------
ReadStep(c) ==
    \/ ReadTooLarge(c) \/ ReadInitialize(c) \/ ReadCall(c) \/ ReadNote(c)
    \/ ReadInitialized(c)

HandlerStep(c) ==
    \/ BufferMessage(c) \/ Forward(c) \/ Announce(c) \/ CompleteHandshake(c)
    \/ Cleanup(c)

RouterStep ==
    \/ RouteReset \/ RouteNotification \/ RouteResponse \/ RouteCache \/ RouteReply

ReaperStep == ReapExpire \/ ReapReply

ManagerStep ==
    \/ LazyReceive \/ MaxRestartsReached \/ Spawn \/ SpawnFails \/ WriteFirst
    \/ ReceiveForChild \/ Write \/ ExitNoticed \/ HeartbeatRestart \/ SendReset
    \/ ClearCache

ChildStep == Respond \/ Notify \/ ChildDies \/ StdinJams \/ ReaderEnds

ClientStep(c) ==
    \/ Connect(c) \/ ReadStep(c) \/ HandlerStep(c) \/ SendToServer(c)
    \/ Disconnect(c) \/ HandshakeTimeout(c) \/ DecodeError(c) \/ WriterFails(c)

Next ==
    \/ \E c \in Client : ClientStep(c)
    \/ RouterStep \/ ReaperStep \/ ManagerStep \/ ChildStep

Spec == Init /\ [][Next]_vars

(***************************************************************************)
(* Tokio polls every ready task, its Mutex and its bounded channel are     *)
(* first in first out (a waiting send is served although the room comes    *)
(* and goes: strong fairness), and the reaper and the handshake check run  *)
(* on timers.  Nothing is assumed of clients, of the child or of failures. *)
(***************************************************************************)
Fairness ==
    /\ \A c \in Client : /\ WF_vars(HandlerStep(c))
                         /\ SF_vars(SendToServer(c))
                         /\ WF_vars(HandshakeTimeout(c))
    /\ WF_vars(RouterStep)
    /\ WF_vars(ReaperStep)
    /\ WF_vars(LazyReceive \/ MaxRestartsReached \/ Spawn \/ WriteFirst
               \/ ReceiveForChild \/ Write \/ ExitNoticed \/ SendReset \/ ClearCache)

FairSpec == Spec /\ Fairness

-----------------------------------------------------------------------------
(***************************************************************************)
(* Properties                                                              *)
(***************************************************************************)

\* Type invariant: the shape of MuxState, of the tasks' locals and of the channels.
TypeState ==
    /\ clients \subseteq Client /\ initialized \subseteq Client
    /\ buffered \in [Client -> SUBSET LocalId]
    /\ DOMAIN pending \subseteq Nat
    /\ \A g \in DOMAIN pending : pending[g] \in Pending
    /\ next_global_id \in Nat
    /\ cached \in Cached
    /\ initializing \in BOOLEAN
    /\ init_waiting \subseteq Request
    /\ server_initialized \in BOOLEAN

TypeHandlers ==
    /\ pc \in [Client -> {"new", "read", "buffer", "forward", "send", "announce",
                          "complete", "cleanup", "done", "leaked"}]
    /\ msgs \in [Client -> 0..MaxMsgs]
    /\ work \in [Client -> SUBSET LocalId]
    /\ \A c \in Client : /\ pc[c] = "forward" => work[c] # {}
                         /\ pc[c] = "announce" => msgs[c] # 0
    /\ out \in [Client -> SUBSET Msg]

TypeRouter ==
    /\ expired \subseteq Request
    /\ rpc \in {"idle", "cache", "reply"}
    /\ held \subseteq Pending
    /\ resp \subseteq Cached

TypeManager ==
    /\ mpc \in {"lazy", "spawn", "first", "run", "write", "cleanup", "clear",
                "exited", "stuck"}
    /\ mheld \subseteq Msg
    /\ restarts \in Nat

TypeChild ==
    /\ toServer \in Seq(Msg) /\ events \in Seq(Event)
    /\ gen \in Nat /\ alive \in BOOLEAN
    /\ childIn \subseteq Msg
    /\ greeted \subseteq {"initialize", "initialized"}
    /\ notes \in Nat
    /\ jammed \subseteq {"stdin", "stdout"}

TypeHistory ==
    /\ asked \in [Request -> {"none", "initialize", "call", "large"}]
    /\ answers \in [Request -> Seq(Answer)]
    /\ notified \subseteq Client

TypeOK ==
    /\ TypeState /\ TypeHandlers /\ TypeRouter /\ TypeManager /\ TypeChild
    /\ TypeHistory

\* Where a request that is still to be answered can be.
InWork(r)     == r[2] \in work[r[1]]
InBuffer(r)   == r[2] \in buffered[r[1]]
InPending(r)  == \E g \in DOMAIN pending : pending[g].req = r
InHeld(r)     == \E p \in held : p.req = r
InExpired(r)  == r \in expired
InWaiting(r)  == r \in init_waiting
Answered(r)   == answers[r] # <<>>

Placed(r) ==
    InWork(r) \/ InBuffer(r) \/ InPending(r) \/ InHeld(r) \/ InExpired(r) \/ InWaiting(r)

OwnedOnce(r) ==
    /\ InWork(r)    => ~(InBuffer(r) \/ InPending(r) \/ InHeld(r) \/ InExpired(r)
                           \/ InWaiting(r) \/ Answered(r))
    /\ InBuffer(r)  => ~(InPending(r) \/ InHeld(r) \/ InExpired(r) \/ InWaiting(r)
                           \/ Answered(r))
    /\ InPending(r) => ~(InHeld(r) \/ InExpired(r) \/ InWaiting(r) \/ Answered(r))
    /\ InHeld(r)    => ~(InExpired(r) \/ InWaiting(r) \/ Answered(r))
    /\ InExpired(r) => ~(InWaiting(r) \/ Answered(r))
    /\ InWaiting(r) => ~Answered(r)

PendingInjective ==
    \A g, h \in DOMAIN pending : pending[g].req = pending[h].req => g = h

\* Every request is in one place at a time: two tasks never both own it, although
\* the router and the reaper answer in a later section than the one in which they
\* take it out of pending.
OneOwner == PendingInjective /\ \A r \in Request : OwnedOnce(r)

\* No request is answered twice, whatever timeouts, late or repeated responses,
\* restarts and disconnects interleave.
AtMostOneReply == \A r \in Request : Len(answers[r]) <= 1

\* A response reaches the request it answers: a call gets the response to itself,
\* an initialize the response to some initialize (the cache), across renumbering
\* by global ids and across generations of the child.
NoCrossTalk ==
    \A r \in Request : \A i \in 1..Len(answers[r]) : \A q \in answers[r][i] :
        asked[q] = asked[r] /\ (asked[r] = "call" => q = r)

\* A request of a registered client is never dropped on the floor: until it is
\* answered some task or table still knows it.
RequestAccounted ==
    \A r \in Request :
        asked[r] # "none" /\ r[1] \in clients => Answered(r) \/ Placed(r)

\* The messages on their way to the child or in it.
Queued == {toServer[i] : i \in 1..Len(toServer)}

InFlight == (UNION {out[c] : c \in Client}) \cup Queued \cup mheld \cup childIn

\* The messages whose response is on its way to the router.
Responses == UNION {events[i].msg : i \in 1..Len(events)}

ResetQueued == \E i \in 1..Len(events) : events[i].type = "reset"

\* A pending request whose message is gone is about to be failed: either a Reset is
\* queued or the manager is on its way to send one.  Otherwise the client would wait
\* for the request timeout.  Two cases do leave it to the timeout.  After a failed
\* spawn there is nobody left to reset.  And a live child whose output is no longer
\* read is kept (server.rs:244-251), where mux-agent/README.md:294 has a failed read
\* restart it and send errors.
LostIsReset ==
    \A g \in DOMAIN pending :
        \/ \E m \in InFlight \cup Responses : m.gid = g
        \/ ResetQueued
        \/ mpc \in {"cleanup", "exited"}
        \/ mpc \in {"first", "run", "write"} /\ (~alive \/ "stdout" \in jammed)

\* cached_initialize of a child that is gone is short-lived: the Reset that clears it
\* is still queued.  The router fills the cache in a later section than the one that
\* found the request, and the manager may clear the cache in between.
CachedFresh == cached.gen \in {0, gen} \/ ResetQueued

\* No call of a registered client is on its way before that client completed its
\* handshake (client.rs:136).
HandshakeFirst ==
    \A m \in InFlight :
        m.type = "call" /\ m.req[1] \in clients => m.req[1] \in initialized

\* The calls of one client get global ids in the order in which they were sent,
\* those that waited in the handshake buffer included.
CallOrder ==
    \A g, h \in DOMAIN pending :
        /\ ~pending[g].init /\ ~pending[h].init
        /\ pending[g].req[1] = pending[h].req[1] /\ g < h
        => pending[g].req[2] < pending[h].req[2]

-----------------------------------------------------------------------------
(***************************************************************************)
(* What makes the invariants above inductive.                              *)
(***************************************************************************)

\* Message numbers, global ids and the tasks' locals keep step with each other: a
\* handler that reads or completes a handshake has no work left, the router holds a
\* request only while it answers it.
Bookkeeping ==
    /\ \A r \in Request : asked[r] # "none" => r[2] <= msgs[r[1]]
    /\ \A c \in Client : pc[c] = "new" => msgs[c] = 0
    /\ \A c \in Client : pc[c] \in {"new", "read", "announce", "complete"}
                         => work[c] = {}
    /\ rpc = "idle" => held = {}
    /\ \A g \in DOMAIN pending : g < next_global_id

\* A request nobody made is nowhere.
NothingUnasked ==
    \A r \in Request : asked[r] = "none" => ~(Placed(r) \/ Answered(r))

OwnerInv == NothingUnasked /\ OneOwner /\ AtMostOneReply /\ RequestAccounted

\* A message that asks something carries an id no later request gets, and while that
\* id is pending it stands for the request the message came from.
Genuine(m) ==
    m.type \in {"initialize", "call"} =>
        /\ m.gid < next_global_id
        /\ asked[m.req] = m.type
        /\ m.gid \in DOMAIN pending => pending[m.gid].req = m.req

\* The tables agree on what each request asked.
KindsAgree ==
    /\ \A r \in Request : InWork(r) \/ InBuffer(r) => asked[r] = "call"
    /\ \A r \in init_waiting : asked[r] = "initialize"
    /\ \A g \in DOMAIN pending :
         asked[pending[g].req] = IF pending[g].init THEN "initialize" ELSE "call"

\* Every message between a handler, the child and the router is genuine.
MessagesGenuine ==
    /\ \A c \in Client : \A m \in out[c] : Genuine(m)
    /\ \A m \in Queued : Genuine(m)
    /\ \A m \in mheld : Genuine(m)
    /\ \A m \in childIn \cup Responses : Genuine(m) /\ m.type \in {"initialize", "call"}

\* What the router is about to send answers the request it holds; what it may put,
\* or has put, into the cache answers an initialize.
AnswersGenuine ==
    /\ rpc # "idle" => held # {} /\ resp # {}
    /\ \A p \in held, a \in resp : a.about = {p.req}
    /\ \A p \in held :
         /\ asked[p.req] = IF p.init THEN "initialize" ELSE "call"
         /\ rpc = "cache" => p.init
    /\ \A q \in cached.about : asked[q] = "initialize"

AddressInv == KindsAgree /\ MessagesGenuine /\ AnswersGenuine

\* A request is settled once it is answered or its client is gone.  One that waits
\* for the handshake of a client whose handler left by DecodeError is given up: that
\* client is never unregistered and its buffer never handed over.
Settled(r) ==
    \/ Answered(r) \/ r[1] \notin clients
    \/ pc[r[1]] = "leaked" /\ InBuffer(r)

\* The manager waits for a child that does not read.
Blocked == mpc \in {"first", "write"} /\ ~CanWrite

\* Every request is settled in the end: the child may stay silent, stop reading or
\* die, its output may be lost, the queue may be full, the handshake may never come
\* (state.rs:77, request_timeout is enforced per forwarded request).  The timeout
\* does not cover a request that has not been given a global id yet: with the manager
\* blocked and the queue full, the handler that is to forward it waits for ever.
RequestSettles ==
    \A r \in Request :
        \/ asked[r] # "none" ~> Settled(r)
        \/ <>[](Blocked /\ QueueFull /\ pc[r[1]] = "send" /\ InWork(r))

\* The same for the requests in the pending table alone.
ForwardedSettles == \A r \in Request : InPending(r) ~> Settled(r)

\* The child is asked to initialize once at a time, other clients wait for that
\* answer (mux-agent/README.md:9, `initialize` is executed once).
InitializeOnce ==
    \A g, h \in DOMAIN pending : pending[g].init /\ pending[h].init => g = h

\* No call reaches a child that has not been told notifications/initialized
\* (client.rs:136-139, buffering prevents backend crashes).
ChildHandshakeFirst ==
    (\E m \in childIn : m.type = "call" /\ m.req[1] \in clients)
        => "initialized" \in greeted

=============================================================================
