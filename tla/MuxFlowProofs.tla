--------------------------- MODULE MuxFlowProofs ----------------------------
(***************************************************************************)
(* What happens to messages on their way: calls wait for the handshake and *)
(* keep their order, and a restart of the child neither loses a pending    *)
(* request silently nor leaves the old child's initialize in the cache.    *)
(* And all of it together: the request path implements the broker.         *)
(***************************************************************************)
EXTENDS MuxRefinement, MuxReplyProofs

\* A registered client whose handler is about to forward a call, at once or after the
\* message it is sending, has completed its handshake.
CallsReady ==
    \A c \in Client :
        /\ c \in clients
        /\ pc[c] = "forward" \/ (pc[c] = "send" /\ work[c] # {})
        => c \in initialized

\* A client is registered once: afterwards it can only leave.
RegistryStep ==
    \A c \in Client :
        /\ c \in clients' => c \in clients \/ pc[c] = "new"
        /\ c \in clients' /\ c \in initialized => c \in initialized'

\* Every step treats the registry in that way.
LEMMA StepRegistry == TypeOK /\ [Next]_vars => RegistryStep
<1> SUFFICES ASSUME TypeOK, [Next]_vars PROVE RegistryStep
  OBVIOUS
<1> USE DEF stateVars, handlerVars, routerVars, managerVars, childVars, historyVars
<1> TypeState /\ TypeHandlers
  BY DEF TypeOK
<1>1. ASSUME UNCHANGED <<clients, initialized>> PROVE RegistryStep
  BY <1>1 DEF RegistryStep
<1>2. ASSUME NEW c \in Client, Connect(c) \/ CompleteHandshake(c) \/ Cleanup(c) \/ WriterFails(c)
      PROVE  RegistryStep
  BY <1>2 DEF Connect, CompleteHandshake, Cleanup, WriterFails, Unregister, RegistryStep
<1>3. ASSUME NEW c \in Client,
             ReadStep(c) \/ BufferMessage(c) \/ Forward(c) \/ Announce(c) \/ SendToServer(c)
               \/ Disconnect(c) \/ HandshakeTimeout(c) \/ DecodeError(c)
      PROVE  RegistryStep
  BY <1>1, <1>3
  DEF ReadStep, ReadTooLarge, ReadInitialize, ReadCall, ReadNote, ReadInitialized,
      BufferMessage, Forward, Announce, SendToServer, Disconnect, HandshakeTimeout,
      DecodeError
<1>4. CASE RouterStep \/ ReaperStep \/ ChildStep \/ UNCHANGED vars
  BY <1>1, <1>4
  DEF RouterStep, RouteReset, RouteNotification, RouteResponse, RouteCache, RouteReply,
      ReaperStep, ReapExpire, ReapReply, ChildStep, Respond, Notify, ChildDies, StdinJams,
      ReaderEnds, vars
<1>5. CASE ManagerStep
  BY <1>1, <1>5
  DEF ManagerStep, LazyReceive, MaxRestartsReached, Spawn, SpawnFails, WriteFirst,
      ReceiveForChild, Write, ExitNoticed, HeartbeatRestart, SendReset, ClearCache
<1> QED
  BY <1>2, <1>3, <1>4, <1>5 DEF Next, ClientStep, HandlerStep

\* Every action leaves the handlers of registered clients ready.
LEMMA StepCallsReady ==
  TypeOK /\ Bookkeeping /\ CallsReady /\ [Next]_vars => CallsReady'
<1> SUFFICES ASSUME TypeOK, Bookkeeping, CallsReady, [Next]_vars, RegistryStep
             PROVE  CallsReady'
  BY StepRegistry
<1> USE DEF stateVars, handlerVars, routerVars, managerVars, childVars, historyVars
<1> TypeState /\ TypeHandlers
  BY DEF TypeOK
<1>1. ASSUME UNCHANGED <<pc, work>> PROVE CallsReady'
  BY <1>1 DEF CallsReady, RegistryStep
<1>2. ASSUME NEW c \in Client, NEW v, pc' = [pc EXCEPT ![c] = v],
             \A d \in Client \ {c} : work'[d] = work[d],
             c \in clients' /\ (v = "forward" \/ (v = "send" /\ work'[c] # {}))
               => c \in initialized'
      PROVE  CallsReady'
  <2> SUFFICES ASSUME NEW d \in Client, d \in clients',
                      pc'[d] = "forward" \/ (pc'[d] = "send" /\ work'[d] # {})
               PROVE  d \in initialized'
    BY DEF CallsReady
  <2>1. CASE d = c
    BY <1>2, <2>1 DEF TypeHandlers
  <2>2. CASE d # c
    <3>1. pc'[d] = pc[d] /\ work'[d] = work[d]
      BY <1>2, <2>2 DEF TypeHandlers
    <3> QED
      BY <3>1 DEF CallsReady, RegistryStep
  <2> QED
    BY <2>1, <2>2
<1>3. ASSUME NEW c \in Client,
             Connect(c) \/ ReadInitialized(c) \/ Announce(c) \/ Disconnect(c)
               \/ HandshakeTimeout(c) \/ DecodeError(c) \/ Cleanup(c)
      PROVE  CallsReady'
  <2>1. UNCHANGED work
    BY <1>3 DEF Connect, ReadInitialized, Announce, Disconnect, HandshakeTimeout,
       DecodeError, Cleanup
  <2>2. \E v \in {"read", "complete", "announce", "cleanup", "leaked", "done"} :
          pc' = [pc EXCEPT ![c] = v]
    BY <1>3 DEF Connect, ReadInitialized, Announce, Disconnect, HandshakeTimeout,
       DecodeError, Cleanup
  <2> QED
    BY <1>2, <2>1, <2>2
<1>4. ASSUME NEW c \in Client, ReadInitialize(c) PROVE CallsReady'
  <2>1. UNCHANGED work /\ work[c] = {}
    BY <1>4 DEF ReadInitialize, Receive, Bookkeeping
  <2>2. UNCHANGED pc \/ pc' = [pc EXCEPT ![c] = "send"]
    BY <1>4 DEF ReadInitialize, Allocate
  <2> QED
    BY <1>1, <1>2, <2>1, <2>2
<1>5. ASSUME NEW c \in Client, ReadCall(c) PROVE CallsReady'
  <2>1. \A d \in Client \ {c} : work'[d] = work[d]
    BY <1>5 DEF ReadCall, TypeHandlers
  <2>2. UNCHANGED <<clients, initialized>>
    BY <1>5 DEF ReadCall
  <2>3. \/ pc' = [pc EXCEPT ![c] = "buffer"]
        \/ pc' = [pc EXCEPT ![c] = "forward"] /\ (c \in clients' => c \in initialized')
    BY <1>5, <2>2 DEF ReadCall, HandshakeComplete
  <2> QED
    BY <1>2, <2>1, <2>3
<1>6. ASSUME NEW c \in Client, BufferMessage(c) \/ CompleteHandshake(c) PROVE CallsReady'
  <2>1. \A d \in Client \ {c} : work'[d] = work[d]
    BY <1>6 DEF BufferMessage, CompleteHandshake, TypeHandlers
  <2>2. \/ pc' = [pc EXCEPT ![c] = "read"]
        \/ /\ pc' = [pc EXCEPT ![c] = AfterOne(buffered[c])]
           /\ c \in clients' => c \in initialized'
    BY <1>6 DEF BufferMessage, CompleteHandshake
  <2> QED
    BY <1>2, <2>1, <2>2 DEF AfterOne
<1>7. ASSUME NEW c \in Client, Forward(c) \/ SendToServer(c) PROVE CallsReady'
  <2>1. \A d \in Client \ {c} : work'[d] = work[d]
    BY <1>7 DEF Forward, SendToServer, TypeHandlers
  <2>2. UNCHANGED <<clients, initialized>>
    BY <1>7 DEF Forward, SendToServer
  <2>3. CASE Forward(c)
    <3>1. c \in clients => c \in initialized
      BY <2>3 DEF Forward, CallsReady
    <3>2. \E v : pc' = [pc EXCEPT ![c] = v]
      BY <2>3 DEF Forward, Allocate
    <3> QED
      BY <1>2, <2>1, <2>2, <3>1, <3>2
  <2>4. CASE SendToServer(c)
    <3>1. pc[c] = "send" /\ pc' = [pc EXCEPT ![c] = AfterOne(work[c])]
      BY <2>4 DEF SendToServer
    <3> QED
      BY <1>2, <2>1, <2>2, <3>1 DEF AfterOne, CallsReady
  <2> QED
    BY <1>7, <2>3, <2>4
<1>8. ASSUME NEW c \in Client, ReadTooLarge(c) \/ ReadNote(c) \/ WriterFails(c)
      PROVE  CallsReady'
  BY <1>1, <1>8 DEF ReadTooLarge, ReadNote, WriterFails
<1>9. CASE RouterStep \/ ReaperStep \/ ChildStep \/ UNCHANGED vars
  BY <1>1, <1>9
  DEF RouterStep, RouteReset, RouteNotification, RouteResponse, RouteCache, RouteReply,
      ReaperStep, ReapExpire, ReapReply, ChildStep, Respond, Notify, ChildDies, StdinJams,
      ReaderEnds, vars
<1>10. CASE ManagerStep
  BY <1>1, <1>10
  DEF ManagerStep, LazyReceive, MaxRestartsReached, Spawn, SpawnFails, WriteFirst,
      ReceiveForChild, Write, ExitNoticed, HeartbeatRestart, SendReset, ClearCache
<1> QED
  BY <1>3, <1>4, <1>5, <1>6, <1>7, <1>8, <1>9, <1>10
  DEF Next, ClientStep, ReadStep, HandlerStep

\* Where a message on its way is.
LEMMA InFlightPlaces ==
  /\ \A m : m \in InFlight <=>
       (\E c \in Client : m \in out[c]) \/ m \in Queued \/ m \in mheld \/ m \in childIn
  /\ \A m : m \in InFlight' <=>
       (\E c \in Client : m \in out'[c]) \/ m \in Queued' \/ m \in mheld' \/ m \in childIn'
<1> DEFINE A == UNION {out[c] : c \in Client}
           B == UNION {out'[c] : c \in Client}
<1>1. \A m : m \in A <=> \E c \in Client : m \in out[c]
  BY Zenon
<1>2. \A m : m \in B <=> \E c \in Client : m \in out'[c]
  BY Zenon
<1>3. /\ InFlight = A \cup Queued \cup mheld \cup childIn
      /\ InFlight' = B \cup Queued' \cup mheld' \cup childIn'
  BY Zenon DEF InFlight
<1> HIDE DEF A, B
<1>4. /\ \A m : m \in InFlight <=> m \in A \/ m \in Queued \/ m \in mheld \/ m \in childIn
      /\ \A m : m \in InFlight' <=>
           m \in B \/ m \in Queued' \/ m \in mheld' \/ m \in childIn'
  BY <1>3
<1> QED
  BY <1>1, <1>2, <1>4

\* A message without an effect on the handshake: no call, with an id only if it asks.
NoCall(m) == m.type # "call" /\ (m.type # "initialize" => m.gid = 0)

\* A message on its way was there before, is no call, or is the call a handler of a
\* ready client has just forwarded.
FlowStep ==
    \A m \in InFlight' :
        \/ m \in InFlight
        \/ NoCall(m)
        \/ /\ m.type = "call"
           /\ \E c \in Client : pc[c] = "forward" /\ m.req[1] = c

\* Every step moves messages in that way.
LEMMA StepFlow == TypeOK /\ [Next]_vars => FlowStep
<1> SUFFICES ASSUME TypeOK, [Next]_vars, NEW m \in InFlight', ~NoCall(m)
             PROVE  \/ m \in InFlight
                    \/ /\ m.type = "call"
                       /\ \E c \in Client : pc[c] = "forward" /\ m.req[1] = c
  BY DEF FlowStep
<1> USE DEF stateVars, handlerVars, routerVars, managerVars, childVars, historyVars
<1> TypeState /\ TypeHandlers /\ TypeManager /\ TypeChild
  BY DEF TypeOK
<1> DEFINE OutsOld == \A c \in Client : out'[c] \subseteq InFlight
<1>1. ASSUME OutsOld, Queued' \subseteq InFlight, mheld' \subseteq InFlight,
             childIn' \subseteq InFlight
      PROVE  m \in InFlight
  BY <1>1, InFlightPlaces
<1>a. /\ \A c \in Client : out[c] \subseteq InFlight
      /\ Queued \subseteq InFlight /\ mheld \subseteq InFlight /\ childIn \subseteq InFlight
  BY InFlightPlaces
<1>o. ASSUME UNCHANGED out PROVE OutsOld
  BY <1>o, <1>a
<1>oe. ASSUME NEW c \in Client, out' = [out EXCEPT ![c] = {}] PROVE OutsOld
  BY <1>oe, <1>a DEF TypeHandlers
<1>q. ASSUME UNCHANGED toServer PROVE Queued' \subseteq InFlight
  BY <1>q, <1>a DEF Queued
<1>qt. ASSUME toServer # <<>>, toServer' = Tail(toServer)
       PROVE  Queued' \subseteq InFlight /\ Head(toServer) \in InFlight
  <2>1. Queued' \subseteq Queued /\ Head(toServer) \in Queued
    BY <1>qt DEF Queued, TypeChild
  <2> QED
    BY <1>a, <2>1
<1>qa. ASSUME NEW k \in Msg, toServer' = Append(toServer, k)
       PROVE  Queued' \subseteq InFlight \cup {k}
  <2>1. Queued' \subseteq Queued \cup {k}
    BY <1>qa DEF Queued, TypeChild
  <2> QED
    BY <1>a, <2>1
<1>2. ASSUME UNCHANGED <<out, toServer, mheld>>, childIn' \subseteq childIn
      PROVE  m \in InFlight
  BY <1>1, <1>2, <1>a, <1>o, <1>q
<1>n. ASSUME NEW c \in Client, NEW r \in Request, NEW type, Allocate(c, r, type),
             UNCHANGED <<toServer, mheld, childIn>>, m \notin InFlight
      PROVE  m = [type |-> type, gid |-> next_global_id, req |-> r]
  <2>1. \E d \in Client : m \in out'[d]
    BY <1>a, <1>n, <1>q, InFlightPlaces
  <2>2. \A d \in Client : d # c => out'[d] = out[d]
    BY <1>n DEF Allocate, TypeHandlers
  <2>3. out'[c] = {[type |-> type, gid |-> next_global_id, req |-> r]}
    BY <1>n DEF Allocate, TypeHandlers
  <2> QED
    BY <1>a, <1>n, <2>1, <2>2, <2>3
<1>3. ASSUME NEW c \in Client, ReadInitialize(c) PROVE m \in InFlight
  <2>1. UNCHANGED <<toServer, mheld, childIn>>
    BY <1>3 DEF ReadInitialize
  <2>2. CASE UNCHANGED out
    BY <1>2, <2>1, <2>2
  <2>3. CASE Allocate(c, Current(c), "initialize")
    <3>1. Current(c) \in Request
      BY <1>3, ReceiveType DEF ReadInitialize
    <3> QED
      BY <1>n, <2>1, <2>3, <3>1 DEF NoCall
  <2> QED
    BY <1>3, <2>2, <2>3 DEF ReadInitialize
<1>4. ASSUME NEW c \in Client, Forward(c)
      PROVE  m \in InFlight \/ (m.type = "call" /\ pc[c] = "forward" /\ m.req[1] = c)
  <2>1. UNCHANGED <<toServer, mheld, childIn>> /\ pc[c] = "forward"
    BY <1>4 DEF Forward
  <2>2. CASE UNCHANGED out
    BY <1>2, <2>1, <2>2
  <2>3. CASE Allocate(c, <<c, Oldest(work[c])>>, "call")
    <3>1. <<c, Oldest(work[c])>> \in Request
      BY <2>1, OldestInWork DEF TypeHandlers, Request
    <3> QED
      BY <1>n, <2>1, <2>3, <3>1
  <2> QED
    BY <1>4, <2>2, <2>3 DEF Forward
<1>5. ASSUME NEW c \in Client, SendToServer(c) PROVE m \in InFlight
  <2>1. UNCHANGED <<mheld, childIn>> /\ out' = [out EXCEPT ![c] = {}]
    BY <1>5 DEF SendToServer
  <2>2. UNCHANGED toServer \/ \E k \in out[c] : toServer' = Append(toServer, k)
    BY <1>5 DEF SendToServer
  <2>3. Queued' \subseteq InFlight
    <3>1. ASSUME NEW k \in out[c], toServer' = Append(toServer, k)
          PROVE  Queued' \subseteq InFlight
      <4>1. k \in InFlight /\ k \in Msg
        BY <1>a DEF TypeHandlers
      <4> QED
        BY <1>qa, <3>1, <4>1
    <3> QED
      BY <1>q, <2>2, <3>1
  <2> QED
    BY <1>1, <1>a, <1>oe, <2>1, <2>3
<1>6. ASSUME NEW c \in Client, ReadNote(c) \/ Announce(c) PROVE m \in InFlight
  <2>1. UNCHANGED <<out, mheld, childIn>>
    BY <1>6 DEF ReadNote, Announce
  <2>2. CASE UNCHANGED toServer
    BY <1>2, <2>1, <2>2
  <2>3. CASE ~UNCHANGED toServer
    <3>1. PICK k \in Msg : toServer' = Append(toServer, k) /\ NoCall(k)
      <4>1. CASE ReadNote(c)
        <5>1. Current(c) \in Request
          BY <4>1, ReceiveType DEF ReadNote
        <5> QED
          BY <2>3, <4>1, <5>1 DEF ReadNote, TrySend, Msg, NoCall
      <4>2. CASE Announce(c)
        <5>1. <<c, msgs[c]>> \in Request
          BY <4>2, BoundsAssumption DEF Announce, TypeHandlers, Request, LocalId
        <5> QED
          BY <2>3, <4>2, <5>1 DEF Announce, TrySend, Msg, NoCall
      <4> QED
        BY <1>6, <4>1, <4>2
    <3>2. Queued' \subseteq InFlight \cup {k}
      BY <1>qa, <3>1
    <3> QED
      BY <1>a, <1>o, <2>1, <3>1, <3>2, InFlightPlaces
  <2> QED
    BY <2>2, <2>3
<1>7. ASSUME NEW c \in Client,
             Connect(c) \/ ReadTooLarge(c) \/ ReadCall(c) \/ ReadInitialized(c)
               \/ BufferMessage(c) \/ CompleteHandshake(c) \/ Cleanup(c)
               \/ WriterFails(c) \/ Disconnect(c) \/ HandshakeTimeout(c)
               \/ DecodeError(c)
      PROVE  m \in InFlight
  BY <1>2, <1>7
  DEF Connect, ReadTooLarge, ReadCall, ReadInitialized, BufferMessage, CompleteHandshake,
      Cleanup, WriterFails, Disconnect, HandshakeTimeout, DecodeError
<1>8. CASE LazyReceive \/ ReceiveForChild
  <2>1. /\ UNCHANGED <<out, childIn>> /\ toServer # <<>> /\ toServer' = Tail(toServer)
        /\ mheld' = {Head(toServer)}
    BY <1>8 DEF LazyReceive, ReceiveForChild
  <2> QED
    BY <1>1, <1>a, <1>o, <1>qt, <2>1
<1>9. CASE SpawnFails
  <2>1. UNCHANGED <<out, childIn>> /\ toServer' = <<>> /\ mheld' = {}
    BY <1>9 DEF SpawnFails
  <2>2. Queued' = {}
    BY <2>1 DEF Queued
  <2> QED
    BY <1>1, <1>a, <1>o, <2>1, <2>2
<1>10. CASE WriteFirst \/ Write
  <2>1. /\ UNCHANGED <<out, toServer>> /\ mheld' = {}
        /\ childIn' \subseteq childIn \cup mheld
    BY <1>10 DEF WriteFirst, Write, Feed
  <2> QED
    BY <1>1, <1>a, <1>o, <1>q, <2>1
<1>11. CASE RouterStep \/ ReaperStep \/ ChildStep \/ UNCHANGED vars
  BY <1>2, <1>11
  DEF RouterStep, RouteReset, RouteNotification, RouteResponse, RouteCache, RouteReply,
      ReaperStep, ReapExpire, ReapReply, ChildStep, Respond, Notify, ChildDies, StdinJams,
      ReaderEnds, vars
<1>12. CASE MaxRestartsReached \/ Spawn \/ ExitNoticed \/ HeartbeatRestart \/ SendReset
            \/ ClearCache
  BY <1>2, <1>12
  DEF MaxRestartsReached, Spawn, ExitNoticed, HeartbeatRestart, SendReset, ClearCache
<1> QED
  BY <1>3, <1>4, <1>5, <1>6, <1>7, <1>8, <1>9, <1>10, <1>11, <1>12
  DEF Next, ClientStep, ReadStep, HandlerStep, ManagerStep

\* A call on its way stays behind its client's handshake.
LEMMA StepHandshake ==
  TypeOK /\ Bookkeeping /\ MessagesGenuine /\ CallsReady /\ HandshakeFirst /\ [Next]_vars
    => HandshakeFirst'
<1> SUFFICES ASSUME TypeOK, Bookkeeping, MessagesGenuine, CallsReady, HandshakeFirst,
                    [Next]_vars, NEW m \in InFlight', m.type = "call",
                    m.req[1] \in clients'
             PROVE  m.req[1] \in initialized'
  BY DEF HandshakeFirst
<1> FlowStep /\ RegistryStep /\ ~NoCall(m)
  BY StepFlow, StepRegistry DEF NoCall
<1>1. CASE m \in InFlight
  <2>1. m \in Msg /\ Genuine(m)
    <3>1. \A k \in Queued : k \in Msg
      BY DEF Queued, TypeOK, TypeChild
    <3> QED
      BY <1>1, <3>1, InFlightPlaces
      DEF MessagesGenuine, TypeOK, TypeHandlers, TypeManager, TypeChild
  <2>2. m.req \in Request /\ asked[m.req] = "call"
    BY <2>1 DEF Genuine, Msg
  <2>3. m.req[1] \in Client /\ pc[m.req[1]] # "new"
    BY <2>2, BoundsAssumption DEF Bookkeeping, Request, LocalId
  <2> QED
    BY <1>1, <2>3 DEF RegistryStep, HandshakeFirst
<1>2. CASE \E c \in Client : pc[c] = "forward" /\ m.req[1] = c
  BY <1>2 DEF RegistryStep, CallsReady
<1> QED
  BY <1>1, <1>2 DEF FlowStep

\* No call of a registered client is on its way to the child before that client has
\* completed its handshake (HandshakeFirst): the check of is_handshake_complete and the
\* buffer are separate lock sections, and the writer may unregister the client between.
THEOREM CallsWaitForHandshake == Spec => []HandshakeFirst
<1> DEFINE Inv == CallsReady /\ HandshakeFirst
<1>1. Init => Inv
  BY DEF Init, CallsReady, HandshakeFirst, InFlight, Queued
<1>2. IInv /\ AddressInv /\ Inv /\ [Next]_vars => Inv'
  BY StepCallsReady, StepHandshake DEF IInv, AddressInv
<1> QED
  BY <1>1, <1>2, AddressCorrect, PTL DEF Spec

-----------------------------------------------------------------------------
\* What a handler still has to forward, now or after the handshake.
ToForward == [c \in Client |-> work[c] \cup buffered[c]]

\* Only a registered client without its handshake has anything buffered, or is about to.
BufferOpen ==
    \A c \in Client :
        /\ buffered[c] # {} => c \in clients /\ c \notin initialized
        /\ pc[c] = "buffer" => c \notin initialized

\* Every action keeps the buffers of all other clients empty.
LEMMA StepBuffer == TypeOK /\ BufferOpen /\ [Next]_vars => BufferOpen'
<1> SUFFICES ASSUME TypeOK, BufferOpen, [Next]_vars PROVE BufferOpen'
  OBVIOUS
<1> USE DEF BufferOpen, stateVars, handlerVars, routerVars, managerVars, childVars,
      historyVars
<1> TypeState /\ TypeHandlers
  BY DEF TypeOK
<1>1. ASSUME UNCHANGED <<buffered, clients, initialized, pc>> PROVE BufferOpen'
  BY <1>1
<1>2. ASSUME NEW c \in Client, NEW v, v # "buffer", pc' = [pc EXCEPT ![c] = v],
             UNCHANGED <<buffered, clients, initialized>>
      PROVE  BufferOpen'
  BY <1>2 DEF TypeHandlers
<1>3. ASSUME NEW c \in Client, Connect(c) PROVE BufferOpen'
  BY <1>3 DEF Connect, TypeHandlers
<1>4. ASSUME NEW c \in Client, ReadCall(c) PROVE BufferOpen'
  BY <1>4 DEF ReadCall, HandshakeComplete, TypeHandlers
<1>5. ASSUME NEW c \in Client, BufferMessage(c) PROVE BufferOpen'
  BY <1>5 DEF BufferMessage, TypeHandlers, TypeState
<1>6. ASSUME NEW c \in Client, CompleteHandshake(c) PROVE BufferOpen'
  BY <1>6 DEF CompleteHandshake, AfterOne, TypeHandlers, TypeState
<1>7. ASSUME NEW c \in Client, Cleanup(c) \/ WriterFails(c) PROVE BufferOpen'
  BY <1>7 DEF Cleanup, WriterFails, Unregister, TypeHandlers, TypeState
<1>8. ASSUME NEW c \in Client, ReadInitialize(c) \/ Forward(c) \/ SendToServer(c)
      PROVE  BufferOpen'
  <2>1. UNCHANGED <<buffered, clients, initialized>>
    BY <1>8 DEF ReadInitialize, Forward, SendToServer
  <2>2. UNCHANGED pc \/ \E v \in {"send", "read", "forward"} : pc' = [pc EXCEPT ![c] = v]
    BY <1>8 DEF ReadInitialize, Forward, SendToServer, Allocate, AfterOne
  <2> QED
    BY <1>1, <1>2, <2>1, <2>2
<1>9. ASSUME NEW c \in Client,
             ReadInitialized(c) \/ Announce(c) \/ Disconnect(c) \/ HandshakeTimeout(c)
               \/ DecodeError(c)
      PROVE  BufferOpen'
  <2>1. UNCHANGED <<buffered, clients, initialized>>
    BY <1>9 DEF ReadInitialized, Announce, Disconnect, HandshakeTimeout, DecodeError
  <2>2. \E v \in {"complete", "announce", "cleanup", "leaked"} : pc' = [pc EXCEPT ![c] = v]
    BY <1>9 DEF ReadInitialized, Announce, Disconnect, HandshakeTimeout, DecodeError
  <2> QED
    BY <1>2, <2>1, <2>2
<1>10. ASSUME NEW c \in Client, ReadTooLarge(c) \/ ReadNote(c) PROVE BufferOpen'
  BY <1>1, <1>10 DEF ReadTooLarge, ReadNote
<1>11. CASE RouterStep \/ ReaperStep \/ ChildStep \/ UNCHANGED vars
  BY <1>1, <1>11
  DEF RouterStep, RouteReset, RouteNotification, RouteResponse, RouteCache, RouteReply,
      ReaperStep, ReapExpire, ReapReply, ChildStep, Respond, Notify, ChildDies, StdinJams,
      ReaderEnds, vars
<1>12. CASE ManagerStep
  BY <1>1, <1>12
  DEF ManagerStep, LazyReceive, MaxRestartsReached, Spawn, SpawnFails, WriteFirst,
      ReceiveForChild, Write, ExitNoticed, HeartbeatRestart, SendReset, ClearCache
<1> QED
  BY <1>3, <1>4, <1>5, <1>6, <1>7, <1>8, <1>9, <1>10, <1>11, <1>12
  DEF Next, ClientStep, ReadStep, HandlerStep

\* A pending call is older than everything its client has still to forward.
CallsAhead ==
    \A g \in DOMAIN pending :
        ~pending[g].init =>
            \A n \in ToForward[pending[g].req[1]] : pending[g].req[2] < n

\* The client of a pending request is a client, and the request has a number.
LEMMA PendingRequest ==
  ASSUME TypeState, NEW g \in DOMAIN pending
  PROVE  /\ pending[g] \in Pending
         /\ pending[g].req \in Request /\ pending[g].init \in BOOLEAN
         /\ pending[g].req[1] \in Client
         /\ pending[g].req[2] \in LocalId /\ pending[g].req[2] \in Nat
  BY BoundsAssumption DEF TypeState, Pending, Request, LocalId

\* Forgetting requests, and handing work on, keeps the order.
LEMMA OrderKept ==
  ASSUME TypeState, CallsAhead, CallOrder,
         \A g \in DOMAIN pending' : g \in DOMAIN pending /\ pending'[g] = pending[g],
         \A c \in Client : ToForward'[c] \subseteq ToForward[c]
  PROVE  CallsAhead' /\ CallOrder'
<1>1. CallsAhead'
  <2> SUFFICES ASSUME NEW g \in DOMAIN pending', ~pending'[g].init,
                      NEW n \in ToForward'[pending'[g].req[1]]
               PROVE  pending'[g].req[2] < n
    BY DEF CallsAhead
  <2>1. g \in DOMAIN pending /\ pending'[g] = pending[g] /\ pending[g].req[1] \in Client
    BY PendingRequest
  <2>2. n \in ToForward[pending[g].req[1]]
    BY <2>1
  <2> QED
    BY <2>1, <2>2 DEF CallsAhead
<1>2. CallOrder'
  BY DEF CallOrder
<1> QED
  BY <1>1, <1>2

\* Every action keeps the calls of each client in their order.
LEMMA StepOrder ==
  TypeOK /\ Bookkeeping /\ KindsAgree /\ CallsReady /\ BufferOpen /\ CallsAhead /\ CallOrder
    /\ [Next]_vars => CallsAhead' /\ CallOrder'
<1> SUFFICES ASSUME TypeOK, Bookkeeping, KindsAgree, CallsReady, BufferOpen, CallsAhead,
                    CallOrder, [Next]_vars
             PROVE  CallsAhead' /\ CallOrder'
  OBVIOUS
<1> USE DEF stateVars, handlerVars, routerVars, managerVars, childVars, historyVars
<1> TypeState /\ TypeHandlers
  BY DEF TypeOK
<1>1. ASSUME UNCHANGED <<work, buffered>>,
             \A g \in DOMAIN pending' : g \in DOMAIN pending /\ pending'[g] = pending[g]
      PROVE  CallsAhead' /\ CallOrder'
  BY <1>1, OrderKept DEF ToForward
<1>2. ASSUME NEW c \in Client, ReadInitialize(c) PROVE CallsAhead' /\ CallOrder'
  <2>1. UNCHANGED <<work, buffered>>
    BY <1>2 DEF ReadInitialize
  <2>2. CASE UNCHANGED pending
    BY <1>1, <2>1, <2>2
  <2>3. CASE Allocate(c, Current(c), "initialize")
    <3>1. \A g \in DOMAIN pending' :
            \/ g \in DOMAIN pending /\ pending'[g] = pending[g]
            \/ pending'[g].init
      BY <2>3 DEF Allocate
    <3>2. CallsAhead'
      BY <2>1, <3>1 DEF CallsAhead, ToForward
    <3>3. CallOrder'
      BY <3>1 DEF CallOrder
    <3> QED
      BY <3>2, <3>3
  <2> QED
    BY <1>2, <2>2, <2>3 DEF ReadInitialize
<1>3. ASSUME NEW c \in Client, ReadCall(c) PROVE CallsAhead' /\ CallOrder'
  <2>1. UNCHANGED <<buffered, pending>> /\ work' = [work EXCEPT ![c] = {msgs[c] + 1}]
    BY <1>3 DEF ReadCall
  <2>2. CallOrder'
    BY <2>1 DEF CallOrder
  <2>3. ASSUME NEW g \in DOMAIN pending, ~pending[g].init,
               NEW n \in ToForward'[pending[g].req[1]]
        PROVE  pending[g].req[2] < n
    <3>1. /\ pending[g].req \in Request /\ pending[g].req[1] \in Client
          /\ pending[g].req[2] \in Nat
      BY PendingRequest
    <3>2. CASE n \in ToForward[pending[g].req[1]]
      BY <2>3, <3>2 DEF CallsAhead
    <3>3. CASE n \notin ToForward[pending[g].req[1]]
      <4>1. pending[g].req[1] = c /\ n = msgs[c] + 1
        BY <2>1, <3>1, <3>3 DEF ToForward, TypeHandlers
      <4>2. asked[pending[g].req] = "call"
        BY <2>3 DEF KindsAgree
      <4>3. pending[g].req[2] <= msgs[c]
        BY <3>1, <4>1, <4>2 DEF Bookkeeping
      <4>4. msgs[c] \in Nat
        BY BoundsAssumption DEF TypeHandlers
      <4> QED
        BY <3>1, <4>1, <4>3, <4>4
    <3> QED
      BY <3>2, <3>3
  <2> QED
    BY <2>1, <2>2, <2>3 DEF CallsAhead
<1>4. ASSUME NEW c \in Client, BufferMessage(c) PROVE CallsAhead' /\ CallOrder'
  <2>1. /\ UNCHANGED pending
        /\ work' = [work EXCEPT ![c] = {}]
        /\ buffered' = [buffered EXCEPT ![c] = IF c \in clients THEN @ \cup work[c] ELSE @]
    BY <1>4 DEF BufferMessage
  <2>2. \A d \in Client : ToForward'[d] \subseteq ToForward[d]
    BY <2>1 DEF ToForward, TypeHandlers, TypeState
  <2> QED
    BY <2>1, <2>2, OrderKept
<1>5. ASSUME NEW c \in Client, CompleteHandshake(c) PROVE CallsAhead' /\ CallOrder'
  <2>1. /\ UNCHANGED pending
        /\ work' = [work EXCEPT ![c] = buffered[c]]
        /\ buffered' = [buffered EXCEPT ![c] = {}]
    BY <1>5 DEF CompleteHandshake
  <2>2. \A d \in Client : ToForward'[d] \subseteq ToForward[d]
    BY <2>1 DEF ToForward, TypeHandlers, TypeState
  <2> QED
    BY <2>1, <2>2, OrderKept
<1>6. ASSUME NEW c \in Client, Forward(c) PROVE CallsAhead' /\ CallOrder'
  <2> DEFINE n == Oldest(work[c])
  <2>1. n \in work[c] /\ \A k \in work[c] : n <= k
    BY <1>6, OldestInWork DEF Forward, TypeHandlers
  <2>2. /\ UNCHANGED buffered
        /\ work' = [work EXCEPT ![c] = @ \ {n}]
        /\ UNCHANGED pending \/ Allocate(c, <<c, n>>, "call")
    BY <1>6 DEF Forward
  <2> HIDE DEF n
  <2>3. \A d \in Client : ToForward'[d] \subseteq ToForward[d]
    BY <2>2 DEF ToForward, TypeHandlers
  <2>4. CASE UNCHANGED pending
    BY <2>3, <2>4, OrderKept
  <2>5. CASE Allocate(c, <<c, n>>, "call")
    <3>1. n \in Nat /\ n \in ToForward[c]
      BY <2>1, BoundsAssumption DEF TypeHandlers, LocalId, ToForward
    <3>2. ASSUME NEW g \in DOMAIN pending'
          PROVE  \/ g \in DOMAIN pending /\ pending'[g] = pending[g]
                 \/ g = next_global_id /\ pending'[g].req = <<c, n>>
      BY <2>5 DEF Allocate
    <3>3. ASSUME NEW g \in DOMAIN pending', ~pending'[g].init,
                 NEW k \in ToForward'[pending'[g].req[1]]
          PROVE  pending'[g].req[2] < k
      <4>1. CASE g \in DOMAIN pending /\ pending'[g] = pending[g]
        <5>1. pending[g].req[1] \in Client
          BY <4>1, PendingRequest
        <5> QED
          BY <2>3, <3>3, <4>1, <5>1 DEF CallsAhead
      <4>2. CASE pending'[g].req = <<c, n>>
        <5>1. k \in work'[c] \/ k \in buffered[c]
          BY <2>2, <3>3, <4>2 DEF ToForward
        <5>2. CASE k \in work'[c]
          <6>1. k \in work[c] /\ k # n
            BY <2>2, <5>2 DEF TypeHandlers
          <6>2. k \in Nat
            BY <6>1, BoundsAssumption DEF TypeHandlers, LocalId
          <6> QED
            BY <2>1, <3>1, <4>2, <6>1, <6>2
        <5>3. CASE k \in buffered[c]
          BY <1>6, <5>3 DEF Forward, CallsReady, BufferOpen
        <5> QED
          BY <5>1, <5>2, <5>3
      <4> QED
        BY <3>2, <4>1, <4>2
    <3>4. CallsAhead'
      BY <3>3 DEF CallsAhead
    <3>5. ASSUME NEW g \in DOMAIN pending', NEW h \in DOMAIN pending',
                 ~pending'[g].init, ~pending'[h].init,
                 pending'[g].req[1] = pending'[h].req[1], g < h
          PROVE  pending'[g].req[2] < pending'[h].req[2]
      <4>1. DOMAIN pending \subseteq Nat /\ next_global_id \in Nat
              /\ \A f \in DOMAIN pending : f < next_global_id
        BY DEF TypeState, Bookkeeping
      <4>2. g \in DOMAIN pending /\ pending'[g] = pending[g]
        BY <3>2, <3>5, <4>1
      <4>3. CASE h \in DOMAIN pending /\ pending'[h] = pending[h]
        BY <3>5, <4>2, <4>3 DEF CallOrder
      <4>4. CASE pending'[h].req = <<c, n>>
        <5>1. pending[g].req[1] = c
          BY <3>5, <4>2, <4>4
        <5> QED
          BY <3>1, <3>5, <4>2, <4>4, <5>1 DEF CallsAhead
      <4> QED
        BY <3>2, <4>3, <4>4
    <3> QED
      BY <3>4, <3>5 DEF CallOrder
  <2> QED
    BY <2>2, <2>4, <2>5
<1>7. ASSUME NEW c \in Client, Cleanup(c) \/ WriterFails(c) PROVE CallsAhead' /\ CallOrder'
  <2>1. UNCHANGED work /\ Unregister(c)
    BY <1>7 DEF Cleanup, WriterFails
  <2>2. \A d \in Client : ToForward'[d] \subseteq ToForward[d]
    BY <2>1 DEF ToForward, Unregister, TypeState
  <2>3. \A g \in DOMAIN pending' : g \in DOMAIN pending /\ pending'[g] = pending[g]
    BY <2>1 DEF Unregister
  <2> QED
    BY <2>2, <2>3, OrderKept
<1>8. ASSUME NEW c \in Client,
             Connect(c) \/ ReadTooLarge(c) \/ ReadNote(c) \/ ReadInitialized(c)
               \/ Announce(c) \/ SendToServer(c) \/ Disconnect(c)
               \/ HandshakeTimeout(c) \/ DecodeError(c)
      PROVE  CallsAhead' /\ CallOrder'
  BY <1>1, <1>8
  DEF Connect, ReadTooLarge, ReadNote, ReadInitialized, Announce, SendToServer,
      Disconnect, HandshakeTimeout, DecodeError
<1>9. CASE RouterStep \/ ReaperStep
  BY <1>1, <1>9
  DEF RouterStep, RouteReset, RouteNotification, RouteResponse, RouteCache, RouteReply,
      ReaperStep, ReapExpire, ReapReply
<1>10. CASE ManagerStep \/ ChildStep \/ UNCHANGED vars
  BY <1>1, <1>10
  DEF ManagerStep, LazyReceive, MaxRestartsReached, Spawn, SpawnFails, WriteFirst,
      ReceiveForChild, Write, ExitNoticed, HeartbeatRestart, SendReset, ClearCache,
      ChildStep, Respond, Notify, ChildDies, StdinJams,
      ReaderEnds, vars
<1> QED
  BY <1>2, <1>3, <1>4, <1>5, <1>6, <1>7, <1>8, <1>9, <1>10
  DEF Next, ClientStep, ReadStep, HandlerStep

\* The calls of one client get global ids in the order in which it sent them, those that
\* waited in the handshake buffer included (CallOrder): complete_handshake hands over the
\* whole buffer before the handler reads on, and nothing is buffered after it.
THEOREM CallsKeepOrder == Spec => []CallOrder
<1> DEFINE Inv == CallsReady /\ BufferOpen /\ CallsAhead /\ CallOrder
<1>1. Init => Inv
  BY DEF Init, CallsReady, BufferOpen, CallsAhead, CallOrder
<1>2. IInv /\ AddressInv /\ Inv /\ [Next]_vars => Inv'
  BY StepCallsReady, StepBuffer, StepOrder DEF IInv, AddressInv
<1> QED
  BY <1>1, <1>2, AddressCorrect, PTL DEF Spec

-----------------------------------------------------------------------------
\* The events between the child's reader, the manager and the router; what follows
\* depends on which are queued, never on their order.
EventSet == {events[i] : i \in 1..Len(events)}

\* The queued events, in the terms of the module.
LEMMA EventViews ==
  /\ ResetQueued <=> \E e \in EventSet : e.type = "reset"
  /\ ResetQueued' <=> \E e \in EventSet' : e.type = "reset"
  /\ \A m : m \in Responses <=> \E e \in EventSet : m \in e.msg
  /\ \A m : m \in Responses' <=> \E e \in EventSet' : m \in e.msg
  BY DEF ResetQueued, Responses, EventSet

\* The router takes the oldest event.
LEMMA EventTaken ==
  ASSUME TypeChild, events # <<>>, events' = Tail(events)
  PROVE  /\ Head(events) \in EventSet /\ Head(events) \in Event
         /\ EventSet' \subseteq EventSet
         /\ EventSet \subseteq EventSet' \cup {Head(events)}
<1>1. /\ events \in Seq(Event) /\ Len(events) \in Nat /\ Len(events) >= 1
      /\ Head(events) = events[1] /\ Len(events') = Len(events) - 1
      /\ \A i \in 1..Len(events) - 1 : events'[i] = events[i + 1]
  BY DEF TypeChild
<1>2. ASSUME NEW i \in 1..Len(events) PROVE events[i] \in EventSet' \cup {events[1]}
  <2>1. CASE i = 1
    BY <2>1
  <2>2. CASE i # 1
    <3>1. i - 1 \in 1..Len(events') /\ events'[i - 1] = events[i]
      BY <1>1, <2>2
    <3> QED
      BY <3>1 DEF EventSet
  <2> QED
    BY <2>1, <2>2
<1>3. ASSUME NEW i \in 1..Len(events') PROVE events'[i] \in EventSet
  <2>1. i + 1 \in 1..Len(events) /\ events'[i] = events[i + 1]
    BY <1>1
  <2> QED
    BY <2>1 DEF EventSet
<1>4. Head(events) \in EventSet /\ Head(events) \in Event
  <2>1. 1 \in 1..Len(events) /\ events[1] \in Event
    BY <1>1
  <2> QED
    BY <1>1, <2>1 DEF EventSet
<1>5. ASSUME NEW x \in EventSet' PROVE x \in EventSet
  <2>1. PICK i \in 1..Len(events') : x = events'[i]
    BY <1>5 DEF EventSet
  <2> QED
    BY <1>3, <2>1
<1>6. ASSUME NEW x \in EventSet PROVE x \in EventSet' \cup {Head(events)}
  <2>1. PICK i \in 1..Len(events) : x = events[i]
    BY <1>6 DEF EventSet
  <2> QED
    BY <1>1, <1>2, <2>1
<1> QED
  BY <1>4, <1>5, <1>6, Zenon

\* The manager or the reader adds one.
LEMMA EventAdded ==
  ASSUME TypeChild, NEW e \in Event, events' = Append(events, e)
  PROVE  EventSet' = EventSet \cup {e}
<1>1. /\ events \in Seq(Event) /\ Len(events) \in Nat /\ Len(events') = Len(events) + 1
      /\ events'[Len(events) + 1] = e
      /\ \A i \in 1..Len(events) : events'[i] = events[i]
  BY DEF TypeChild
<1> QED
  BY <1>1 DEF EventSet

\* The reader adds one or more copies of one.
LEMMA EventsRepeated ==
  ASSUME TypeChild, NEW e \in Event, NEW copies \in Seq(Event), Len(copies) >= 1,
         \A i \in 1..Len(copies) : copies[i] = e, events' = events \o copies
  PROVE  EventSet' = EventSet \cup {e}
<1>1. /\ events \in Seq(Event) /\ Len(events) \in Nat /\ Len(copies) \in Nat
      /\ Len(events') = Len(events) + Len(copies)
      /\ \A i \in 1..Len(events) : events'[i] = events[i]
      /\ \A i \in Len(events)+1..Len(events') : events'[i] = copies[i - Len(events)]
  BY DEF TypeChild
<1>2. ASSUME NEW i \in 1..Len(events'), i \notin 1..Len(events) PROVE events'[i] = e
  <2>1. i - Len(events) \in 1..Len(copies) /\ i \in Len(events)+1..Len(events')
    BY <1>1, <1>2
  <2> QED
    BY <1>1, <2>1
<1>3. e \in EventSet'
  <2>1. Len(events) + 1 \in 1..Len(events') /\ Len(events) + 1 \notin 1..Len(events)
    BY <1>1
  <2> QED
    BY <1>2, <2>1 DEF EventSet
<1>4. EventSet' \subseteq EventSet \cup {e}
  BY <1>1, <1>2 DEF EventSet
<1>5. EventSet \subseteq EventSet'
  <2>1. \A i \in 1..Len(events) : i \in 1..Len(events')
    BY <1>1
  <2> QED
    BY <1>1, <2>1 DEF EventSet
<1> QED
  BY <1>3, <1>4, <1>5

\* A response of the child to m arrives, once or more often.
LEMMA Responded ==
  ASSUME TypeChild, Respond
  PROVE  \E m \in childIn :
           /\ EventSet' = EventSet \cup {[type |-> "response", msg |-> {m}, gen |-> gen]}
           /\ childIn' = childIn \ {m}
<1>1. PICK m \in childIn, n \in 1..MaxCopies :
        /\ events' = events \o [i \in 1..n |->
                       [type |-> "response", msg |-> {m}, gen |-> gen]]
        /\ childIn' = childIn \ {m}
  BY DEF Respond
<1> DEFINE e == [type |-> "response", msg |-> {m}, gen |-> gen]
           copies == [i \in 1..n |-> e]
<1>2. n \in Nat /\ n >= 1 /\ e \in Event
  BY BoundsAssumption DEF TypeChild, Event
<1> HIDE DEF e
<1>3. copies \in Seq(Event) /\ Len(copies) = n /\ \A i \in 1..n : copies[i] = e
  BY <1>2
<1>4. events' = events \o copies
  BY <1>1 DEF e
<1> HIDE DEF copies
<1>5. EventSet' = EventSet \cup {e}
  BY <1>2, <1>3, <1>4, EventsRepeated
<1> QED
  BY <1>1, <1>5 DEF e

\* The manager takes the oldest message from its channel.
LEMMA MessageTaken ==
  ASSUME TypeChild, toServer # <<>>, toServer' = Tail(toServer)
  PROVE  /\ Head(toServer) \in Queued /\ Head(toServer) \in Msg
         /\ Queued' \subseteq Queued
         /\ Queued \subseteq Queued' \cup {Head(toServer)}
<1>1. /\ toServer \in Seq(Msg) /\ Len(toServer) \in Nat /\ Len(toServer) >= 1
      /\ Head(toServer) = toServer[1] /\ Len(toServer') = Len(toServer) - 1
      /\ \A i \in 1..Len(toServer) - 1 : toServer'[i] = toServer[i + 1]
  BY DEF TypeChild
<1>2. ASSUME NEW i \in 1..Len(toServer) PROVE toServer[i] \in Queued' \cup {toServer[1]}
  <2>1. CASE i = 1
    BY <2>1
  <2>2. CASE i # 1
    <3>1. i - 1 \in 1..Len(toServer') /\ toServer'[i - 1] = toServer[i]
      BY <1>1, <2>2
    <3> QED
      BY <3>1 DEF Queued
  <2> QED
    BY <2>1, <2>2
<1>3. ASSUME NEW i \in 1..Len(toServer') PROVE toServer'[i] \in Queued
  <2>1. i + 1 \in 1..Len(toServer) /\ toServer'[i] = toServer[i + 1]
    BY <1>1
  <2> QED
    BY <2>1 DEF Queued
<1>4. Head(toServer) \in Queued /\ Head(toServer) \in Msg
  <2>1. 1 \in 1..Len(toServer) /\ toServer[1] \in Msg
    BY <1>1
  <2> QED
    BY <1>1, <2>1 DEF Queued
<1>5. ASSUME NEW x \in Queued' PROVE x \in Queued
  <2>1. PICK i \in 1..Len(toServer') : x = toServer'[i]
    BY <1>5 DEF Queued
  <2> QED
    BY <1>3, <2>1
<1>6. ASSUME NEW x \in Queued PROVE x \in Queued' \cup {Head(toServer)}
  <2>1. PICK i \in 1..Len(toServer) : x = toServer[i]
    BY <1>6 DEF Queued
  <2> QED
    BY <1>1, <1>2, <2>1
<1> QED
  BY <1>4, <1>5, <1>6, Zenon

\* A handler adds one.
LEMMA MessageAdded ==
  ASSUME TypeChild, NEW m \in Msg, toServer' = Append(toServer, m)
  PROVE  Queued' = Queued \cup {m}
<1>1. /\ toServer \in Seq(Msg) /\ Len(toServer) \in Nat
      /\ Len(toServer') = Len(toServer) + 1 /\ toServer'[Len(toServer) + 1] = m
      /\ \A i \in 1..Len(toServer) : toServer'[i] = toServer[i]
  BY DEF TypeChild
<1> QED
  BY <1>1 DEF Queued

-----------------------------------------------------------------------------
AtMostOne(S) == \A x, y \in S : x = y

\* Handlers, the manager and each response carry one message at a time, and no place
\* that is about to be overwritten holds one.
OneMessageEach ==
    /\ \A c \in Client : AtMostOne(out[c]) /\ (pc[c] # "send" => out[c] = {})
    /\ AtMostOne(mheld)
    /\ mpc \notin {"spawn", "first", "write", "stuck"} => mheld = {}
    /\ mpc \in {"lazy", "spawn"} => childIn = {}
    /\ \A e \in EventSet : AtMostOne(e.msg) /\ (e.type # "response" => e.msg = {})

\* The id 0 is left to notifications.
IdsPositive ==
    /\ next_global_id > 0
    /\ \A g \in DOMAIN pending : g > 0
    /\ \A m \in InFlight : m.type \notin {"initialize", "call"} => m.gid = 0

\* The current child's Reset has been sent, or there has been no child yet.
Over == mpc \notin {"first", "run", "write", "cleanup"}

\* Output of child n comes from a child whose Reset has been sent.
Stale(n) == n < gen \/ Over

\* Nothing comes from a child that has not been spawned.
GensBounded ==
    /\ cached.gen <= gen
    /\ \A a \in resp : a.gen <= gen
    /\ \A e \in EventSet : e.gen <= gen

\* Once a child's Reset has been routed, what it still says finds no pending request,
\* and neither the cache nor the router keeps an initialize of it.
StaleForgotten ==
    ~ResetQueued =>
        /\ Over => \A m \in childIn : m.gid \notin DOMAIN pending
        /\ \A e \in EventSet : Stale(e.gen) => \A m \in e.msg : m.gid \notin DOMAIN pending
        /\ rpc = "cache" => \A a \in resp : ~Stale(a.gen)
        /\ cached.gen = 0 \/ ~Stale(cached.gen)

\* Every action keeps the places to one message.
LEMMA StepOneMessage == TypeOK /\ OneMessageEach /\ [Next]_vars => OneMessageEach'
<1> SUFFICES ASSUME TypeOK, OneMessageEach, [Next]_vars PROVE OneMessageEach'
  OBVIOUS
<1> USE DEF stateVars, handlerVars, routerVars, managerVars, childVars, historyVars
<1> TypeHandlers /\ TypeManager /\ TypeChild
  BY DEF TypeOK
<1> DEFINE OutsOne   == \A c \in Client : AtMostOne(out[c]) /\ (pc[c] # "send" => out[c] = {})
           ManagerOne == /\ AtMostOne(mheld)
                         /\ mpc \notin {"spawn", "first", "write", "stuck"} => mheld = {}
                         /\ mpc \in {"lazy", "spawn"} => childIn = {}
           EventsOne == \A e \in EventSet :
                          AtMostOne(e.msg) /\ (e.type # "response" => e.msg = {})
<1>a. OutsOne /\ ManagerOne /\ EventsOne
  BY DEF OneMessageEach
<1>b. ASSUME OutsOne', ManagerOne', EventsOne' PROVE OneMessageEach'
  BY <1>b DEF OneMessageEach
<1>o. ASSUME UNCHANGED <<pc, out>> PROVE OutsOne'
  BY <1>a, <1>o
<1>m. ASSUME UNCHANGED <<mpc, mheld, childIn>> PROVE ManagerOne'
  BY <1>a, <1>m
<1>e. ASSUME UNCHANGED events PROVE EventsOne'
  <2>1. EventSet' = EventSet
    BY <1>e DEF EventSet
  <2> QED
    BY <1>a, <2>1
<1>et. ASSUME events # <<>>, events' = Tail(events) PROVE EventsOne'
  BY <1>a, <1>et, EventTaken
<1>ea. ASSUME NEW e \in Event, e.msg = {}, events' = Append(events, e) PROVE EventsOne'
  <2>1. EventSet' = EventSet \cup {e}
    BY <1>ea, EventAdded
  <2> QED
    BY <1>a, <1>ea, <2>1 DEF AtMostOne
<1> HIDE DEF ManagerOne, EventsOne
<1>1. ASSUME NEW c \in Client, NEW v, pc' = [pc EXCEPT ![c] = v],
             \/ pc[c] # "send" /\ UNCHANGED out
             \/ out' = [out EXCEPT ![c] = {}]
             \/ v = "send" /\ \E m : out' = [out EXCEPT ![c] = {m}]
      PROVE  OutsOne'
  BY <1>1, <1>a DEF TypeHandlers, AtMostOne
<1>2. ASSUME NEW c \in Client, ReadInitialize(c) \/ Forward(c) PROVE OneMessageEach'
  <2>1. UNCHANGED <<mpc, mheld, childIn, events>> /\ pc[c] # "send"
    BY <1>2 DEF ReadInitialize, Forward, Receive
  <2>2. \/ UNCHANGED <<pc, out>>
        \/ \E v : pc' = [pc EXCEPT ![c] = v] /\ UNCHANGED out
        \/ pc' = [pc EXCEPT ![c] = "send"] /\ \E m : out' = [out EXCEPT ![c] = {m}]
    BY <1>2 DEF ReadInitialize, Forward, Allocate
  <2>3. OutsOne'
    BY <1>1, <1>o, <2>1, <2>2
  <2> QED
    BY <1>b, <1>m, <1>e, <2>1, <2>3
<1>3. ASSUME NEW c \in Client, SendToServer(c) PROVE OneMessageEach'
  <2>1. /\ UNCHANGED <<mpc, mheld, childIn, events>>
        /\ out' = [out EXCEPT ![c] = {}] /\ pc' = [pc EXCEPT ![c] = AfterOne(work[c])]
    BY <1>3 DEF SendToServer
  <2> QED
    BY <1>1, <1>b, <1>m, <1>e, <2>1
<1>4. ASSUME NEW c \in Client,
             Connect(c) \/ ReadCall(c) \/ ReadInitialized(c) \/ BufferMessage(c)
               \/ Announce(c) \/ CompleteHandshake(c) \/ Cleanup(c) \/ Disconnect(c)
               \/ HandshakeTimeout(c) \/ DecodeError(c)
      PROVE  OneMessageEach'
  <2>1. UNCHANGED <<mpc, mheld, childIn, events, out>> /\ pc[c] # "send"
    BY <1>4 DEF Connect, ReadCall, ReadInitialized, BufferMessage, Announce, Receive,
       CompleteHandshake, Cleanup, Disconnect, HandshakeTimeout, DecodeError
  <2>2. \E v : pc' = [pc EXCEPT ![c] = v]
    BY <1>4, Zenon DEF Connect, ReadCall, ReadInitialized, BufferMessage, Announce,
       CompleteHandshake, Cleanup, Disconnect, HandshakeTimeout, DecodeError
  <2> QED
    BY <1>1, <1>b, <1>m, <1>e, <2>1, <2>2
<1>5. ASSUME NEW c \in Client, ReadTooLarge(c) \/ ReadNote(c) \/ WriterFails(c)
      PROVE  OneMessageEach'
  BY <1>5, <1>b, <1>o, <1>m, <1>e DEF ReadTooLarge, ReadNote, WriterFails
<1>6. CASE RouteReset \/ RouteNotification \/ RouteResponse
  <2>1. /\ UNCHANGED <<pc, out, mpc, mheld, childIn>>
        /\ events # <<>> /\ events' = Tail(events)
    BY <1>6 DEF RouteReset, RouteNotification, RouteResponse
  <2> QED
    BY <1>b, <1>o, <1>m, <1>et, <2>1
<1>7. CASE RouteCache \/ RouteReply \/ ReaperStep \/ ChildDies \/ StdinJams
           \/ UNCHANGED vars
  BY <1>7, <1>b, <1>o, <1>m, <1>e
  DEF RouteCache, RouteReply, ReaperStep, ReapExpire, ReapReply, ChildDies, StdinJams, vars
<1>8. CASE SendReset
  <2>1. UNCHANGED <<pc, out>> /\ Reset \in Event /\ Reset.msg = {}
          /\ events' = Append(events, Reset)
    BY <1>8 DEF SendReset, Reset, Event
  <2>2. ManagerOne'
    BY <1>8, <1>a DEF SendReset, ManagerOne
  <2> QED
    BY <1>b, <1>o, <1>ea, <2>1, <2>2
<1>9. CASE Notify
  <2>1. UNCHANGED <<pc, out, mpc, mheld, childIn>>
    BY <1>9 DEF Notify
  <2>2. PICK e \in Event : e.msg = {} /\ events' = Append(events, e)
    BY <1>9 DEF Notify, Event, TypeChild
  <2> QED
    BY <1>b, <1>o, <1>m, <1>ea, <2>1, <2>2
<1>10. CASE Respond
  <2>1. UNCHANGED <<pc, out, mpc, mheld>> /\ mpc \notin {"lazy", "spawn"}
    BY <1>10 DEF Respond, ReaderRuns
  <2>2. PICK m \in childIn :
          /\ EventSet' = EventSet \cup {[type |-> "response", msg |-> {m}, gen |-> gen]}
          /\ childIn' = childIn \ {m}
    BY <1>10, Responded
  <2>3. EventsOne'
    BY <1>a, <2>2 DEF EventsOne, AtMostOne
  <2>4. ManagerOne'
    BY <1>a, <2>1 DEF ManagerOne
  <2> QED
    BY <1>b, <1>o, <2>1, <2>3, <2>4
<1>11. CASE ManagerStep /\ ~SendReset
  <2>1. UNCHANGED <<pc, out, events>>
    BY <1>11
    DEF ManagerStep, LazyReceive, MaxRestartsReached, Spawn, SpawnFails, WriteFirst,
        ReceiveForChild, Write, ExitNoticed, HeartbeatRestart, ClearCache
  <2>2. ManagerOne'
    BY <1>11, <1>a
    DEF ManagerStep, LazyReceive, MaxRestartsReached, Spawn, SpawnFails, WriteFirst,
        ReceiveForChild, Write, ExitNoticed, HeartbeatRestart, ClearCache, ManagerOne,
        AtMostOne
  <2> QED
    BY <1>b, <1>o, <1>e, <2>1, <2>2
<1>12. CASE ReaderEnds
  <2>1. UNCHANGED <<pc, out, mpc, mheld, events>> /\ childIn' = {}
    BY <1>12 DEF ReaderEnds
  <2>2. ManagerOne'
    BY <1>a, <2>1 DEF ManagerOne
  <2> QED
    BY <1>b, <1>o, <1>e, <2>1, <2>2
<1> QED
  BY <1>2, <1>3, <1>4, <1>5, <1>6, <1>7, <1>8, <1>9, <1>10, <1>11, <1>12
  DEF Next, ClientStep, ReadStep, HandlerStep, RouterStep, ChildStep

\* Every action leaves the id 0 to notifications.
LEMMA StepIds == TypeOK /\ Bookkeeping /\ IdsPositive /\ [Next]_vars => IdsPositive'
<1> SUFFICES ASSUME TypeOK, Bookkeeping, IdsPositive, [Next]_vars, FlowStep, TablesGrow
             PROVE  IdsPositive'
  BY StepFlow, StepTablesGrow
<1>1. next_global_id \in Nat /\ next_global_id > 0 /\ DOMAIN pending \subseteq Nat
  BY DEF TypeOK, TypeState, IdsPositive
<1>2. next_global_id' > 0
  BY <1>1 DEF TablesGrow
<1>3. TypeOK'
  BY StepTypeOK
<1>4. \A g \in DOMAIN pending' : g > 0
  <2> SUFFICES ASSUME NEW g \in DOMAIN pending' PROVE g > 0
    OBVIOUS
  <2>1. g \in DOMAIN pending \/ g >= next_global_id
    BY DEF TablesGrow
  <2>2. g \in Nat
    BY <1>3 DEF TypeOK, TypeState
  <2> QED
    BY <1>1, <2>1, <2>2 DEF IdsPositive
<1>5. \A m \in InFlight' : m.type \notin {"initialize", "call"} => m.gid = 0
  BY DEF FlowStep, NoCall, IdsPositive
<1> QED
  BY <1>2, <1>4, <1>5 DEF IdsPositive

\* Every action leaves nothing of an old child behind its Reset.
LEMMA StepStale ==
  TypeOK /\ Bookkeeping /\ MessagesGenuine /\ GensBounded /\ StaleForgotten /\ [Next]_vars
    => GensBounded' /\ StaleForgotten'
<1> SUFFICES ASSUME TypeOK, Bookkeeping, MessagesGenuine, GensBounded, StaleForgotten,
                    [Next]_vars, TablesGrow
             PROVE  GensBounded' /\ StaleForgotten'
  BY StepTablesGrow
<1> USE DEF stateVars, handlerVars, routerVars, managerVars, childVars, historyVars
<1> TypeState /\ TypeRouter /\ TypeManager /\ TypeChild
  BY DEF TypeOK
<1>g. gen \in Nat /\ cached.gen \in Nat /\ \A a \in resp : a.gen \in Nat
  BY DEF TypeState, TypeRouter, TypeChild, Cached
<1>v. \A e \in EventSet : e.gen \in Nat /\ e \in Event
  <2>1. \A i \in 1..Len(events) : events[i] \in Event
    BY DEF TypeChild
  <2>2. \A e \in Event : e.gen \in Nat
    BY DEF Event
  <2> QED
    BY <2>1, <2>2 DEF EventSet
<1>p. ASSUME NEW m \in Msg, Genuine(m), m.type \in {"initialize", "call"},
             m.gid \notin DOMAIN pending
      PROVE  m.gid \notin DOMAIN pending'
  <2>1. m.gid < next_global_id /\ m.gid \in Nat /\ next_global_id \in Nat
    BY <1>p DEF Genuine, Msg, TypeState
  <2> QED
    BY <1>p, <2>1 DEF TablesGrow
<1>c. \A m \in childIn : m.gid \notin DOMAIN pending => m.gid \notin DOMAIN pending'
  BY <1>p DEF MessagesGenuine, TypeChild
<1>r. \A e \in EventSet : \A m \in e.msg :
        m.gid \notin DOMAIN pending => m.gid \notin DOMAIN pending'
  <2> SUFFICES ASSUME NEW e \in EventSet, NEW m \in e.msg, m.gid \notin DOMAIN pending
               PROVE  m.gid \notin DOMAIN pending'
    OBVIOUS
  <2>1. m \in Responses /\ m \in Msg
    BY <1>v, EventViews DEF Event
  <2> QED
    BY <1>p, <2>1 DEF MessagesGenuine
<1>1. ASSUME UNCHANGED <<events, gen, rpc, resp, cached>>, Over' <=> Over,
             Over' => childIn' \subseteq childIn
      PROVE  GensBounded' /\ StaleForgotten'
  <2>1. EventSet' = EventSet
    BY <1>1 DEF EventSet
  <2>2. GensBounded'
    BY <1>1, <2>1 DEF GensBounded
  <2>3. StaleForgotten'
    BY <1>1, <2>1, <1>c, <1>r, EventViews DEF StaleForgotten, Stale
  <2> QED
    BY <2>2, <2>3
<1>2. ASSUME NEW c \in Client, ClientStep(c) PROVE GensBounded' /\ StaleForgotten'
  BY <1>1, <1>2
  DEF Over, ClientStep, ReadStep, HandlerStep, Connect, ReadTooLarge, ReadInitialize, ReadCall,
      ReadNote, ReadInitialized, BufferMessage, Forward, Announce, CompleteHandshake,
      Cleanup, SendToServer, Disconnect, HandshakeTimeout, DecodeError, WriterFails
<1>3. CASE ReaperStep \/ ChildDies \/ StdinJams \/ ReaderEnds \/ UNCHANGED vars
  BY <1>1, <1>3
  DEF Over, ReaperStep, ReapExpire, ReapReply, ChildDies, StdinJams, ReaderEnds, vars
<1>4. CASE LazyReceive \/ MaxRestartsReached \/ SpawnFails \/ WriteFirst \/ ReceiveForChild
           \/ Write \/ ExitNoticed \/ HeartbeatRestart
  BY <1>1, <1>4
  DEF Over, LazyReceive, MaxRestartsReached, SpawnFails, WriteFirst, ReceiveForChild, Write,
      ExitNoticed, HeartbeatRestart
<1>5. CASE RouteReset
  <2>1. /\ events # <<>> /\ events' = Tail(events) /\ rpc' # "cache" /\ DOMAIN pending' = {}
        /\ cached' = NoCache /\ UNCHANGED <<gen, resp>>
    BY <1>5 DEF RouteReset
  <2>2. EventSet' \subseteq EventSet
    BY <2>1, EventTaken
  <2> QED
    BY <1>g, <2>1, <2>2 DEF GensBounded, StaleForgotten, NoCache
<1>6. CASE RouteNotification \/ RouteResponse
  <2>1. /\ events # <<>> /\ events' = Tail(events) /\ Head(events).type # "reset"
        /\ UNCHANGED <<gen, cached, mpc, childIn>>
    BY <1>6 DEF RouteNotification, RouteResponse
  <2>2. /\ EventSet' \subseteq EventSet /\ EventSet \subseteq EventSet' \cup {Head(events)}
        /\ Head(events) \in EventSet
    BY <2>1, EventTaken
  <2>3. ResetQueued' <=> ResetQueued
    BY <2>1, <2>2, EventViews
  <2>4. \/ UNCHANGED <<rpc, resp>>
        \/ \E m \in Head(events).msg :
             m.gid \in DOMAIN pending /\ \A a \in resp' : a.gen = Head(events).gen
    <3>1. CASE RouteNotification
      BY <3>1 DEF RouteNotification
    <3>2. CASE RouteResponse
      <4>1. PICK m \in Head(events).msg :
              \/ UNCHANGED <<rpc, resp>>
              \/ /\ m.gid \in DOMAIN pending
                 /\ resp' = {[about |-> {m.req}, gen |-> Head(events).gen]}
        BY <3>2 DEF RouteResponse
      <4>2. ASSUME resp' = {[about |-> {m.req}, gen |-> Head(events).gen]}
            PROVE  \A a \in resp' : a.gen = Head(events).gen
        BY <4>2
      <4> QED
        BY <4>1, <4>2
    <3> QED
      BY <1>6, <3>1, <3>2
  <2>5. GensBounded'
    BY <2>1, <2>2, <2>4 DEF GensBounded
  <2>6. ASSUME ~ResetQueued, rpc' = "cache" PROVE \A a \in resp' : ~Stale(a.gen)
    BY <2>2, <2>4, <2>6 DEF StaleForgotten
  <2>7. \A n : Stale(n)' <=> Stale(n)
    BY <2>1 DEF Stale, Over
  <2>8. ASSUME ~ResetQueued
        PROVE  /\ Over' => \A m \in childIn' : m.gid \notin DOMAIN pending'
               /\ \A e \in EventSet' : Stale(e.gen) =>
                    \A m \in e.msg : m.gid \notin DOMAIN pending'
               /\ cached'.gen = 0 \/ ~Stale(cached'.gen)
    BY <1>c, <1>r, <2>1, <2>2, <2>8 DEF StaleForgotten, Over
  <2>9. StaleForgotten'
    BY <2>1, <2>3, <2>6, <2>7, <2>8 DEF StaleForgotten, Stale, Over
  <2> QED
    BY <2>5, <2>9
<1>7. CASE RouteCache \/ RouteReply
  <2>1. /\ UNCHANGED <<events, gen, mpc, childIn, pending>> /\ rpc' # "cache"
        /\ \A a \in resp' : a \in resp
        /\ UNCHANGED cached \/ (rpc = "cache" /\ cached' \in resp)
    BY <1>7 DEF RouteCache, RouteReply
  <2>2. EventSet' = EventSet /\ (ResetQueued' <=> ResetQueued)
    BY <2>1 DEF EventSet, ResetQueued
  <2>3. GensBounded'
    BY <2>1, <2>2 DEF GensBounded
  <2>4. StaleForgotten'
    BY <2>1, <2>2 DEF StaleForgotten, Stale, Over
  <2> QED
    BY <2>3, <2>4
<1>8. CASE SendReset
  <2>1. /\ UNCHANGED <<gen, cached, resp>> /\ Reset \in Event /\ Reset.gen = 0
        /\ Reset.type = "reset" /\ events' = Append(events, Reset)
    BY <1>8 DEF SendReset, Reset, Event
  <2>2. EventSet' = EventSet \cup {Reset}
    BY <2>1, EventAdded
  <2>3. ResetQueued'
    BY <2>1, <2>2, EventViews
  <2> QED
    BY <1>g, <2>1, <2>2, <2>3 DEF GensBounded, StaleForgotten
<1>9. CASE ClearCache
  <2>1. /\ UNCHANGED <<events, gen, rpc, resp, pending>> /\ childIn' = {}
        /\ cached' = NoCache /\ (Over' <=> Over)
    BY <1>9 DEF ClearCache, Over
  <2>2. EventSet' = EventSet /\ (ResetQueued' <=> ResetQueued)
    BY <2>1 DEF EventSet, ResetQueued
  <2> QED
    BY <1>g, <2>1, <2>2 DEF GensBounded, StaleForgotten, Stale, NoCache
<1>10. CASE Spawn
  <2>1. /\ UNCHANGED <<events, rpc, resp, pending, cached>> /\ gen' = gen + 1
        /\ Over /\ ~Over'
    BY <1>10 DEF Spawn, Over
  <2>2. EventSet' = EventSet /\ (ResetQueued' <=> ResetQueued)
    BY <2>1 DEF EventSet, ResetQueued
  <2>3. GensBounded'
    BY <1>g, <1>v, <2>1, <2>2 DEF GensBounded
  <2>4. StaleForgotten'
    BY <1>g, <1>v, <2>1, <2>2 DEF StaleForgotten, Stale
  <2> QED
    BY <2>3, <2>4
<1>11. CASE Respond
  <2>1. UNCHANGED <<gen, cached, resp, rpc, mpc, pending>>
    BY <1>11 DEF Respond
  <2>2. PICK m \in childIn :
          /\ EventSet' = EventSet \cup {[type |-> "response", msg |-> {m}, gen |-> gen]}
          /\ childIn' = childIn \ {m}
    BY <1>11, Responded
  <2>3. ResetQueued' <=> ResetQueued
    BY <2>2, EventViews
  <2>4. GensBounded'
    BY <1>g, <2>1, <2>2 DEF GensBounded
  <2>5. StaleForgotten'
    BY <1>g, <2>1, <2>2, <2>3 DEF StaleForgotten, Stale, Over
  <2> QED
    BY <2>4, <2>5
<1>12. CASE Notify
  <2>1. UNCHANGED <<gen, cached, resp, rpc, mpc, pending, childIn>>
    BY <1>12 DEF Notify
  <2>2. PICK e \in Event : /\ e.msg = {} /\ e.type # "reset" /\ e.gen = gen
                           /\ events' = Append(events, e)
    BY <1>12 DEF Notify, Event, TypeChild
  <2>3. EventSet' = EventSet \cup {e}
    BY <2>2, EventAdded
  <2>4. ResetQueued' <=> ResetQueued
    BY <2>2, <2>3, EventViews
  <2>5. GensBounded'
    BY <1>g, <2>1, <2>2, <2>3 DEF GensBounded
  <2>6. StaleForgotten'
    BY <2>1, <2>2, <2>3, <2>4 DEF StaleForgotten, Stale, Over
  <2> QED
    BY <2>5, <2>6
<1> QED
  BY <1>2, <1>3, <1>4, <1>5, <1>6, <1>7, <1>8, <1>9, <1>10, <1>11, <1>12
  DEF Next, RouterStep, ManagerStep, ChildStep

\* A message for the pending request g exists somewhere.
Carried(g) == \E m \in InFlight \cup Responses : m.gid = g

\* Pending requests without one are about to be failed.
Excused ==
    \/ ResetQueued
    \/ mpc \in {"cleanup", "exited"}
    \/ mpc \in {"first", "run", "write"} /\ (~alive \/ "stdout" \in jammed)

\* Every action carries each pending request's message on, or leaves an excuse.
LEMMA StepLost ==
  TypeOK /\ Bookkeeping /\ OneMessageEach /\ IdsPositive /\ StaleForgotten /\ LostIsReset
    /\ [Next]_vars => LostIsReset'
<1> SUFFICES ASSUME TypeOK, Bookkeeping, OneMessageEach, IdsPositive, StaleForgotten,
                    LostIsReset, [Next]_vars, ~Excused', NEW g \in DOMAIN pending'
             PROVE  Carried(g)'
  BY DEF LostIsReset, Excused, Carried
<1> USE DEF stateVars, handlerVars, routerVars, managerVars, childVars, historyVars
<1> TypeState /\ TypeHandlers /\ TypeManager /\ TypeChild
  BY DEF TypeOK
<1>l. ASSUME NEW h \in DOMAIN pending, ~Excused PROVE Carried(h)
  BY <1>l DEF LostIsReset, Excused, Carried
<1>w. /\ Carried(g) <=>
           \E m : m.gid = g /\ \/ \E c \in Client : m \in out[c]
                               \/ m \in Queued \/ m \in mheld \/ m \in childIn
                               \/ m \in Responses
      /\ Carried(g)' <=>
           \E m : m.gid = g /\ \/ \E c \in Client : m \in out'[c]
                               \/ m \in Queued' \/ m \in mheld' \/ m \in childIn'
                               \/ m \in Responses'
  BY InFlightPlaces DEF Carried
<1>r. UNCHANGED events =>
        (ResetQueued' <=> ResetQueued) /\ Responses' = Responses
  BY DEF ResetQueued, Responses
<1>q. UNCHANGED toServer => Queued' = Queued
  BY DEF Queued
<1>1. ASSUME UNCHANGED <<out, toServer, mheld, childIn, events, mpc>>,
             alive' => alive, jammed \subseteq jammed', g \in DOMAIN pending
      PROVE  Carried(g)'
  <2>1. ~Excused
    BY <1>1, <1>r DEF Excused, TypeChild
  <2> QED
    BY <1>1, <1>l, <1>w, <1>r, <1>q, <2>1
<1>2. ASSUME NEW c \in Client, NEW r, NEW type, Allocate(c, r, type), pc[c] # "send",
             UNCHANGED <<toServer, mheld, childIn, events, mpc, alive, jammed>>
      PROVE  Carried(g)'
  <2>1. out[c] = {}
    BY <1>2 DEF OneMessageEach
  <2>2. out' = [out EXCEPT ![c] = {[type |-> type, gid |-> next_global_id, req |-> r]}]
    BY <1>2 DEF Allocate
  <2>3. g \in DOMAIN pending \/ g = next_global_id
    BY <1>2 DEF Allocate
  <2>4. CASE g = next_global_id
    <3>1. [type |-> type, gid |-> next_global_id, req |-> r] \in out'[c]
      BY <2>2 DEF TypeHandlers
    <3>2. [type |-> type, gid |-> next_global_id, req |-> r].gid = g
      BY <2>4
    <3> QED
      BY <1>w, <3>1, <3>2
  <2>5. CASE g \in DOMAIN pending
    <3>1. Carried(g)
      BY <1>2, <1>l, <1>r, <2>5 DEF Excused
    <3>2. \A d \in Client : out[d] \subseteq out'[d]
      BY <2>1, <2>2 DEF TypeHandlers
    <3>3. PICK m : m.gid = g /\ \/ \E d \in Client : m \in out[d]
                                \/ m \in Queued \/ m \in mheld \/ m \in childIn
                                \/ m \in Responses
      BY <1>w, <3>1
    <3> QED
      BY <1>2, <1>w, <1>r, <1>q, <3>2, <3>3
  <2> QED
    BY <2>3, <2>4, <2>5
<1>3. ASSUME NEW c \in Client, ReadInitialize(c) PROVE Carried(g)'
  <2>1. UNCHANGED <<toServer, mheld, childIn, events, mpc, alive, jammed>> /\ pc[c] # "send"
    BY <1>3 DEF ReadInitialize, Receive
  <2>2. UNCHANGED <<pending, out>> \/ Allocate(c, Current(c), "initialize")
    BY <1>3 DEF ReadInitialize
  <2> QED
    BY <1>1, <1>2, <2>1, <2>2
<1>4. ASSUME NEW c \in Client, Forward(c) PROVE Carried(g)'
  <2>1. UNCHANGED <<toServer, mheld, childIn, events, mpc, alive, jammed>> /\ pc[c] # "send"
    BY <1>4 DEF Forward
  <2>2. UNCHANGED <<pending, out>> \/ Allocate(c, <<c, Oldest(work[c])>>, "call")
    BY <1>4 DEF Forward
  <2> QED
    BY <1>1, <1>2, <2>1, <2>2
<1>5. ASSUME NEW c \in Client, SendToServer(c) PROVE Carried(g)'
  <2>1. /\ UNCHANGED <<mheld, childIn, events, mpc, alive, jammed, pending>>
        /\ out' = [out EXCEPT ![c] = {}]
    BY <1>5 DEF SendToServer
  <2>2. ~Excused
    BY <2>1, <1>r DEF Excused
  <2>3. PICK k \in out[c] : toServer' = Append(toServer, k)
    BY <1>5, <2>1 DEF SendToServer, ChannelClosed, Excused
  <2>4. k \in Msg /\ out[c] = {k}
    BY DEF TypeHandlers, OneMessageEach, AtMostOne
  <2>5. Queued' = Queued \cup {k}
    BY <2>3, <2>4, MessageAdded
  <2>6. PICK m : m.gid = g /\ \/ \E d \in Client : m \in out[d]
                              \/ m \in Queued \/ m \in mheld \/ m \in childIn
                              \/ m \in Responses
    BY <1>l, <1>w, <2>1, <2>2
  <2>7. ASSUME NEW d \in Client, m \in out[d] PROVE m \in out'[d] \/ m \in Queued'
    BY <2>1, <2>4, <2>5, <2>7 DEF TypeHandlers
  <2> QED
    BY <1>w, <1>r, <2>1, <2>5, <2>6, <2>7
<1>6. ASSUME NEW c \in Client, ReadNote(c) \/ Announce(c) PROVE Carried(g)'
  <2>1. UNCHANGED <<out, mheld, childIn, events, mpc, alive, jammed, pending>>
    BY <1>6 DEF ReadNote, Announce
  <2>2. Queued \subseteq Queued'
    <3>1. UNCHANGED toServer \/ \E m \in Msg : toServer' = Append(toServer, m)
      <4>1. CASE ReadNote(c)
        <5>1. Current(c) \in Request
          BY <4>1, ReceiveType DEF ReadNote
        <5> QED
          BY <4>1, <5>1 DEF ReadNote, TrySend, Msg
      <4>2. CASE Announce(c)
        <5>1. <<c, msgs[c]>> \in Request
          BY <4>2, BoundsAssumption DEF Announce, TypeHandlers, Request, LocalId
        <5> QED
          BY <4>2, <5>1 DEF Announce, TrySend, Msg
      <4> QED
        BY <1>6, <4>1, <4>2
    <3> QED
      BY <3>1, <1>q, MessageAdded
  <2>3. ~Excused
    BY <2>1, <1>r DEF Excused
  <2> QED
    BY <1>l, <1>w, <1>r, <2>1, <2>2, <2>3
<1>7. ASSUME NEW c \in Client,
             Connect(c) \/ ReadTooLarge(c) \/ ReadCall(c) \/ ReadInitialized(c)
               \/ BufferMessage(c) \/ CompleteHandshake(c) \/ Cleanup(c)
               \/ WriterFails(c) \/ Disconnect(c) \/ HandshakeTimeout(c)
               \/ DecodeError(c)
      PROVE  Carried(g)'
  BY <1>1, <1>7
  DEF Connect, ReadTooLarge, ReadCall, ReadInitialized, BufferMessage, CompleteHandshake,
      Cleanup, WriterFails, Disconnect, HandshakeTimeout, DecodeError, Unregister
<1>8. CASE RouteReset
  BY <1>8 DEF RouteReset
<1>9. CASE RouteNotification \/ RouteResponse
  <2>1. /\ UNCHANGED <<out, toServer, mheld, childIn, mpc, alive, jammed>>
        /\ events # <<>> /\ events' = Tail(events) /\ Head(events).type # "reset"
    BY <1>9 DEF RouteNotification, RouteResponse
  <2>2. /\ EventSet' \subseteq EventSet /\ EventSet \subseteq EventSet' \cup {Head(events)}
        /\ Head(events) \in EventSet
    BY <2>1, EventTaken
  <2>3. ~Excused
    BY <2>1, <2>2, EventViews DEF Excused
  <2>4. /\ g \in DOMAIN pending
        /\ \A m \in Head(events).msg : m.gid # g
    <3>1. CASE RouteNotification
      BY <3>1, <2>2 DEF RouteNotification, OneMessageEach
    <3>2. CASE RouteResponse
      <4>1. PICK m \in Head(events).msg : m.gid \notin DOMAIN pending'
                /\ DOMAIN pending' \subseteq DOMAIN pending
        BY <3>2 DEF RouteResponse
      <4>2. \A k \in Head(events).msg : k = m
        BY <2>2 DEF OneMessageEach, AtMostOne
      <4> QED
        BY <4>1, <4>2
    <3> QED
      BY <1>9, <3>1, <3>2
  <2>5. PICK m : m.gid = g /\ \/ \E d \in Client : m \in out[d]
                              \/ m \in Queued \/ m \in mheld \/ m \in childIn
                              \/ m \in Responses
    BY <1>l, <1>w, <2>3, <2>4
  <2>6. m \in Responses => m \in Responses'
    BY <2>2, <2>4, <2>5, EventViews
  <2> QED
    BY <1>w, <1>q, <2>1, <2>5, <2>6
<1>10. CASE RouteCache \/ RouteReply \/ ReaperStep \/ ChildDies \/ StdinJams
            \/ UNCHANGED vars
  <2>1. UNCHANGED <<out, toServer, mheld, childIn, events, mpc>> /\ g \in DOMAIN pending
    BY <1>10
    DEF RouteCache, RouteReply, ReaperStep, ReapExpire, ReapReply, ChildDies,
        StdinJams, vars
  <2>2. CASE ChildDies \/ StdinJams
    BY <1>1, <2>1, <2>2 DEF ChildDies, StdinJams
  <2>3. CASE ~(ChildDies \/ StdinJams)
    <3>1. UNCHANGED <<alive, jammed>>
      BY <1>10, <2>3 DEF RouteCache, RouteReply, ReaperStep, ReapExpire, ReapReply, vars
    <3> QED
      BY <1>1, <2>1, <3>1
  <2> QED
    BY <2>2, <2>3
<1>11. CASE LazyReceive \/ ReceiveForChild
  <2>1. /\ UNCHANGED <<out, childIn, events, alive, jammed, pending>>
        /\ toServer # <<>> /\ toServer' = Tail(toServer) /\ mheld' = {Head(toServer)}
        /\ \/ mpc = "lazy" /\ mpc' = "spawn"
           \/ mpc = "run" /\ mpc' = "write"
    BY <1>11 DEF LazyReceive, ReceiveForChild
  <2>2. mheld = {}
    BY <2>1 DEF OneMessageEach
  <2>3. Queued \subseteq Queued' \cup mheld'
    BY <2>1, MessageTaken
  <2>4. ~Excused
    BY <2>1, <1>r DEF Excused
  <2> QED
    BY <1>l, <1>w, <1>r, <2>1, <2>2, <2>3, <2>4
<1>12. CASE MaxRestartsReached \/ Spawn \/ SpawnFails
  <2>1. /\ UNCHANGED <<out, events, pending>> /\ mpc = "spawn"
        /\ ~SpawnFails
    BY <1>12 DEF MaxRestartsReached, Spawn, SpawnFails, Excused
  <2>2. childIn = {} /\ UNCHANGED <<toServer, mheld>>
    BY <1>12, <2>1 DEF OneMessageEach, MaxRestartsReached, Spawn
  <2>3. ~Excused
    BY <2>1, <1>r DEF Excused
  <2> QED
    BY <1>l, <1>w, <1>r, <1>q, <2>1, <2>2, <2>3
<1>13. CASE WriteFirst \/ Write
  <2>1. /\ UNCHANGED <<out, toServer, events, alive, jammed, pending>>
        /\ mpc \in {"first", "write"} /\ mpc' \in {"run", "cleanup"}
    BY <1>13 DEF WriteFirst, Write
  <2>2. alive /\ \E k \in mheld : Feed(k)
    BY <1>13, <2>1 DEF WriteFirst, Write, Excused
  <2>3. PICK k \in mheld : Feed(k)
    BY <2>2
  <2>4. mheld = {k} /\ k \in InFlight
    BY InFlightPlaces DEF OneMessageEach, AtMostOne
  <2>5. childIn \subseteq childIn' /\ (k.gid = g => k \in childIn')
    <3>1. g > 0
      BY <2>1 DEF IdsPositive
    <3>2. k.type \notin {"initialize", "call"} => k.gid = 0
      BY <2>4 DEF IdsPositive
    <3> QED
      BY <2>3, <3>1, <3>2 DEF Feed
  <2>6. ~Excused
    BY <2>1, <2>2, <1>r DEF Excused
  <2> QED
    BY <1>l, <1>w, <1>r, <1>q, <2>1, <2>4, <2>5, <2>6
<1>14. CASE ExitNoticed \/ HeartbeatRestart
  BY <1>14 DEF ExitNoticed, HeartbeatRestart, Excused
<1>15. CASE SendReset
  <2>1. Reset \in Event /\ Reset.type = "reset" /\ events' = Append(events, Reset)
    BY <1>15 DEF SendReset, Reset, Event
  <2>2. EventSet' = EventSet \cup {Reset}
    BY <2>1, EventAdded
  <2> QED
    BY <2>1, <2>2, EventViews DEF Excused
<1>16. CASE ClearCache
  <2>1. UNCHANGED <<out, toServer, mheld, events, pending>> /\ mpc = "clear"
    BY <1>16 DEF ClearCache
  <2>2. ~Excused /\ ~ResetQueued
    BY <2>1, <1>r DEF Excused
  <2>3. \A m \in childIn : m.gid # g
    BY <2>1, <2>2 DEF StaleForgotten, Over
  <2> QED
    BY <1>l, <1>w, <1>r, <1>q, <2>1, <2>2, <2>3
<1>17. CASE Respond
  <2>1. UNCHANGED <<out, toServer, mheld, mpc, alive, jammed, pending>>
    BY <1>17 DEF Respond
  <2>2. PICK m \in childIn :
          /\ EventSet' = EventSet \cup {[type |-> "response", msg |-> {m}, gen |-> gen]}
          /\ childIn' = childIn \ {m}
    BY <1>17, Responded
  <2>3. ~Excused
    BY <2>1, <2>2, EventViews DEF Excused
  <2>4. m \in Responses' /\ Responses \subseteq Responses'
    BY <2>2, EventViews
  <2>5. PICK k : k.gid = g /\ \/ \E d \in Client : k \in out[d]
                              \/ k \in Queued \/ k \in mheld \/ k \in childIn
                              \/ k \in Responses
    BY <1>l, <1>w, <2>1, <2>3
  <2>6. k \in childIn => k \in childIn' \/ k \in Responses'
    BY <2>2, <2>4
  <2> QED
    BY <1>w, <1>q, <2>1, <2>4, <2>5, <2>6
<1>18. CASE Notify
  <2>1. UNCHANGED <<out, toServer, mheld, childIn, mpc, alive, jammed, pending>>
    BY <1>18 DEF Notify
  <2>2. PICK e \in Event : events' = Append(events, e)
    BY <1>18 DEF Notify, Event, TypeChild
  <2>3. EventSet' = EventSet \cup {e}
    BY <2>2, EventAdded
  <2>4. ~Excused /\ Responses \subseteq Responses'
    BY <2>1, <2>3, EventViews DEF Excused
  <2> QED
    BY <1>l, <1>w, <1>q, <2>1, <2>4
<1>19. CASE ReaderEnds
  BY <1>19 DEF ReaderEnds, Excused
<1> QED
  BY <1>3, <1>4, <1>5, <1>6, <1>7, <1>8, <1>9, <1>10, <1>11, <1>12, <1>13, <1>14, <1>15,
     <1>16, <1>17, <1>18, <1>19
  DEF Next, ClientStep, ReadStep, HandlerStep, RouterStep, ManagerStep, ChildStep

\* What the restart theorems rest on.
RestartInv ==
    OneMessageEach /\ IdsPositive /\ GensBounded /\ StaleForgotten /\ LostIsReset

\* Over every exit, replaced child and Reset, a message is in one place and no output of
\* a child that is gone matches a request or stays in the cache (server_manager,
\* handle_server_message, reset_state): the invariant of the two theorems below.
THEOREM RestartCorrect == Spec => []RestartInv
<1>1. Init => RestartInv
  <2> SUFFICES ASSUME Init PROVE RestartInv
    OBVIOUS
  <2>1. EventSet = {} /\ ~ResetQueued
    BY DEF Init, EventSet, ResetQueued
  <2>2. InFlight = {}
    BY InFlightPlaces DEF Init, Queued
  <2>3. OneMessageEach /\ GensBounded /\ StaleForgotten
    BY <2>1 DEF Init, OneMessageEach, AtMostOne, GensBounded, StaleForgotten, NoCache
  <2>4. IdsPositive /\ LostIsReset
    BY <2>2 DEF Init, IdsPositive, LostIsReset
  <2> QED
    BY <2>3, <2>4 DEF RestartInv
<1>2. IInv /\ AddressInv /\ RestartInv /\ [Next]_vars => RestartInv'
  BY StepOneMessage, StepIds, StepStale, StepLost DEF IInv, AddressInv, RestartInv
<1> QED
  BY <1>1, <1>2, AddressCorrect, PTL DEF Spec

\* cached_initialize of a child that is gone does not outlive the Reset on its way to
\* the router (CachedFresh), although the router fills the cache in a later lock section
\* than the one that matched the response, and the manager clears it in between.
THEOREM CacheNotStale == Spec => []CachedFresh
<1>1. TypeOK /\ RestartInv => CachedFresh
  BY DEF TypeOK, TypeState, TypeChild, Cached, RestartInv, GensBounded, StaleForgotten,
     Stale, CachedFresh
<1> QED
  BY <1>1, RestartCorrect, TypeCorrect, PTL

\* A pending request whose message was lost is failed by a Reset that is queued or about
\* to be sent (LostIsReset): the lost write of a dead child, the input a replaced child
\* never read and a full channel included.  Left to the request timeout are only the
\* requests pending when the child cannot be spawned, and those of a live child whose
\* output the reader task no longer reads.
THEOREM LostRequestsReset == Spec => []LostIsReset
<1>1. RestartInv => LostIsReset
  BY DEF RestartInv
<1> QED
  BY <1>1, RestartCorrect, PTL

(***************************************************************************)
(* The request path implements the broker: BrokerPromise follows from      *)
(* Spec.  The handlers, the router and the reaper each do one Ask, Answer  *)
(* or ComeAndGo of RequestBroker; everything else is hidden from clients.  *)
(***************************************************************************)

\* The cache holds the response to one request, or nothing.
OneCached == cached.about = {} \/ \E q \in Request : cached.about = {q}

\* Every action leaves one response in the cache.
LEMMA StepOneCached ==
  TypeOK /\ AnswersGenuine /\ OneCached /\ [Next]_vars => OneCached'
<1> SUFFICES ASSUME TypeOK, AnswersGenuine, OneCached, [Next]_vars PROVE OneCached'
  OBVIOUS
<1> USE DEF OneCached, stateVars, handlerVars, routerVars, managerVars, childVars,
      historyVars
<1>1. CASE RouteCache
  <2>1. rpc = "cache" /\ cached' \in resp
    BY <1>1 DEF RouteCache
  <2>2. PICK p \in held : cached'.about = {p.req}
    BY <2>1 DEF AnswersGenuine
  <2>3. p.req \in Request
    BY DEF TypeOK, TypeRouter, Pending
  <2> QED
    BY <2>2, <2>3
<1>2. CASE RouteReset \/ ClearCache
  BY <1>2 DEF RouteReset, ClearCache, NoCache
<1>3. ASSUME NEW c \in Client, ClientStep(c) PROVE OneCached'
  BY <1>3
  DEF ClientStep, ReadStep, HandlerStep, Connect, ReadTooLarge, ReadInitialize, ReadCall,
      ReadNote, ReadInitialized, BufferMessage, Forward, Announce, CompleteHandshake,
      Cleanup, SendToServer, Disconnect, HandshakeTimeout, DecodeError, WriterFails
<1>4. CASE RouteNotification \/ RouteResponse \/ RouteReply \/ ReaperStep \/ ChildStep
           \/ UNCHANGED vars
  BY <1>4
  DEF RouteNotification, RouteResponse, RouteReply, ReaperStep, ReapExpire, ReapReply,
      ChildStep, Respond, Notify, ChildDies, StdinJams,
      ReaderEnds, vars
<1>5. CASE ManagerStep /\ ~ClearCache
  BY <1>5
  DEF ManagerStep, LazyReceive, MaxRestartsReached, Spawn, SpawnFails, WriteFirst,
      ReceiveForChild, Write, ExitNoticed, HeartbeatRestart, SendReset
<1> QED
  BY <1>1, <1>2, <1>3, <1>4, <1>5 DEF Next, RouterStep

\* What Deliver sends to requests that wait for it is an Answering of the broker.
LEMMA DeliverAnswers ==
  ASSUME TypeHistory, NEW R, NEW a, Deliver(R, a),
         \A r \in R \cap Request :
            answers[r] = <<>> /\ asked'[r] # "none" /\ Broker!MayAnswer(a, r, asked')
  PROVE  Broker!Answering
<1> SUFFICES ASSUME NEW r \in Request, answers'[r] # answers[r]
             PROVE  /\ answers[r] = <<>> /\ asked'[r] # "none" /\ r[1] \in clients
                    /\ Len(answers'[r]) = 1 /\ Broker!MayAnswer(answers'[r][1], r, asked')
  BY DEF Broker!Answering
<1>1. r \in R /\ r[1] \in clients /\ answers'[r] = Append(answers[r], a)
  BY DEF Deliver
<1>2. answers[r] = <<>> /\ asked'[r] # "none" /\ Broker!MayAnswer(a, r, asked')
  BY <1>1
<1>3. Len(answers'[r]) = 1 /\ answers'[r][1] = a
  BY <1>1, <1>2
<1> QED
  BY <1>1, <1>2, <1>3

\* What is sent and does not change what was asked is an Answer, or nothing.
LEMMA AnswerStep ==
  ASSUME Broker!Answering, UNCHANGED <<clients, asked>>
  PROVE  Broker!Next \/ UNCHANGED <<clients, asked, answers>>
  BY DEF Broker!Next, Broker!Answer

\* A client that comes or goes changes nothing else.
LEMMA MemberStep ==
  ASSUME UNCHANGED <<asked, answers>>
  PROVE  Broker!Next \/ UNCHANGED <<clients, asked, answers>>
  BY DEF Broker!Next, Broker!ComeAndGo

\* A request that is read is an Ask.
LEMMA AskStep ==
  ASSUME TypeOK, Bookkeeping, NEW c \in Client, NEW k,
         NEW kind \in {"initialize", "call", "large"}, Receive(c, k),
         asked' = [asked EXCEPT ![Current(c)] = kind], UNCHANGED clients,
         Broker!Answering
  PROVE  Broker!Next
<1>1. Current(c) \in Request /\ asked[Current(c)] = "none"
  BY CurrentUnasked
<1> QED
  BY <1>1 DEF Broker!Next, Broker!Ask

\* Sending nothing is an Answering.
LEMMA NoAnswer == ASSUME UNCHANGED answers PROVE Broker!Answering
  BY DEF Broker!Answering

\* An error may answer any request that waits for an answer.
LEMMA ErrorAnswers ==
  ASSUME TypeHistory, NEW R, Deliver(R, {}),
         \A r \in R \cap Request : answers[r] = <<>> /\ asked'[r] # "none"
  PROVE  Broker!Answering
<1>1. \A r \in R \cap Request : Broker!MayAnswer({}, r, asked')
  BY DEF Broker!MayAnswer
<1> QED
  BY <1>1, DeliverAnswers

\* A request in one of the tables has been asked and not answered.
LEMMA PlacedWaits ==
  ASSUME OwnerInv, NEW r \in Request, Placed(r)
  PROVE  answers[r] = <<>> /\ asked[r] # "none"
  BY DEF OwnerInv, NothingUnasked, OneOwner, OwnedOnce, Placed, Answered

\* A step of the request path is a step of the broker, or none.
LEMMA StepBroker ==
  TypeOK /\ Bookkeeping /\ OwnerInv /\ AddressInv /\ OneCached /\ [Next]_vars
    => Broker!Next \/ UNCHANGED <<clients, asked, answers>>
<1> DEFINE Maps == Broker!Next \/ UNCHANGED <<clients, asked, answers>>
<1> SUFFICES ASSUME TypeOK, Bookkeeping, OwnerInv, AddressInv, OneCached, [Next]_vars
             PROVE  Maps
  OBVIOUS
<1> USE DEF stateVars, handlerVars, routerVars, managerVars, childVars, historyVars
<1> TypeState /\ TypeHandlers /\ TypeRouter /\ TypeHistory
  BY DEF TypeOK
<1> NothingUnasked /\ KindsAgree /\ AnswersGenuine
  BY DEF OwnerInv, AddressInv
<1>1. ASSUME UNCHANGED <<asked, answers>> PROVE Maps
  BY <1>1, MemberStep
<1> HIDE DEF Maps
<1>c. ASSUME NEW c \in Client, NEW k, Receive(c, k), NEW kind \in {"initialize", "call", "large"},
             asked' = [asked EXCEPT ![Current(c)] = kind]
      PROVE  /\ Current(c) \in Request /\ asked[Current(c)] = "none"
             /\ answers[Current(c)] = <<>> /\ asked'[Current(c)] = kind
             /\ \A q \in Request : asked[q] # "none" => asked'[q] = asked[q]
  <2>1. Current(c) \in Request /\ asked[Current(c)] = "none"
    BY <1>c, CurrentUnasked
  <2>2. answers[Current(c)] = <<>>
    BY <2>1 DEF NothingUnasked, Answered
  <2> QED
    BY <1>c, <2>1, <2>2 DEF TypeHistory
<1>2. ASSUME NEW c \in Client, ReadTooLarge(c) PROVE Maps
  <2>1. /\ Receive(c, "large") /\ asked' = [asked EXCEPT ![Current(c)] = "large"]
        /\ Deliver({Current(c)}, {}) /\ UNCHANGED clients
    BY <1>2 DEF ReadTooLarge
  <2>2. Broker!Answering
    BY <1>c, <2>1, ErrorAnswers
  <2> QED
    BY <2>1, <2>2, AskStep DEF Maps
<1>3. ASSUME NEW c \in Client, ReadInitialize(c) PROVE Maps
  <2>1. /\ Receive(c, "initialize") /\ asked' = [asked EXCEPT ![Current(c)] = "initialize"]
        /\ UNCHANGED clients
    BY <1>3 DEF ReadInitialize
  <2>2. /\ Current(c) \in Request /\ answers[Current(c)] = <<>>
        /\ asked'[Current(c)] = "initialize"
        /\ \A q \in Request : asked[q] # "none" => asked'[q] = asked[q]
    BY <1>c, <2>1
  <2>3. CASE Deliver({Current(c)}, cached.about)
    <3>1. Broker!MayAnswer(cached.about, Current(c), asked')
      <4>1. CASE cached.about = {}
        BY <4>1 DEF Broker!MayAnswer
      <4>2. CASE cached.about # {}
        <5>1. PICK q \in Request : cached.about = {q}
          BY <4>2 DEF OneCached
        <5>2. asked[q] = "initialize"
          BY <5>1 DEF AnswersGenuine
        <5>3. asked'[q] = "initialize"
          BY <2>2, <5>2
        <5> QED
          BY <2>2, <5>1, <5>3 DEF Broker!MayAnswer
      <4> QED
        BY <4>1, <4>2
    <3>2. Broker!Answering
      BY <2>2, <2>3, <3>1, DeliverAnswers
    <3> QED
      BY <2>1, <3>2, AskStep DEF Maps
  <2>4. CASE Deliver({Current(c)}, {})
    <3>1. Broker!Answering
      BY <2>2, <2>4, ErrorAnswers
    <3> QED
      BY <2>1, <3>1, AskStep DEF Maps
  <2>5. CASE UNCHANGED answers
    BY <2>1, <2>5, NoAnswer, AskStep DEF Maps
  <2> QED
    BY <1>3, <2>3, <2>4, <2>5 DEF ReadInitialize
<1>4. ASSUME NEW c \in Client, ReadCall(c) PROVE Maps
  <2>1. /\ Receive(c, "call") /\ asked' = [asked EXCEPT ![Current(c)] = "call"]
        /\ UNCHANGED <<clients, answers>>
    BY <1>4 DEF ReadCall
  <2> QED
    BY <2>1, NoAnswer, AskStep DEF Maps
<1>5. ASSUME NEW R \in SUBSET Request, Deliver(R, {}), \A r \in R : Placed(r),
             UNCHANGED <<clients, asked>>
      PROVE  Maps
  <2>1. \A r \in R \cap Request : answers[r] = <<>> /\ asked'[r] # "none"
    BY <1>5, PlacedWaits
  <2>2. Broker!Answering
    BY <1>5, <2>1, ErrorAnswers
  <2> QED
    BY <1>5, <2>2, AnswerStep DEF Maps
<1>6. ASSUME NEW c \in Client, Forward(c) PROVE Maps
  <2> DEFINE n == Oldest(work[c])
  <2>1. n \in work[c] /\ work[c] \subseteq LocalId
    BY <1>6, OldestInWork DEF Forward, TypeHandlers
  <2>2. /\ UNCHANGED <<clients, asked>>
        /\ UNCHANGED answers \/ Deliver({<<c, n>>}, {})
    BY <1>6 DEF Forward
  <2> HIDE DEF n
  <2>3. <<c, n>> \in Request /\ Placed(<<c, n>>)
    BY <2>1 DEF Request, Placed, InWork
  <2> QED
    BY <1>1, <1>5, <2>2, <2>3
<1>7. CASE RouteReset
  <2> DEFINE R == {pending[g].req : g \in DOMAIN pending} \cup init_waiting
  <2>1. Deliver(R, {}) /\ UNCHANGED <<clients, asked>>
    BY <1>7 DEF RouteReset
  <2>2. R \subseteq Request
    BY DEF TypeState, Pending
  <2>3. \A r \in R : Placed(r)
    BY DEF Placed, InPending, InWaiting
  <2> HIDE DEF R
  <2> QED
    BY <1>5, <2>1, <2>2, <2>3
<1>8. CASE RouteCache
  <2>1. PICK a \in resp : Deliver(init_waiting, a.about) /\ rpc = "cache"
    BY <1>8 DEF RouteCache
  <2>2. PICK p \in held : p.init /\ a.about = {p.req}
    BY <2>1 DEF AnswersGenuine
  <2>3. p.req \in Request /\ asked[p.req] = "initialize"
    BY <2>2 DEF AnswersGenuine, TypeRouter, Pending
  <2>4. UNCHANGED <<clients, asked>>
    BY <1>8 DEF RouteCache
  <2>5. ASSUME NEW r \in init_waiting
        PROVE  /\ answers[r] = <<>> /\ asked'[r] # "none"
               /\ Broker!MayAnswer(a.about, r, asked')
    <3>1. r \in Request /\ asked[r] = "initialize" /\ Placed(r)
      BY DEF TypeState, KindsAgree, Placed, InWaiting
    <3> QED
      BY <2>2, <2>3, <2>4, <3>1, PlacedWaits DEF Broker!MayAnswer
  <2>6. Broker!Answering
    BY <2>1, <2>5, DeliverAnswers
  <2> QED
    BY <2>4, <2>6, AnswerStep DEF Maps
<1>9. CASE RouteReply
  <2>1. PICK a \in resp : Deliver({p.req : p \in held}, a.about)
    BY <1>9 DEF RouteReply
  <2>2. UNCHANGED <<clients, asked>>
    BY <1>9 DEF RouteReply
  <2>3. ASSUME NEW p \in held
        PROVE  /\ answers[p.req] = <<>> /\ asked'[p.req] # "none"
               /\ Broker!MayAnswer(a.about, p.req, asked')
    <3>1. p.req \in Request /\ a.about = {p.req} /\ Placed(p.req)
      BY DEF AnswersGenuine, TypeRouter, Pending, Placed, InHeld
    <3> QED
      BY <2>2, <3>1, PlacedWaits DEF Broker!MayAnswer
  <2>4. Broker!Answering
    BY <2>1, <2>3, DeliverAnswers
  <2> QED
    BY <2>2, <2>4, AnswerStep DEF Maps
<1>10. CASE ReapReply
  <2>1. Deliver(expired, {}) /\ UNCHANGED <<clients, asked>>
    BY <1>10 DEF ReapReply
  <2>2. expired \subseteq Request /\ \A r \in expired : Placed(r)
    BY DEF TypeRouter, Placed, InExpired
  <2> QED
    BY <1>5, <2>1, <2>2
<1>11. ASSUME NEW c \in Client,
              Connect(c) \/ ReadNote(c) \/ ReadInitialized(c) \/ BufferMessage(c)
                \/ Announce(c) \/ CompleteHandshake(c) \/ Cleanup(c) \/ SendToServer(c)
                \/ Disconnect(c) \/ HandshakeTimeout(c) \/ DecodeError(c) \/ WriterFails(c)
       PROVE  Maps
  BY <1>1, <1>11
  DEF Connect, ReadNote, ReadInitialized, BufferMessage, Announce, CompleteHandshake,
      Cleanup, SendToServer, Disconnect, HandshakeTimeout, DecodeError, WriterFails
<1>12. CASE RouteNotification \/ RouteResponse \/ ReapExpire \/ ManagerStep \/ ChildStep
            \/ UNCHANGED vars
  BY <1>1, <1>12
  DEF RouteNotification, RouteResponse, ReapExpire, ManagerStep, LazyReceive,
      MaxRestartsReached, Spawn, SpawnFails, WriteFirst, ReceiveForChild, Write,
      ExitNoticed, HeartbeatRestart, SendReset, ClearCache, ChildStep, Respond, Notify,
      ChildDies, StdinJams,
      ReaderEnds, vars
<1> QED
  BY <1>2, <1>3, <1>4, <1>6, <1>7, <1>8, <1>9, <1>10, <1>11, <1>12
  DEF Next, ClientStep, ReadStep, HandlerStep, RouterStep, ReaperStep

\* The mux keeps the broker's promise (BrokerPromise), for any number of clients and
\* requests: each request is answered at most once, with an error or with the response to
\* a request it may stand for, only while its client is registered, and for good.
THEOREM MuxImplementsBroker == Spec => BrokerPromise
<1>1. Init => Broker!Init /\ OneCached
  BY DEF Init, Broker!Init, OneCached, NoCache
<1>2. IInv /\ AddressInv /\ OneCached /\ [Next]_vars => OneCached'
  BY StepOneCached DEF IInv, AddressInv
<1>3. IInv /\ AddressInv /\ OneCached /\ [Next]_vars
        => [Broker!Next]_<<clients, asked, answers>>
  BY StepBroker DEF IInv
<1> QED
  BY <1>1, <1>2, <1>3, AddressCorrect, PTL DEF Spec, BrokerPromise, Broker!Spec

=============================================================================
