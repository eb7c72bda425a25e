-------------------------- MODULE MuxRuntimeProofs --------------------------
(***************************************************************************)
(* The type invariant of MuxRuntime and the bookkeeping of its counters,   *)
(* for any set of clients and any bounds.                                  *)
(***************************************************************************)
EXTENDS MuxRuntime, WellFoundedInduction, SequenceTheorems, TLAPS

\* Deliver keeps the type of answers.
LEMMA DeliverType ==
  ASSUME TypeHistory, NEW R, NEW a \in Answer, Deliver(R, a)
  PROVE  answers' \in [Request -> Seq(Answer)]
  BY DEF TypeHistory, Deliver

\* unregister_client keeps the type of MuxState.
LEMMA UnregisterType ==
  ASSUME TypeState, NEW c \in Client, Unregister(c),
         UNCHANGED <<next_global_id, cached, initializing, server_initialized>>
  PROVE  TypeState'
  BY DEF TypeState, Unregister

\* The message just read has a number within the bound.
LEMMA ReceiveType ==
  ASSUME TypeHandlers, NEW c \in Client, NEW k, Receive(c, k)
  PROVE  /\ msgs' \in [Client -> 0..MaxMsgs]
         /\ msgs[c] + 1 \in LocalId
         /\ Current(c) \in Request
         /\ \A d \in Client : d = c \/ msgs[d] # 0 => msgs'[d] # 0
  BY BoundsAssumption DEF TypeHandlers, Receive, LocalId, Request, Current

\* A new pending entry and its message have their types.
LEMMA AllocateType ==
  ASSUME TypeState, TypeHandlers, NEW c \in Client, NEW r \in Request,
         NEW type \in {"initialize", "call"}, Allocate(c, r, type)
  PROVE  /\ DOMAIN pending' \subseteq Nat
         /\ \A g \in DOMAIN pending' : pending'[g] \in Pending
         /\ next_global_id' \in Nat
         /\ out' \in [Client -> SUBSET Msg]
         /\ pc' \in [Client -> {"new", "read", "buffer", "forward", "send", "announce",
                          "complete", "cleanup", "done", "leaked"}]
         /\ pc'[c] = "send"
         /\ \A d \in Client : d # c => pc'[d] = pc[d]
<1> USE DEF TypeState, TypeHandlers, Allocate
<1>1. [req |-> r, init |-> type = "initialize"] \in Pending
  BY DEF Pending
<1>2. [type |-> type, gid |-> next_global_id, req |-> r] \in Msg
  BY DEF Msg
<1>3. /\ DOMAIN pending' \subseteq Nat
      /\ \A g \in DOMAIN pending' : pending'[g] \in Pending
      /\ next_global_id' \in Nat
  BY <1>1
<1>4. out' \in [Client -> SUBSET Msg]
  BY <1>2
<1> QED
  BY <1>3, <1>4

\* A nonempty set of message numbers has an oldest one.
LEMMA OldestInWork ==
  ASSUME NEW w \in SUBSET LocalId, w # {}
  PROVE  /\ Oldest(w) \in w
         /\ \A k \in w : Oldest(w) <= k
<1>1. w \subseteq Nat
  BY BoundsAssumption DEF LocalId
<1>2. PICK n \in w : \A k \in w : <<k, n>> \notin OpToRel(<, Nat)
  BY <1>1, NatLessThanWellFounded, WFMin
<1>3. \A k \in w : n <= k
  <2> SUFFICES ASSUME NEW k \in w, k < n PROVE FALSE
    BY <1>1
  <2>1. <<k, n>> \in OpToRel(<, Nat)
    BY <1>1, Zenon DEF OpToRel
  <2> QED
    BY <1>2, <2>1
<1> QED
  BY <1>3 DEF Oldest

\* The initial state has the right shape.
LEMMA InitTypeOK == Init => TypeOK
<1> SUFFICES ASSUME Init PROVE TypeOK
  OBVIOUS
<1> USE DEF Init
<1>1. TypeState
  BY DEF TypeState, NoCache, Cached, Answer
<1>2. TypeHandlers
  BY BoundsAssumption DEF TypeHandlers
<1>3. TypeRouter /\ TypeChild
  <2>1. toServer \in Seq(Msg) /\ events \in Seq(Event)
    OBVIOUS
  <2>2. TypeChild
    BY <2>1 DEF TypeChild
  <2>3. TypeRouter
    BY DEF TypeRouter
  <2> QED
    BY <2>2, <2>3
<1>4. TypeManager
  BY LazyAssumption DEF TypeManager
<1>5. TypeHistory
  BY DEF TypeHistory
<1> QED
  BY <1>1, <1>2, <1>3, <1>4, <1>5 DEF TypeOK

\* Every action keeps the shape of the state.
LEMMA StepTypeOK == TypeOK /\ [Next]_vars => TypeOK'
<1> SUFFICES ASSUME TypeOK, [Next]_vars PROVE TypeOK'
  OBVIOUS
<1> USE DEF stateVars, handlerVars, routerVars, managerVars, childVars, historyVars
<1> TypeState /\ TypeHandlers /\ TypeRouter /\ TypeManager /\ TypeChild /\ TypeHistory
  BY DEF TypeOK
<1>1. ASSUME NEW c \in Client, Connect(c) PROVE TypeOK'
  <2>1. TypeState'
    BY <1>1 DEF Connect, TypeState
  <2>2. TypeHandlers'
    BY <1>1 DEF Connect, TypeHandlers
  <2>3. TypeRouter' /\ TypeManager' /\ TypeChild' /\ TypeHistory'
    BY <1>1 DEF Connect, TypeRouter, TypeManager, TypeChild, TypeHistory
  <2> QED
    BY <2>1, <2>2, <2>3 DEF TypeOK
<1>2. ASSUME NEW c \in Client, ReadTooLarge(c) PROVE TypeOK'
  <2>1. TypeHandlers'
    BY <1>2, ReceiveType DEF ReadTooLarge, TypeHandlers
  <2>2. TypeHistory'
    BY <1>2, ReceiveType, DeliverType DEF ReadTooLarge, TypeHistory, Answer
  <2>3. TypeState' /\ TypeRouter' /\ TypeManager' /\ TypeChild'
    BY <1>2 DEF ReadTooLarge, TypeState, TypeRouter, TypeManager, TypeChild
  <2> QED
    BY <2>1, <2>2, <2>3 DEF TypeOK
<1>3. ASSUME NEW c \in Client, ReadInitialize(c) PROVE TypeOK'
  <2>1. Current(c) \in Request /\ cached.about \in Answer /\ {} \in Answer
    BY <1>3, ReceiveType DEF ReadInitialize, TypeState, Cached, Answer
  <2>2. TypeHistory'
    BY <1>3, <2>1, DeliverType DEF ReadInitialize, TypeHistory
  <2>3. TypeState' /\ TypeHandlers'
    <3>1. CASE Allocate(c, Current(c), "initialize") /\ UNCHANGED init_waiting
      BY <1>3, <2>1, <3>1, AllocateType, ReceiveType
      DEF ReadInitialize, TypeState, TypeHandlers, Answer
    <3>2. CASE /\ UNCHANGED <<pending, next_global_id, out, pc>>
               /\ init_waiting' \in {init_waiting, init_waiting \cup {Current(c)}}
      BY <1>3, <2>1, <3>2, ReceiveType DEF ReadInitialize, TypeState, TypeHandlers
    <3> QED
      BY <1>3, <3>1, <3>2 DEF ReadInitialize
  <2>4. TypeRouter' /\ TypeManager' /\ TypeChild'
    BY <1>3 DEF ReadInitialize, TypeRouter, TypeManager, TypeChild
  <2> QED
    BY <2>2, <2>3, <2>4 DEF TypeOK
<1>4. ASSUME NEW c \in Client, ReadCall(c) PROVE TypeOK'
  <2>1. TypeHandlers'
    BY <1>4, ReceiveType DEF ReadCall, TypeHandlers, Receive
  <2>2. TypeHistory'
    BY <1>4, ReceiveType DEF ReadCall, TypeHistory
  <2>3. TypeState' /\ TypeRouter' /\ TypeManager' /\ TypeChild'
    BY <1>4 DEF ReadCall, TypeState, TypeRouter, TypeManager, TypeChild
  <2> QED
    BY <2>1, <2>2, <2>3 DEF TypeOK
<1>5. ASSUME NEW c \in Client, ReadNote(c) PROVE TypeOK'
  <2>1. [type |-> "note", gid |-> 0, req |-> Current(c)] \in Msg
    BY <1>5, ReceiveType DEF ReadNote, Msg
  <2>2. TypeChild'
    BY <1>5, <2>1 DEF ReadNote, TypeChild, TrySend
  <2>3. TypeHandlers'
    BY <1>5, ReceiveType DEF ReadNote, TypeHandlers
  <2>4. TypeState' /\ TypeRouter' /\ TypeManager' /\ TypeHistory'
    BY <1>5 DEF ReadNote, TypeState, TypeRouter, TypeManager, TypeHistory
  <2> QED
    BY <2>2, <2>3, <2>4 DEF TypeOK
<1>6. ASSUME NEW c \in Client, ReadInitialized(c) PROVE TypeOK'
  <2>1. TypeState'
    BY <1>6 DEF ReadInitialized, TypeState
  <2>2. TypeHandlers'
    BY <1>6, ReceiveType DEF ReadInitialized, TypeHandlers
  <2>3. TypeRouter' /\ TypeManager' /\ TypeChild' /\ TypeHistory'
    BY <1>6 DEF ReadInitialized, TypeRouter, TypeManager, TypeChild, TypeHistory
  <2> QED
    BY <2>1, <2>2, <2>3 DEF TypeOK
<1>7. ASSUME NEW c \in Client, BufferMessage(c) PROVE TypeOK'
  <2>1. TypeState'
    BY <1>7 DEF BufferMessage, TypeState, TypeHandlers
  <2>2. TypeHandlers'
    BY <1>7 DEF BufferMessage, TypeHandlers
  <2>3. TypeRouter' /\ TypeManager' /\ TypeChild' /\ TypeHistory'
    BY <1>7 DEF BufferMessage, TypeRouter, TypeManager, TypeChild, TypeHistory
  <2> QED
    BY <2>1, <2>2, <2>3 DEF TypeOK
<1>8. ASSUME NEW c \in Client, Forward(c) PROVE TypeOK'
  <2> DEFINE n == Oldest(work[c])
  <2>1. n \in work[c] /\ <<c, n>> \in Request /\ {} \in Answer
    BY <1>8, OldestInWork DEF Forward, TypeHandlers, Request, Answer
  <2>2. TypeHistory'
    BY <1>8, <2>1, DeliverType DEF Forward, TypeHistory
  <2>3. TypeState' /\ TypeHandlers'
    <3>1. CASE Allocate(c, <<c, n>>, "call")
      BY <1>8, <2>1, <3>1, AllocateType DEF Forward, TypeState, TypeHandlers
    <3>2. CASE /\ UNCHANGED <<pending, next_global_id, out>>
               /\ pc' = [pc EXCEPT ![c] = AfterOne(work[c] \ {n})]
      BY <1>8, <2>1, <3>2 DEF Forward, TypeState, TypeHandlers, AfterOne
    <3> QED
      BY <1>8, <3>1, <3>2 DEF Forward
  <2>4. TypeRouter' /\ TypeManager' /\ TypeChild'
    BY <1>8 DEF Forward, TypeRouter, TypeManager, TypeChild
  <2> QED
    BY <2>2, <2>3, <2>4 DEF TypeOK
<1>9. ASSUME NEW c \in Client, Announce(c) PROVE TypeOK'
  <2> DEFINE m == [type |-> "initialized", gid |-> 0, req |-> <<c, msgs[c]>>]
  <2>1. msgs[c] # 0
    BY <1>9 DEF Announce, TypeHandlers
  <2>2. m \in Msg
    BY <1>9, <2>1, BoundsAssumption DEF TypeHandlers, Msg, Request, LocalId
  <2>3. TypeChild'
    BY <1>9, <2>2 DEF Announce, TypeChild, TrySend
  <2>4. TypeHandlers'
    BY <1>9 DEF Announce, TypeHandlers
  <2>5. TypeState' /\ TypeRouter' /\ TypeManager' /\ TypeHistory'
    BY <1>9 DEF Announce, TypeState, TypeRouter, TypeManager, TypeHistory
  <2> QED
    BY <2>3, <2>4, <2>5 DEF TypeOK
<1>10. ASSUME NEW c \in Client, CompleteHandshake(c) PROVE TypeOK'
  <2>1. TypeState'
    BY <1>10 DEF CompleteHandshake, TypeState
  <2>2. TypeHandlers'
    BY <1>10 DEF CompleteHandshake, TypeHandlers, TypeState, AfterOne
  <2>3. TypeRouter' /\ TypeManager' /\ TypeChild' /\ TypeHistory'
    BY <1>10 DEF CompleteHandshake, TypeRouter, TypeManager, TypeChild, TypeHistory
  <2> QED
    BY <2>1, <2>2, <2>3 DEF TypeOK
<1>11. ASSUME NEW c \in Client, Cleanup(c) PROVE TypeOK'
  <2>1. TypeState'
    BY <1>11, UnregisterType DEF Cleanup, TypeState
  <2>2. TypeHandlers'
    BY <1>11 DEF Cleanup, TypeHandlers
  <2>3. TypeRouter' /\ TypeManager' /\ TypeChild' /\ TypeHistory'
    BY <1>11 DEF Cleanup, TypeRouter, TypeManager, TypeChild, TypeHistory
  <2> QED
    BY <2>1, <2>2, <2>3 DEF TypeOK
<1>12. ASSUME NEW c \in Client, SendToServer(c) PROVE TypeOK'
  <2>1. toServer' = toServer \/ \E m \in out[c] : toServer' = Append(toServer, m)
    BY <1>12 DEF SendToServer
  <2>2. out[c] \subseteq Msg
    BY DEF TypeHandlers
  <2>3. TypeChild'
    BY <1>12, <2>1, <2>2 DEF SendToServer, TypeChild
  <2>4. TypeHandlers'
    BY <1>12 DEF SendToServer, TypeHandlers, AfterOne
  <2>5. TypeState' /\ TypeRouter' /\ TypeManager' /\ TypeHistory'
    BY <1>12 DEF SendToServer, TypeState, TypeRouter, TypeManager, TypeHistory
  <2> QED
    BY <2>3, <2>4, <2>5 DEF TypeOK
<1>13. ASSUME NEW c \in Client, Disconnect(c) PROVE TypeOK'
  <2>1. TypeHandlers'
    BY <1>13 DEF Disconnect, TypeHandlers
  <2>2. TypeState' /\ TypeRouter' /\ TypeManager' /\ TypeChild' /\ TypeHistory'
    BY <1>13 DEF Disconnect, TypeState, TypeRouter, TypeManager, TypeChild, TypeHistory
  <2> QED
    BY <2>1, <2>2 DEF TypeOK
<1>14. ASSUME NEW c \in Client, HandshakeTimeout(c) PROVE TypeOK'
  <2>1. TypeHandlers'
    BY <1>14 DEF HandshakeTimeout, TypeHandlers
  <2>2. TypeState' /\ TypeRouter' /\ TypeManager' /\ TypeChild' /\ TypeHistory'
    BY <1>14 DEF HandshakeTimeout, TypeState, TypeRouter, TypeManager, TypeChild, TypeHistory
  <2> QED
    BY <2>1, <2>2 DEF TypeOK
<1>15. ASSUME NEW c \in Client, DecodeError(c) PROVE TypeOK'
  <2>1. TypeHandlers'
    BY <1>15 DEF DecodeError, TypeHandlers
  <2>2. TypeState' /\ TypeRouter' /\ TypeManager' /\ TypeChild' /\ TypeHistory'
    BY <1>15 DEF DecodeError, TypeState, TypeRouter, TypeManager, TypeChild, TypeHistory
  <2> QED
    BY <2>1, <2>2 DEF TypeOK
<1>16. ASSUME NEW c \in Client, WriterFails(c) PROVE TypeOK'
  <2>1. TypeState'
    BY <1>16, UnregisterType DEF WriterFails, TypeState
  <2>2. TypeHandlers' /\ TypeRouter' /\ TypeManager' /\ TypeChild' /\ TypeHistory'
    BY <1>16 DEF WriterFails, TypeHandlers, TypeRouter, TypeManager, TypeChild, TypeHistory
  <2> QED
    BY <2>1, <2>2 DEF TypeOK
<1>17. CASE RouteReset
  <2>1. TypeState'
    BY <1>17 DEF RouteReset, TypeState, NoCache, Cached, Answer
  <2>2. TypeChild'
    BY <1>17 DEF RouteReset, TypeChild
  <2>3. TypeHistory'
    BY <1>17, DeliverType DEF RouteReset, TypeHistory, Answer
  <2>4. TypeHandlers' /\ TypeRouter' /\ TypeManager'
    BY <1>17 DEF RouteReset, TypeHandlers, TypeRouter, TypeManager
  <2> QED
    BY <2>1, <2>2, <2>3, <2>4 DEF TypeOK
<1>18. CASE RouteNotification
  <2>1. TypeChild'
    BY <1>18 DEF RouteNotification, TypeChild
  <2>2. TypeHistory'
    BY <1>18 DEF RouteNotification, TypeHistory, TypeState
  <2>3. TypeState' /\ TypeHandlers' /\ TypeRouter' /\ TypeManager'
    BY <1>18 DEF RouteNotification, TypeState, TypeHandlers, TypeRouter, TypeManager
  <2> QED
    BY <2>1, <2>2, <2>3 DEF TypeOK
<1>19. CASE RouteResponse
  <2>1. Head(events) \in Event /\ Tail(events) \in Seq(Event)
    BY <1>19 DEF RouteResponse, TypeChild
  <2>2. PICK m \in Head(events).msg :
           IF m.gid \in DOMAIN pending
           THEN /\ pending' = [g \in DOMAIN pending \ {m.gid} |-> pending[g]]
                /\ held' = {pending[m.gid]}
                /\ resp' = {[about |-> {m.req}, gen |-> Head(events).gen]}
                /\ rpc' = IF pending[m.gid].init THEN "cache" ELSE "reply"
           ELSE UNCHANGED <<pending, held, resp, rpc>>
    BY <1>19 DEF RouteResponse
  <2>3. m \in Msg /\ [about |-> {m.req}, gen |-> Head(events).gen] \in Cached
    BY <2>1, <2>2 DEF Event, Msg, Cached, Answer
  <2>4. TypeState'
    BY <1>19, <2>2 DEF RouteResponse, TypeState
  <2>6. TypeRouter'
    <3>1. UNCHANGED expired
      BY <1>19 DEF RouteResponse
    <3>2. CASE m.gid \in DOMAIN pending
      <4>1. pending[m.gid] \in Pending
        BY <3>2 DEF TypeState
      <4>2. /\ held' = {pending[m.gid]}
            /\ resp' = {[about |-> {m.req}, gen |-> Head(events).gen]}
            /\ rpc' \in {"cache", "reply"}
        BY <2>2, <3>2
      <4> QED
        BY <2>3, <3>1, <4>1, <4>2 DEF TypeRouter
    <3>3. CASE m.gid \notin DOMAIN pending
      BY <2>2, <3>1, <3>3 DEF TypeRouter
    <3> QED
      BY <3>2, <3>3
  <2>5. TypeHandlers' /\ TypeManager' /\ TypeChild' /\ TypeHistory'
    BY <1>19, <2>1 DEF RouteResponse, TypeHandlers, TypeManager, TypeChild, TypeHistory
  <2> QED
    BY <2>4, <2>5, <2>6 DEF TypeOK
<1>20. CASE RouteCache
  <2>1. TypeState'
    BY <1>20 DEF RouteCache, TypeState, TypeRouter
  <2>2. TypeRouter'
    BY <1>20 DEF RouteCache, TypeRouter
  <2>3. TypeHistory'
    BY <1>20, DeliverType DEF RouteCache, TypeHistory, TypeRouter, Cached
  <2>4. TypeHandlers' /\ TypeManager' /\ TypeChild'
    BY <1>20 DEF RouteCache, TypeHandlers, TypeManager, TypeChild
  <2> QED
    BY <2>1, <2>2, <2>3, <2>4 DEF TypeOK
<1>21. CASE RouteReply
  <2>1. TypeRouter'
    BY <1>21 DEF RouteReply, TypeRouter
  <2>2. TypeHistory'
    BY <1>21, DeliverType DEF RouteReply, TypeHistory, TypeRouter, Cached
  <2>3. TypeState' /\ TypeHandlers' /\ TypeManager' /\ TypeChild'
    BY <1>21 DEF RouteReply, TypeState, TypeHandlers, TypeManager, TypeChild
  <2> QED
    BY <2>1, <2>2, <2>3 DEF TypeOK
<1>22. CASE ReapExpire
  <2>1. TypeState'
    BY <1>22 DEF ReapExpire, TypeState
  <2>2. TypeRouter'
    BY <1>22 DEF ReapExpire, TypeRouter, TypeState, Pending
  <2>3. TypeHandlers' /\ TypeManager' /\ TypeChild' /\ TypeHistory'
    BY <1>22 DEF ReapExpire, TypeHandlers, TypeManager, TypeChild, TypeHistory
  <2> QED
    BY <2>1, <2>2, <2>3 DEF TypeOK
<1>23. CASE ReapReply
  <2>1. TypeRouter'
    BY <1>23 DEF ReapReply, TypeRouter
  <2>2. TypeHistory'
    BY <1>23, DeliverType DEF ReapReply, TypeHistory, Answer
  <2>3. TypeState' /\ TypeHandlers' /\ TypeManager' /\ TypeChild'
    BY <1>23 DEF ReapReply, TypeState, TypeHandlers, TypeManager, TypeChild
  <2> QED
    BY <2>1, <2>2, <2>3 DEF TypeOK
<1>24. CASE LazyReceive
  <2>1. TypeManager'
    BY <1>24 DEF LazyReceive, TypeManager, TypeChild
  <2>2. TypeChild'
    BY <1>24 DEF LazyReceive, TypeChild
  <2>3. TypeState' /\ TypeHandlers' /\ TypeRouter' /\ TypeHistory'
    BY <1>24 DEF LazyReceive, TypeState, TypeHandlers, TypeRouter, TypeHistory
  <2> QED
    BY <2>1, <2>2, <2>3 DEF TypeOK
<1>25. CASE MaxRestartsReached
  <2>1. TypeManager'
    BY <1>25 DEF MaxRestartsReached, TypeManager
  <2>2. TypeState' /\ TypeHandlers' /\ TypeRouter' /\ TypeChild' /\ TypeHistory'
    BY <1>25 DEF MaxRestartsReached, TypeState, TypeHandlers, TypeRouter, TypeChild, TypeHistory
  <2> QED
    BY <2>1, <2>2 DEF TypeOK
<1>26. CASE Spawn
  <2>1. TypeManager'
    BY <1>26 DEF Spawn, TypeManager
  <2>2. TypeChild'
    BY <1>26 DEF Spawn, TypeChild
  <2>3. TypeState' /\ TypeHandlers' /\ TypeRouter' /\ TypeHistory'
    BY <1>26 DEF Spawn, TypeState, TypeHandlers, TypeRouter, TypeHistory
  <2> QED
    BY <2>1, <2>2, <2>3 DEF TypeOK
<1>27. CASE SpawnFails
  <2>1. TypeManager'
    BY <1>27 DEF SpawnFails, TypeManager
  <2>2. TypeChild'
    BY <1>27 DEF SpawnFails, TypeChild
  <2>3. TypeState' /\ TypeHandlers' /\ TypeRouter' /\ TypeHistory'
    BY <1>27 DEF SpawnFails, TypeState, TypeHandlers, TypeRouter, TypeHistory
  <2> QED
    BY <2>1, <2>2, <2>3 DEF TypeOK
<1>28. CASE WriteFirst
  <2>1. TypeManager'
    BY <1>28 DEF WriteFirst, TypeManager
  <2>2. TypeChild'
    BY <1>28 DEF WriteFirst, TypeChild, TypeManager, Feed
  <2>3. TypeState' /\ TypeHandlers' /\ TypeRouter' /\ TypeHistory'
    BY <1>28 DEF WriteFirst, TypeState, TypeHandlers, TypeRouter, TypeHistory
  <2> QED
    BY <2>1, <2>2, <2>3 DEF TypeOK
<1>29. CASE ReceiveForChild
  <2>1. TypeManager'
    BY <1>29 DEF ReceiveForChild, TypeManager, TypeChild
  <2>2. TypeChild'
    BY <1>29 DEF ReceiveForChild, TypeChild
  <2>3. TypeState' /\ TypeHandlers' /\ TypeRouter' /\ TypeHistory'
    BY <1>29 DEF ReceiveForChild, TypeState, TypeHandlers, TypeRouter, TypeHistory
  <2> QED
    BY <2>1, <2>2, <2>3 DEF TypeOK
<1>30. CASE Write
  <2>1. TypeManager'
    BY <1>30 DEF Write, TypeManager
  <2>2. TypeChild'
    BY <1>30 DEF Write, TypeChild, TypeManager, Feed
  <2>3. TypeState' /\ TypeHandlers' /\ TypeRouter' /\ TypeHistory'
    BY <1>30 DEF Write, TypeState, TypeHandlers, TypeRouter, TypeHistory
  <2> QED
    BY <2>1, <2>2, <2>3 DEF TypeOK
<1>31. CASE ExitNoticed
  <2>1. TypeManager'
    BY <1>31 DEF ExitNoticed, TypeManager
  <2>2. TypeState' /\ TypeHandlers' /\ TypeRouter' /\ TypeChild' /\ TypeHistory'
    BY <1>31 DEF ExitNoticed, TypeState, TypeHandlers, TypeRouter, TypeChild, TypeHistory
  <2> QED
    BY <2>1, <2>2 DEF TypeOK
<1>32. CASE HeartbeatRestart
  <2>1. TypeManager'
    BY <1>32 DEF HeartbeatRestart, TypeManager
  <2>2. TypeState' /\ TypeHandlers' /\ TypeRouter' /\ TypeChild' /\ TypeHistory'
    BY <1>32 DEF HeartbeatRestart, TypeState, TypeHandlers, TypeRouter, TypeChild, TypeHistory
  <2> QED
    BY <2>1, <2>2 DEF TypeOK
<1>33. CASE SendReset
  <2>1. TypeManager'
    BY <1>33 DEF SendReset, TypeManager
  <2>2. TypeChild'
    BY <1>33 DEF SendReset, TypeChild, Reset, Event
  <2>3. TypeState' /\ TypeHandlers' /\ TypeRouter' /\ TypeHistory'
    BY <1>33 DEF SendReset, TypeState, TypeHandlers, TypeRouter, TypeHistory
  <2> QED
    BY <2>1, <2>2, <2>3 DEF TypeOK
<1>34. CASE ClearCache
  <2>1. TypeState'
    BY <1>34 DEF ClearCache, TypeState, NoCache, Cached, Answer
  <2>2. TypeManager'
    BY <1>34 DEF ClearCache, TypeManager
  <2>3. TypeChild'
    BY <1>34 DEF ClearCache, TypeChild
  <2>4. TypeHandlers' /\ TypeRouter' /\ TypeHistory'
    BY <1>34 DEF ClearCache, TypeHandlers, TypeRouter, TypeHistory
  <2> QED
    BY <2>1, <2>2, <2>3, <2>4 DEF TypeOK
<1>35. CASE Respond
  <2>1. PICK m \in childIn, n \in 1..MaxCopies :
          /\ events' = events \o [i \in 1..n |->
                        [type |-> "response", msg |-> {m}, gen |-> gen]]
          /\ childIn' = childIn \ {m}
    BY <1>35 DEF Respond
  <2> DEFINE e == [type |-> "response", msg |-> {m}, gen |-> gen]
  <2>2. e \in Event
    BY <2>1 DEF TypeChild, Event
  <2>3. [i \in 1..n |-> e] \in Seq(Event)
    <3>1. n \in Nat
      BY <2>1, BoundsAssumption
    <3> HIDE DEF e
    <3> QED
      BY <2>2, <3>1, IsASeq
  <2>4. events' \in Seq(Event)
    BY <2>1, <2>3, ConcatProperties DEF TypeChild
  <2>5. TypeChild'
    BY <1>35, <2>1, <2>4 DEF Respond, TypeChild
  <2>6. TypeState' /\ TypeHandlers' /\ TypeRouter' /\ TypeManager' /\ TypeHistory'
    BY <1>35 DEF Respond, TypeState, TypeHandlers, TypeRouter, TypeManager, TypeHistory
  <2> QED
    BY <2>5, <2>6 DEF TypeOK
<1>36. CASE Notify
  <2>1. TypeChild'
    BY <1>36 DEF Notify, TypeChild, Event
  <2>2. TypeState' /\ TypeHandlers' /\ TypeRouter' /\ TypeManager' /\ TypeHistory'
    BY <1>36 DEF Notify, TypeState, TypeHandlers, TypeRouter, TypeManager, TypeHistory
  <2> QED
    BY <2>1, <2>2 DEF TypeOK
<1>37. CASE ChildDies
  <2>1. TypeChild'
    BY <1>37 DEF ChildDies, TypeChild
  <2>2. TypeState' /\ TypeHandlers' /\ TypeRouter' /\ TypeManager' /\ TypeHistory'
    BY <1>37 DEF ChildDies, TypeState, TypeHandlers, TypeRouter, TypeManager, TypeHistory
  <2> QED
    BY <2>1, <2>2 DEF TypeOK
<1>39. CASE StdinJams \/ ReaderEnds
  <2>1. TypeChild'
    BY <1>39 DEF StdinJams, ReaderEnds, TypeChild
  <2>2. TypeState' /\ TypeHandlers' /\ TypeRouter' /\ TypeManager' /\ TypeHistory'
    BY <1>39
    DEF StdinJams, ReaderEnds, TypeState, TypeHandlers, TypeRouter, TypeManager, TypeHistory
  <2> QED
    BY <2>1, <2>2 DEF TypeOK
<1>38. CASE UNCHANGED vars
  BY <1>38 DEF vars, TypeOK, TypeState, TypeHandlers, TypeRouter, TypeManager, TypeChild,
     TypeHistory
<1> QED
  BY <1>1, <1>2, <1>3, <1>4, <1>5, <1>6, <1>7, <1>8, <1>9, <1>10, <1>11, <1>12, <1>13, <1>14, <1>15, <1>16, <1>17, <1>18, <1>19, <1>20, <1>21, <1>22, <1>23, <1>24, <1>25, <1>26, <1>27, <1>28, <1>29, <1>30, <1>31, <1>32, <1>33, <1>34, <1>35, <1>36, <1>37, <1>38, <1>39
  DEF Next, ClientStep, ReadStep, HandlerStep, RouterStep, ReaperStep, ManagerStep, ChildStep

\* TypeOK holds for ever: no handler loops over nothing, no announcement names a
\* message that was not read, whatever the number of clients and messages.
THEOREM TypeCorrect == Spec => []TypeOK
<1>1. Init => TypeOK
  BY InitTypeOK
<1>2. TypeOK /\ [Next]_vars => TypeOK'
  BY StepTypeOK
<1> QED
  BY <1>1, <1>2, PTL DEF Spec

\* The counters and locals agree at the start.
LEMMA InitBookkeeping == Init => Bookkeeping
  BY DEF Init, Bookkeeping

\* Every action keeps message numbers, global ids and locals in step.
LEMMA StepBookkeeping == TypeOK /\ Bookkeeping /\ [Next]_vars => Bookkeeping'
<1> SUFFICES ASSUME TypeOK, Bookkeeping, [Next]_vars PROVE Bookkeeping'
  OBVIOUS
<1> USE DEF Bookkeeping, stateVars, handlerVars, routerVars, managerVars, childVars,
      historyVars
<1> TypeState /\ TypeHandlers /\ TypeHistory
  BY DEF TypeOK
<1>1. ASSUME NEW c \in Client, Connect(c) PROVE Bookkeeping'
  BY <1>1 DEF Connect, TypeState, TypeHandlers, TypeHistory, Request, LocalId
<1>2. ASSUME NEW c \in Client, ReadTooLarge(c) PROVE Bookkeeping'
  BY <1>2 DEF ReadTooLarge, TypeState, TypeHandlers, TypeHistory, Request, LocalId, Receive, Current
<1>3. ASSUME NEW c \in Client, ReadInitialize(c) PROVE Bookkeeping'
  <2>1. /\ msgs' = [msgs EXCEPT ![c] = @ + 1] /\ pc[c] = "read"
        /\ asked' = [asked EXCEPT ![<<c, msgs[c] + 1>>] = "initialize"]
        /\ UNCHANGED <<work, rpc, held>>
    BY <1>3 DEF ReadInitialize, Receive, Current
  <2>2. /\ \A r \in Request : asked'[r] # "none" => r[2] <= msgs'[r[1]]
        /\ rpc' = "idle" => held' = {}
    BY <2>1 DEF TypeHandlers, TypeHistory, Request, LocalId
  <2>3. CASE Allocate(c, Current(c), "initialize")
    BY <2>1, <2>2, <2>3 DEF Allocate, TypeState, TypeHandlers
  <2>4. CASE UNCHANGED <<pending, next_global_id, pc>>
    BY <2>1, <2>2, <2>4 DEF TypeState, TypeHandlers
  <2> QED
    BY <1>3, <2>3, <2>4 DEF ReadInitialize
<1>4. ASSUME NEW c \in Client, ReadCall(c) PROVE Bookkeeping'
  BY <1>4 DEF ReadCall, TypeState, TypeHandlers, TypeHistory, Request, LocalId, Receive, Current
<1>5. ASSUME NEW c \in Client, ReadNote(c) PROVE Bookkeeping'
  BY <1>5 DEF ReadNote, TypeState, TypeHandlers, TypeHistory, Request, LocalId, Receive
<1>6. ASSUME NEW c \in Client, ReadInitialized(c) PROVE Bookkeeping'
  BY <1>6 DEF ReadInitialized, TypeState, TypeHandlers, TypeHistory, Request, LocalId, Receive
<1>7. ASSUME NEW c \in Client, BufferMessage(c) PROVE Bookkeeping'
  BY <1>7 DEF BufferMessage, TypeState, TypeHandlers, TypeHistory, Request, LocalId
<1>8. ASSUME NEW c \in Client, Forward(c) PROVE Bookkeeping'
  <2> DEFINE n == Oldest(work[c])
  <2>1. /\ work' = [work EXCEPT ![c] = @ \ {n}] /\ pc[c] = "forward"
        /\ UNCHANGED <<asked, msgs, rpc, held>>
    BY <1>8 DEF Forward
  <2>2. CASE Allocate(c, <<c, n>>, "call")
    BY <2>1, <2>2 DEF Allocate, TypeState, TypeHandlers
  <2>3. CASE /\ UNCHANGED <<pending, next_global_id>>
             /\ pc' = [pc EXCEPT ![c] = AfterOne(work[c] \ {n})]
    BY <2>1, <2>3 DEF AfterOne, TypeState, TypeHandlers
  <2> QED
    BY <1>8, <2>2, <2>3 DEF Forward
<1>9. ASSUME NEW c \in Client, Announce(c) PROVE Bookkeeping'
  BY <1>9 DEF Announce, TypeState, TypeHandlers, TypeHistory, Request, LocalId
<1>10. ASSUME NEW c \in Client, CompleteHandshake(c) PROVE Bookkeeping'
  BY <1>10 DEF CompleteHandshake, TypeState, TypeHandlers, TypeHistory, Request, LocalId, AfterOne
<1>11. ASSUME NEW c \in Client, Cleanup(c) PROVE Bookkeeping'
  BY <1>11 DEF Cleanup, TypeState, TypeHandlers, TypeHistory, Request, LocalId, Unregister
<1>12. ASSUME NEW c \in Client, SendToServer(c) PROVE Bookkeeping'
  BY <1>12 DEF SendToServer, TypeState, TypeHandlers, TypeHistory, Request, LocalId, AfterOne
<1>13. ASSUME NEW c \in Client, Disconnect(c) PROVE Bookkeeping'
  BY <1>13 DEF Disconnect, TypeState, TypeHandlers, TypeHistory, Request, LocalId
<1>14. ASSUME NEW c \in Client, HandshakeTimeout(c) PROVE Bookkeeping'
  BY <1>14 DEF HandshakeTimeout, TypeState, TypeHandlers, TypeHistory, Request, LocalId
<1>15. ASSUME NEW c \in Client, DecodeError(c) PROVE Bookkeeping'
  BY <1>15 DEF DecodeError, TypeState, TypeHandlers, TypeHistory, Request, LocalId
<1>16. ASSUME NEW c \in Client, WriterFails(c) PROVE Bookkeeping'
  BY <1>16 DEF WriterFails, TypeState, TypeHandlers, TypeHistory, Request, LocalId, Unregister
<1>17. CASE RouteReset
  BY <1>17 DEF RouteReset, TypeState
<1>18. CASE RouteResponse
  BY <1>18 DEF RouteResponse, TypeState
<1>19. CASE RouteCache
  BY <1>19 DEF RouteCache, TypeState
<1>20. CASE RouteReply
  BY <1>20 DEF RouteReply, TypeState
<1>21. CASE ReapExpire
  BY <1>21 DEF ReapExpire, TypeState
<1>22. CASE ReapReply \/ ManagerStep \/ ChildStep \/ RouteNotification \/ UNCHANGED vars
  <2>1. UNCHANGED <<asked, msgs, pc, work, rpc, held, pending, next_global_id>>
    BY <1>22 DEF RouteNotification, ReapReply, LazyReceive, MaxRestartsReached, Spawn, SpawnFails, WriteFirst, ReceiveForChild, Write, ExitNoticed, HeartbeatRestart, SendReset, ClearCache, Respond, Notify, ChildDies, StdinJams, ReaderEnds, ManagerStep, ChildStep, vars
  <2> QED
    BY <2>1
<1> QED
  BY <1>1, <1>2, <1>3, <1>4, <1>5, <1>6, <1>7, <1>8, <1>9, <1>10, <1>11, <1>12, <1>13, <1>14, <1>15, <1>16, <1>17, <1>18, <1>19, <1>20, <1>21, <1>22
  DEF Next, ClientStep, ReadStep, HandlerStep, RouterStep, ReaperStep, ManagerStep,
      ChildStep

=============================================================================
