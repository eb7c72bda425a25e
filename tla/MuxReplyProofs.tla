-------------------------- MODULE MuxReplyProofs --------------------------
(***************************************************************************)
(* Every request is in one place until it is answered, once, by the        *)
(* response to it: OneOwner, AtMostOneReply, RequestAccounted and          *)
(* NoCrossTalk.                                                            *)
(***************************************************************************)
EXTENDS MuxRuntimeProofs

\* The invariant of one request.
OwnerOK(r) ==
    /\ asked[r] = "none" => ~(Placed(r) \/ Answered(r))
    /\ OwnedOnce(r)
    /\ Len(answers[r]) <= 1
    /\ asked[r] # "none" /\ r[1] \in clients => Answered(r) \/ Placed(r)

\* OwnerInv is a statement about each request by itself.
LEMMA OwnerParts == OwnerInv <=> PendingInjective /\ \A r \in Request : OwnerOK(r)
  BY DEF OwnerInv, OwnerOK, NothingUnasked, OneOwner, AtMostOneReply, RequestAccounted

\* The request is where it was.
SamePlaces(r) ==
    /\ InWork(r)' <=> InWork(r)
    /\ InBuffer(r)' <=> InBuffer(r)
    /\ InPending(r)' <=> InPending(r)
    /\ InHeld(r)' <=> InHeld(r)
    /\ InExpired(r)' <=> InExpired(r)
    /\ InWaiting(r)' <=> InWaiting(r)

\* A step that leaves a request where it was keeps its part of the invariant.
LEMMA Untouched ==
  ASSUME NEW r \in Request, OwnerOK(r), SamePlaces(r),
         asked'[r] = asked[r], answers'[r] = answers[r],
         r[1] \in clients' => r[1] \in clients
  PROVE  OwnerOK(r)'
  BY DEF OwnerOK, SamePlaces, Placed, OwnedOnce, Answered

\* A request that leaves its place for its client's channel, or for nowhere when the
\* client is gone.
LEMMA Delivered ==
  ASSUME TypeHistory, NEW r \in Request, OwnerOK(r), NEW R, NEW a \in Answer,
         Deliver(R, a), r \in R, ~Answered(r), ~Placed(r)', 
         asked'[r] # "none", UNCHANGED clients
  PROVE  OwnerOK(r)'
<1>1. CASE r[1] \in clients
  <2>1. answers'[r] = Append(answers[r], a) /\ answers[r] = <<>>
    BY <1>1 DEF Deliver, Answered
  <2>2. answers'[r] = <<a>>
    BY <2>1
  <2> QED
    BY <2>2 DEF OwnerOK, Placed, OwnedOnce, Answered
<1>2. CASE r[1] \notin clients
  <2>1. answers'[r] = answers[r] /\ answers[r] = <<>>
    BY <1>2 DEF Deliver, Answered
  <2> QED
    BY <1>2, <2>1 DEF OwnerOK, Placed, OwnedOnce, Answered
<1> QED
  BY <1>1, <1>2

\* Deliver leaves the other requests alone.
LEMMA NotDelivered ==
  ASSUME NEW r \in Request, NEW R, NEW a, Deliver(R, a), r \notin R
  PROVE  answers'[r] = answers[r]
  BY DEF Deliver

\* The message just read is a request nobody knows yet.
LEMMA CurrentUnasked ==
  ASSUME TypeOK, Bookkeeping, NEW c \in Client, NEW k, Receive(c, k)
  PROVE  Current(c) \in Request /\ asked[Current(c)] = "none"
<1>1. Current(c) \in Request /\ msgs[c] \in Nat
  BY ReceiveType, BoundsAssumption DEF TypeOK, TypeHandlers
<1> QED
  BY <1>1 DEF Bookkeeping, Current, TypeOK, TypeHistory

\* A new entry of the pending table: the global id is not in use.
LEMMA AllocatePending ==
  ASSUME TypeState, Bookkeeping, PendingInjective, NEW c \in Client, NEW r \in Request,
         NEW type, Allocate(c, r, type), ~InPending(r)
  PROVE  /\ PendingInjective'
         /\ \A q \in Request : InPending(q)' <=> InPending(q) \/ q = r
<1> DEFINE g0 == next_global_id
<1>1. g0 \notin DOMAIN pending
  BY DEF Bookkeeping, TypeState
<1>2. /\ DOMAIN pending' = DOMAIN pending \cup {g0}
      /\ pending'[g0].req = r
      /\ \A g \in DOMAIN pending : pending'[g] = pending[g]
  BY <1>1 DEF Allocate
<1>3. \A g \in DOMAIN pending : pending[g].req # r
  BY DEF InPending
<1> HIDE DEF g0
<1>4. PendingInjective'
  BY <1>2, <1>3 DEF PendingInjective
<1>5. \A q \in Request : InPending(q)' <=> InPending(q) \/ q = r
  BY <1>2 DEF InPending
<1> QED
  BY <1>4, <1>5

\* A table of pending requests with fewer entries.
LEMMA ShrinkPending ==
  ASSUME PendingInjective, NEW G \in SUBSET DOMAIN pending,
         pending' = [g \in G |-> pending[g]]
  PROVE  /\ PendingInjective'
         /\ \A q \in Request : InPending(q)' <=> \E g \in G : pending[g].req = q
  BY DEF PendingInjective, InPending

\* unregister_client forgets every request of the client that is in a table.
LEMMA UnregisterOwner ==
  ASSUME TypeState, PendingInjective, \A r \in Request : OwnerOK(r), NEW c \in Client,
         Unregister(c), UNCHANGED <<work, held, expired, asked, answers>>
  PROVE  PendingInjective' /\ \A r \in Request : OwnerOK(r)'
<1> DEFINE G == {h \in DOMAIN pending : pending[h].req[1] # c}
<1>1. /\ PendingInjective'
      /\ \A q \in Request : InPending(q)' <=> \E g \in G : pending[g].req = q
  BY ShrinkPending DEF Unregister
<1>2. ASSUME NEW r \in Request PROVE OwnerOK(r)'
  <2>1. /\ InWork(r)' <=> InWork(r)
        /\ InHeld(r)' <=> InHeld(r)
        /\ InExpired(r)' <=> InExpired(r)
        /\ Answered(r)' <=> Answered(r)
    BY DEF InWork, InHeld, InExpired, Answered
  <2>2. CASE r[1] = c
    <3>1. /\ ~InPending(r)' /\ ~InBuffer(r)' /\ ~InWaiting(r)'
          /\ r[1] \notin clients'
      BY <1>1, <2>2 DEF InBuffer, InWaiting, Unregister, TypeState
    <3> QED
      BY <2>1, <3>1 DEF OwnerOK, OwnedOnce, Placed
  <2>3. CASE r[1] # c
    <3>1. /\ InPending(r)' <=> InPending(r)
          /\ r[1] \in clients' => r[1] \in clients
      BY <1>1, <2>3 DEF InPending, Unregister
    <3>2. InBuffer(r)' <=> InBuffer(r)
      BY <2>3 DEF InBuffer, Unregister, Request, TypeState
    <3>3. InWaiting(r)' <=> InWaiting(r)
      BY <2>3 DEF InWaiting, Unregister
    <3> QED
      BY <2>1, <3>1, <3>2, <3>3, Untouched DEF SamePlaces
  <2> QED
    BY <2>2, <2>3
<1> QED
  BY <1>1, <1>2

\* At the start nothing has been asked.
LEMMA InitOwner == Init => OwnerInv
<1> SUFFICES ASSUME Init PROVE PendingInjective /\ \A r \in Request : OwnerOK(r)
  BY OwnerParts
<1>1. PendingInjective
  BY DEF Init, PendingInjective
<1>2. ASSUME NEW r \in Request PROVE OwnerOK(r)
  <2>1. ~InWork(r) /\ ~InBuffer(r)
    BY DEF Init, InWork, InBuffer, Request
  <2>2. ~InPending(r) /\ ~InHeld(r) /\ ~InExpired(r) /\ ~InWaiting(r)
    BY DEF Init, InPending, InHeld, InExpired, InWaiting
  <2>3. answers[r] = <<>> /\ asked[r] = "none"
    BY DEF Init
  <2> QED
    BY <2>1, <2>2, <2>3 DEF OwnerOK, OwnedOnce, Placed, Answered
<1> QED
  BY <1>1, <1>2

\* One step per action that moves, answers or forgets a request.
LEMMA StepOwner == TypeOK /\ Bookkeeping /\ OwnerInv /\ [Next]_vars => OwnerInv'
<1> SUFFICES ASSUME TypeOK, Bookkeeping, OwnerInv, [Next]_vars,
                    PendingInjective, \A r \in Request : OwnerOK(r)
             PROVE  PendingInjective' /\ \A r \in Request : OwnerOK(r)'
  BY OwnerParts DEF OwnerInv, NothingUnasked, OneOwner, AtMostOneReply, RequestAccounted,
     OwnerOK
<1> USE DEF stateVars, handlerVars, routerVars, managerVars, childVars, historyVars
<1> TypeState /\ TypeHandlers /\ TypeRouter /\ TypeHistory
  BY DEF TypeOK
<1> {} \in Answer
  BY DEF Answer
<1>1. ASSUME NEW c \in Client, Connect(c)
      PROVE  PendingInjective' /\ \A r \in Request : OwnerOK(r)'
  <2>1. UNCHANGED <<asked, answers, work, buffered, pending, held, expired, init_waiting>>
    BY <1>1 DEF Connect
  <2>2. PendingInjective'
    BY <2>1 DEF PendingInjective
  <2>3. ASSUME NEW r \in Request PROVE OwnerOK(r)'
    <3>1. SamePlaces(r)
      BY <2>1 DEF SamePlaces, InWork, InBuffer, InPending, InHeld, InExpired, InWaiting
    <3>2. CASE r[1] = c
      <4>1. asked[r] = "none"
        BY <1>1, <3>2 DEF Connect, Bookkeeping, Request, LocalId, TypeHistory
      <4>2. ~Placed(r) /\ ~Answered(r)
        BY <4>1 DEF OwnerOK
      <4> QED
        BY <2>1, <3>1, <4>1, <4>2
        DEF OwnerOK, SamePlaces, Placed, OwnedOnce, Answered, TypeHistory
    <3>3. CASE r[1] # c
      <4>1. r[1] \in clients' => r[1] \in clients
        BY <1>1, <3>3 DEF Connect
      <4> QED
        BY <2>1, <3>1, <4>1, Untouched
    <3> QED
      BY <3>2, <3>3
  <2> QED
    BY <2>2, <2>3
<1>2. ASSUME NEW c \in Client, ReadTooLarge(c)
      PROVE  PendingInjective' /\ \A r \in Request : OwnerOK(r)'
  <2>1. /\ UNCHANGED <<work, buffered, pending, held, expired, init_waiting, clients>>
        /\ Deliver({Current(c)}, {})
        /\ asked' = [asked EXCEPT ![Current(c)] = "large"]
    BY <1>2 DEF ReadTooLarge
  <2>2. Current(c) \in Request /\ asked[Current(c)] = "none"
    BY <1>2, CurrentUnasked DEF ReadTooLarge
  <2>3. PendingInjective'
    BY <2>1 DEF PendingInjective
  <2>4. ASSUME NEW r \in Request PROVE OwnerOK(r)'
    <3>1. SamePlaces(r)
      BY <2>1 DEF SamePlaces, InWork, InBuffer, InPending, InHeld, InExpired, InWaiting
    <3>2. CASE r = Current(c)
      <4>1. ~Placed(r) /\ ~Answered(r) /\ asked'[r] = "large"
        BY <2>1, <2>2, <3>2 DEF OwnerOK, TypeHistory
      <4>2. ~Placed(r)'
        BY <3>1, <4>1 DEF SamePlaces, Placed
      <4> QED
        BY <2>1, <3>2, <4>1, <4>2, Delivered
    <3>3. CASE r # Current(c)
      BY <2>1, <3>1, <3>3, NotDelivered, Untouched DEF TypeHistory
    <3> QED
      BY <3>2, <3>3
  <2> QED
    BY <2>3, <2>4
<1>3. ASSUME NEW c \in Client, ReadInitialize(c)
      PROVE  PendingInjective' /\ \A r \in Request : OwnerOK(r)'
  <2>0. PICK r0 \in Request : r0 = Current(c)
    BY <1>3, CurrentUnasked DEF ReadInitialize
  <2>1. /\ UNCHANGED <<work, buffered, held, expired, clients>>
        /\ asked' = [asked EXCEPT ![r0] = "initialize"]
    BY <1>3, <2>0 DEF ReadInitialize
  <2>2. r0 \in Request /\ asked[r0] = "none"
    BY <1>3, <2>0, CurrentUnasked DEF ReadInitialize
  <2>3. ~Placed(r0) /\ ~Answered(r0) /\ asked'[r0] = "initialize"
    BY <2>1, <2>2 DEF OwnerOK, TypeHistory
  <2>4. \A r \in Request :
          /\ InWork(r)' <=> InWork(r)
          /\ InBuffer(r)' <=> InBuffer(r)
          /\ InHeld(r)' <=> InHeld(r)
          /\ InExpired(r)' <=> InExpired(r)
          /\ r # r0 => asked'[r] = asked[r]
    BY <2>1, <2>2 DEF InWork, InBuffer, InHeld, InExpired, TypeHistory
  <2>5. ASSUME NEW a \in Answer, Deliver({r0}, a), UNCHANGED <<pending, init_waiting>>
        PROVE  PendingInjective' /\ \A r \in Request : OwnerOK(r)'
    <3>1. \A r \in Request : SamePlaces(r)
      BY <2>4, <2>5 DEF SamePlaces, InPending, InWaiting
    <3>2. OwnerOK(r0)'
      BY <2>1, <2>2, <2>3, <2>5, <3>1, Delivered DEF SamePlaces, Placed
    <3>3. ASSUME NEW r \in Request, r # r0 PROVE OwnerOK(r)'
      BY <2>1, <2>4, <2>5, <3>1, <3>3, NotDelivered, Untouched
    <3> QED
      BY <2>5, <3>2, <3>3 DEF PendingInjective
  <2>6. CASE init_waiting' = init_waiting \cup {r0} /\ UNCHANGED <<answers, pending>>
    <3>1. \A r \in Request : /\ InPending(r)' <=> InPending(r)
                             /\ InWaiting(r)' <=> InWaiting(r) \/ r = r0
      BY <2>6 DEF InPending, InWaiting
    <3>2. OwnerOK(r0)'
      BY <2>2, <2>3, <2>4, <2>6, <3>1 DEF OwnerOK, OwnedOnce, Placed, Answered
    <3>3. ASSUME NEW r \in Request, r # r0 PROVE OwnerOK(r)'
      BY <2>1, <2>4, <2>6, <3>1, <3>3, Untouched DEF SamePlaces
    <3> QED
      BY <2>6, <3>2, <3>3 DEF PendingInjective
  <2>7. CASE Allocate(c, r0, "initialize") /\ UNCHANGED <<init_waiting, answers>>
    <3>1. /\ PendingInjective'
          /\ \A r \in Request : /\ InPending(r)' <=> InPending(r) \/ r = r0
                                /\ InWaiting(r)' <=> InWaiting(r)
      BY <2>2, <2>3, <2>7, AllocatePending DEF Placed, InWaiting
    <3>2. OwnerOK(r0)'
      BY <2>2, <2>3, <2>4, <2>7, <3>1 DEF OwnerOK, OwnedOnce, Placed, Answered
    <3>3. ASSUME NEW r \in Request, r # r0 PROVE OwnerOK(r)'
      BY <2>1, <2>4, <2>7, <3>1, <3>3, Untouched DEF SamePlaces
    <3> QED
      BY <3>1, <3>2, <3>3
  <2>8. cached.about \in Answer
    BY DEF TypeState, Cached
  <2> QED
    BY <1>3, <2>0, <2>5, <2>6, <2>7, <2>8 DEF ReadInitialize
<1>4. ASSUME NEW c \in Client, ReadCall(c)
      PROVE  PendingInjective' /\ \A r \in Request : OwnerOK(r)'
  <2>0. PICK r0 \in Request : r0 = Current(c)
    BY <1>4, CurrentUnasked DEF ReadCall
  <2>1. /\ UNCHANGED <<buffered, pending, held, expired, init_waiting, clients, answers>>
        /\ asked' = [asked EXCEPT ![r0] = "call"]
        /\ work' = [work EXCEPT ![c] = {msgs[c] + 1}]
        /\ work[c] = {}
    BY <1>4, <2>0 DEF ReadCall, Receive, Bookkeeping
  <2>2. r0 \in Request /\ asked[r0] = "none"
    BY <1>4, <2>0, CurrentUnasked DEF ReadCall
  <2>3. ~Placed(r0) /\ ~Answered(r0) /\ asked'[r0] = "call"
    BY <2>1, <2>2 DEF OwnerOK, TypeHistory
  <2>4. \A r \in Request :
          /\ InBuffer(r)' <=> InBuffer(r)
          /\ InPending(r)' <=> InPending(r)
          /\ InHeld(r)' <=> InHeld(r)
          /\ InExpired(r)' <=> InExpired(r)
          /\ InWaiting(r)' <=> InWaiting(r)
          /\ r # r0 => asked'[r] = asked[r]
    BY <2>1, <2>2 DEF InBuffer, InPending, InHeld, InExpired, InWaiting, TypeHistory
  <2>5. \A r \in Request : InWork(r)' <=> InWork(r) \/ r = r0
    BY <2>0, <2>1 DEF InWork, Current, Request, TypeHandlers
  <2>6. OwnerOK(r0)'
    BY <2>1, <2>2, <2>3, <2>4, <2>5 DEF OwnerOK, OwnedOnce, Placed, Answered
  <2>7. ASSUME NEW r \in Request, r # r0 PROVE OwnerOK(r)'
    BY <2>1, <2>4, <2>5, <2>7, Untouched DEF SamePlaces
  <2> QED
    BY <2>1, <2>6, <2>7 DEF PendingInjective
<1>5. ASSUME NEW c \in Client, BufferMessage(c)
      PROVE  PendingInjective' /\ \A r \in Request : OwnerOK(r)'
  <2>1. /\ UNCHANGED <<pending, held, expired, init_waiting, clients, asked, answers>>
        /\ work' = [work EXCEPT ![c] = {}]
        /\ buffered' = [buffered EXCEPT ![c] = IF c \in clients THEN @ \cup work[c] ELSE @]
    BY <1>5 DEF BufferMessage
  <2>2. \A r \in Request :
          /\ InPending(r)' <=> InPending(r)
          /\ InHeld(r)' <=> InHeld(r)
          /\ InExpired(r)' <=> InExpired(r)
          /\ InWaiting(r)' <=> InWaiting(r)
    BY <2>1 DEF InPending, InHeld, InExpired, InWaiting
  <2>4. ASSUME NEW r \in Request PROVE OwnerOK(r)'
    <3>1. r[1] \in Client
      BY DEF Request
    <3>2. CASE r[1] # c
      <4>1. work'[r[1]] = work[r[1]] /\ buffered'[r[1]] = buffered[r[1]]
        BY <2>1, <3>1, <3>2 DEF TypeHandlers, TypeState
      <4> QED
        BY <2>1, <2>2, <4>1, Untouched DEF SamePlaces, InWork, InBuffer
    <3>3. CASE r[1] = c
      <4>1. /\ work'[r[1]] = {}
            /\ buffered'[r[1]] = IF r[1] \in clients THEN buffered[r[1]] \cup work[r[1]]
                                ELSE buffered[r[1]]
        BY <2>1, <3>1, <3>3 DEF TypeHandlers, TypeState
      <4>2. ~InWork(r)' /\ (InBuffer(r)' => InBuffer(r) \/ InWork(r))
        BY <4>1 DEF InWork, InBuffer
      <4>3. r[1] \in clients /\ (InBuffer(r) \/ InWork(r)) => InBuffer(r)'
        BY <4>1 DEF InWork, InBuffer
      <4> QED
        BY <2>1, <2>2, <4>2, <4>3 DEF OwnerOK, OwnedOnce, Placed, Answered
    <3> QED
      BY <3>2, <3>3
  <2> QED
    BY <2>1, <2>4 DEF PendingInjective
<1>6. ASSUME NEW c \in Client, Forward(c)
      PROVE  PendingInjective' /\ \A r \in Request : OwnerOK(r)'
  <2>0. PICK n \in work[c] : n = Oldest(work[c])
    BY <1>6, OldestInWork DEF Forward, TypeHandlers
  <2>1. PICK r0 \in Request : r0 = <<c, n>>
    BY <2>0 DEF TypeHandlers, Request
  <2>2. /\ UNCHANGED <<buffered, held, expired, init_waiting, clients, asked>>
        /\ work' = [work EXCEPT ![c] = @ \ {n}]
    BY <1>6, <2>0 DEF Forward
  <2>3. \A r \in Request :
          /\ InBuffer(r)' <=> InBuffer(r)
          /\ InHeld(r)' <=> InHeld(r)
          /\ InExpired(r)' <=> InExpired(r)
          /\ InWaiting(r)' <=> InWaiting(r)
    BY <2>2 DEF InBuffer, InHeld, InExpired, InWaiting
  <2>4. InWork(r0) /\ ~InWork(r0)'
    BY <2>0, <2>1, <2>2 DEF InWork, TypeHandlers
  <2>5. \A r \in Request : r # r0 => (InWork(r)' <=> InWork(r))
    BY <2>0, <2>1, <2>2 DEF InWork, TypeHandlers, Request
  <2>6. /\ ~InBuffer(r0) /\ ~InPending(r0) /\ ~InHeld(r0) /\ ~InExpired(r0)
        /\ ~InWaiting(r0) /\ ~Answered(r0) /\ asked[r0] # "none"
    BY <2>4 DEF OwnerOK, OwnedOnce, Placed
  <2>7. CASE Deliver({r0}, {}) /\ UNCHANGED pending
    <3>1. \A r \in Request : InPending(r)' <=> InPending(r)
      BY <2>7 DEF InPending
    <3>2. ~Placed(r0)'
      BY <2>3, <2>4, <2>6, <3>1 DEF Placed
    <3>3. OwnerOK(r0)'
      BY <2>2, <2>6, <2>7, <3>2, Delivered
    <3>4. ASSUME NEW r \in Request, r # r0 PROVE OwnerOK(r)'
      BY <2>2, <2>3, <2>5, <2>7, <3>1, <3>4, NotDelivered, Untouched DEF SamePlaces
    <3> QED
      BY <2>7, <3>3, <3>4 DEF PendingInjective
  <2>8. CASE Allocate(c, r0, "call") /\ UNCHANGED answers
    <3>1. /\ PendingInjective'
          /\ \A r \in Request : InPending(r)' <=> InPending(r) \/ r = r0
      BY <2>6, <2>8, AllocatePending
    <3>2. OwnerOK(r0)'
      BY <2>2, <2>3, <2>4, <2>6, <2>8, <3>1 DEF OwnerOK, OwnedOnce, Placed, Answered
    <3>3. ASSUME NEW r \in Request, r # r0 PROVE OwnerOK(r)'
      BY <2>2, <2>3, <2>5, <2>8, <3>1, <3>3, Untouched DEF SamePlaces
    <3> QED
      BY <3>1, <3>2, <3>3
  <2> QED
    BY <1>6, <2>0, <2>1, <2>7, <2>8 DEF Forward
<1>7. ASSUME NEW c \in Client, CompleteHandshake(c)
      PROVE  PendingInjective' /\ \A r \in Request : OwnerOK(r)'
  <2>1. /\ UNCHANGED <<pending, held, expired, init_waiting, clients, asked, answers>>
        /\ work' = [work EXCEPT ![c] = buffered[c]] /\ work[c] = {}
        /\ buffered' = [buffered EXCEPT ![c] = {}]
    BY <1>7 DEF CompleteHandshake, Bookkeeping
  <2>2. \A r \in Request :
          /\ InPending(r)' <=> InPending(r)
          /\ InHeld(r)' <=> InHeld(r)
          /\ InExpired(r)' <=> InExpired(r)
          /\ InWaiting(r)' <=> InWaiting(r)
    BY <2>1 DEF InPending, InHeld, InExpired, InWaiting
  <2>3. ASSUME NEW r \in Request PROVE OwnerOK(r)'
    <3>1. r[1] \in Client
      BY DEF Request
    <3>2. CASE r[1] # c
      <4>1. work'[r[1]] = work[r[1]] /\ buffered'[r[1]] = buffered[r[1]]
        BY <2>1, <3>1, <3>2 DEF TypeHandlers, TypeState
      <4> QED
        BY <2>1, <2>2, <4>1, Untouched DEF SamePlaces, InWork, InBuffer
    <3>3. CASE r[1] = c
      <4>1. /\ work'[r[1]] = buffered[r[1]] /\ work[r[1]] = {}
            /\ buffered'[r[1]] = {}
        BY <2>1, <3>1, <3>3 DEF TypeHandlers, TypeState
      <4>2. ~InWork(r) /\ ~InBuffer(r)' /\ (InWork(r)' <=> InBuffer(r))
        BY <4>1 DEF InWork, InBuffer
      <4> QED
        BY <2>1, <2>2, <4>2 DEF OwnerOK, OwnedOnce, Placed, Answered
    <3> QED
      BY <3>2, <3>3
  <2> QED
    BY <2>1, <2>3 DEF PendingInjective
<1>8. ASSUME NEW c \in Client, Cleanup(c) \/ WriterFails(c)
      PROVE  PendingInjective' /\ \A r \in Request : OwnerOK(r)'
  BY <1>8, UnregisterOwner DEF Cleanup, WriterFails
<1>9. CASE RouteReset
  <2> DEFINE R == {pending[g].req : g \in DOMAIN pending} \cup init_waiting
  <2>1. /\ UNCHANGED <<work, buffered, held, expired, clients, asked>>
        /\ Deliver(R, {}) /\ DOMAIN pending' = {} /\ init_waiting' = {}
    BY <1>9 DEF RouteReset
  <2>2. ASSUME NEW r \in Request PROVE OwnerOK(r)'
    <3>1. /\ InWork(r)' <=> InWork(r)
          /\ InBuffer(r)' <=> InBuffer(r)
          /\ InHeld(r)' <=> InHeld(r)
          /\ InExpired(r)' <=> InExpired(r)
          /\ ~InPending(r)' /\ ~InWaiting(r)'
      BY <2>1 DEF InWork, InBuffer, InHeld, InExpired, InPending, InWaiting
    <3>2. r \in R <=> InPending(r) \/ InWaiting(r)
      BY DEF InPending, InWaiting
    <3>3. CASE InPending(r) \/ InWaiting(r)
      <4>1. /\ ~InWork(r) /\ ~InBuffer(r) /\ ~InHeld(r) /\ ~InExpired(r)
            /\ ~Answered(r) /\ asked[r] # "none"
        BY <3>3 DEF OwnerOK, OwnedOnce, Placed
      <4>2. ~Placed(r)'
        BY <3>1, <4>1 DEF Placed
      <4> QED
        BY <2>1, <3>2, <3>3, <4>1, <4>2, Delivered
    <3>4. CASE ~InPending(r) /\ ~InWaiting(r)
      BY <2>1, <3>1, <3>2, <3>4, NotDelivered, Untouched DEF SamePlaces
    <3> QED
      BY <3>3, <3>4
  <2> QED
    BY <2>1, <2>2 DEF PendingInjective
<1>10. CASE RouteResponse
  <2>0. held = {}
    BY <1>10 DEF RouteResponse, Bookkeeping
  <2>1. UNCHANGED <<work, buffered, expired, init_waiting, clients, asked, answers>>
    BY <1>10 DEF RouteResponse
  <2>2. \A r \in Request :
          /\ InWork(r)' <=> InWork(r)
          /\ InBuffer(r)' <=> InBuffer(r)
          /\ InExpired(r)' <=> InExpired(r)
          /\ InWaiting(r)' <=> InWaiting(r)
    BY <2>1 DEF InWork, InBuffer, InExpired, InWaiting
  <2>3. CASE UNCHANGED <<pending, held>>
    <3>1. \A r \in Request : SamePlaces(r)
      BY <2>2, <2>3 DEF SamePlaces, InPending, InHeld
    <3> QED
      BY <2>1, <2>3, <3>1, Untouched DEF PendingInjective
  <2>4. ASSUME NEW k \in DOMAIN pending, held' = {pending[k]},
               pending' = [g \in DOMAIN pending \ {k} |-> pending[g]]
        PROVE  PendingInjective' /\ \A r \in Request : OwnerOK(r)'
    <3>0. PICK r0 \in Request : r0 = pending[k].req
      BY DEF TypeState, Pending
    <3>1. /\ PendingInjective'
          /\ \A q \in Request :
               InPending(q)' <=> \E g \in DOMAIN pending \ {k} : pending[g].req = q
      BY <2>4, ShrinkPending
    <3>2. \A q \in Request : ~InHeld(q) /\ (InHeld(q)' <=> q = r0)
      BY <2>0, <2>4, <3>0 DEF InHeld
    <3>3. InPending(r0) /\ ~InPending(r0)'
      BY <3>0, <3>1 DEF InPending, PendingInjective
    <3>4. \A q \in Request : q # r0 => (InPending(q)' <=> InPending(q))
      BY <3>0, <3>1 DEF InPending
    <3>5. OwnerOK(r0)'
      BY <2>1, <2>2, <3>2, <3>3 DEF OwnerOK, OwnedOnce, Placed, Answered
    <3>6. ASSUME NEW r \in Request, r # r0 PROVE OwnerOK(r)'
      BY <2>1, <2>2, <3>2, <3>4, <3>6, Untouched DEF SamePlaces
    <3> QED
      BY <3>1, <3>5, <3>6
  <2> QED
    BY <1>10, <2>3, <2>4 DEF RouteResponse
<1>11. CASE RouteCache
  <2>1. /\ UNCHANGED <<work, buffered, pending, held, expired, clients, asked>>
        /\ init_waiting' = {}
    BY <1>11 DEF RouteCache
  <2>2. PICK a \in resp : Deliver(init_waiting, a.about)
    BY <1>11 DEF RouteCache
  <2>3. a.about \in Answer
    BY DEF TypeRouter, Cached
  <2>4. ASSUME NEW r \in Request PROVE OwnerOK(r)'
    <3>1. /\ InWork(r)' <=> InWork(r)
          /\ InBuffer(r)' <=> InBuffer(r)
          /\ InPending(r)' <=> InPending(r)
          /\ InHeld(r)' <=> InHeld(r)
          /\ InExpired(r)' <=> InExpired(r)
          /\ ~InWaiting(r)'
      BY <2>1 DEF InWork, InBuffer, InPending, InHeld, InExpired, InWaiting
    <3>2. CASE InWaiting(r)
      <4>1. /\ ~InWork(r) /\ ~InBuffer(r) /\ ~InPending(r) /\ ~InHeld(r)
            /\ ~InExpired(r) /\ ~Answered(r) /\ asked[r] # "none"
        BY <3>2 DEF OwnerOK, OwnedOnce, Placed
      <4>2. ~Placed(r)' /\ r \in init_waiting
        BY <3>1, <3>2, <4>1 DEF Placed, InWaiting
      <4> QED
        BY <2>1, <2>2, <2>3, <4>1, <4>2, Delivered
    <3>3. CASE ~InWaiting(r)
      <4>1. r \notin init_waiting
        BY <3>3 DEF InWaiting
      <4> QED
        BY <2>1, <2>2, <3>1, <3>3, <4>1, NotDelivered, Untouched DEF SamePlaces
    <3> QED
      BY <3>2, <3>3
  <2> QED
    BY <2>1, <2>4 DEF PendingInjective
<1>12. CASE RouteReply
  <2> DEFINE R == {p.req : p \in held}
  <2>1. /\ UNCHANGED <<work, buffered, pending, expired, init_waiting, clients, asked>>
        /\ held' = {}
    BY <1>12 DEF RouteReply
  <2>2. PICK a \in resp : Deliver(R, a.about)
    BY <1>12 DEF RouteReply
  <2>3. a.about \in Answer
    BY DEF TypeRouter, Cached
  <2>4. ASSUME NEW r \in Request PROVE OwnerOK(r)'
    <3>1. /\ InWork(r)' <=> InWork(r)
          /\ InBuffer(r)' <=> InBuffer(r)
          /\ InPending(r)' <=> InPending(r)
          /\ InExpired(r)' <=> InExpired(r)
          /\ InWaiting(r)' <=> InWaiting(r)
          /\ ~InHeld(r)'
      BY <2>1 DEF InWork, InBuffer, InPending, InHeld, InExpired, InWaiting
    <3>2. r \in R <=> InHeld(r)
      BY DEF InHeld
    <3> HIDE DEF R
    <3>3. CASE InHeld(r)
      <4>1. /\ ~InWork(r) /\ ~InBuffer(r) /\ ~InPending(r) /\ ~InWaiting(r)
            /\ ~InExpired(r) /\ ~Answered(r) /\ asked[r] # "none"
        BY <3>3 DEF OwnerOK, OwnedOnce, Placed
      <4>2. ~Placed(r)'
        BY <3>1, <4>1 DEF Placed
      <4> QED
        BY <2>1, <2>2, <2>3, <3>2, <3>3, <4>1, <4>2, Delivered
    <3>4. CASE ~InHeld(r)
      BY <2>1, <2>2, <3>1, <3>2, <3>4, NotDelivered, Untouched DEF SamePlaces
    <3> QED
      BY <3>3, <3>4
  <2> QED
    BY <2>1, <2>4 DEF PendingInjective
<1>13. CASE ReapExpire
  <2>1. /\ UNCHANGED <<work, buffered, held, init_waiting, clients, asked, answers>>
        /\ expired = {}
    BY <1>13 DEF ReapExpire
  <2>2. PICK k \in DOMAIN pending :
         /\ expired' = {pending[g].req : g \in {h \in DOMAIN pending : h <= k}}
         /\ pending' = [g \in {h \in DOMAIN pending : h > k} |-> pending[g]]
    BY <1>13 DEF ReapExpire
  <2>3. /\ PendingInjective'
        /\ \A q \in Request :
             InPending(q)' <=> \E g \in {h \in DOMAIN pending : h > k} : pending[g].req = q
    BY <2>2, ShrinkPending
  <2>4. ASSUME NEW r \in Request PROVE OwnerOK(r)'
    <3>1. /\ InWork(r)' <=> InWork(r)
          /\ InBuffer(r)' <=> InBuffer(r)
          /\ InHeld(r)' <=> InHeld(r)
          /\ InWaiting(r)' <=> InWaiting(r)
          /\ ~InExpired(r)
      BY <2>1 DEF InWork, InBuffer, InHeld, InWaiting, InExpired
    <3>2. InPending(r) => InPending(r)' \/ InExpired(r)'
      BY <2>2, <2>3 DEF InPending, InExpired, TypeState
    <3>3. InPending(r)' \/ InExpired(r)' => InPending(r)
      BY <2>2, <2>3 DEF InPending, InExpired
    <3>4. ~(InPending(r)' /\ InExpired(r)')
      BY <2>2, <2>3 DEF InExpired, PendingInjective, TypeState
    <3> QED
      BY <2>1, <3>1, <3>2, <3>3, <3>4 DEF OwnerOK, OwnedOnce, Placed, Answered
  <2> QED
    BY <2>3, <2>4
<1>14. CASE ReapReply
  <2>1. /\ UNCHANGED <<work, buffered, pending, held, init_waiting, clients, asked>>
        /\ Deliver(expired, {}) /\ expired' = {}
    BY <1>14 DEF ReapReply
  <2>2. ASSUME NEW r \in Request PROVE OwnerOK(r)'
    <3>1. /\ InWork(r)' <=> InWork(r)
          /\ InBuffer(r)' <=> InBuffer(r)
          /\ InPending(r)' <=> InPending(r)
          /\ InHeld(r)' <=> InHeld(r)
          /\ InWaiting(r)' <=> InWaiting(r)
          /\ ~InExpired(r)'
      BY <2>1 DEF InWork, InBuffer, InPending, InHeld, InWaiting, InExpired
    <3>2. CASE InExpired(r)
      <4>1. /\ ~InWork(r) /\ ~InBuffer(r) /\ ~InPending(r) /\ ~InHeld(r)
            /\ ~InWaiting(r) /\ ~Answered(r) /\ asked[r] # "none"
        BY <3>2 DEF OwnerOK, OwnedOnce, Placed
      <4>2. ~Placed(r)' /\ r \in expired
        BY <3>1, <3>2, <4>1 DEF Placed, InExpired
      <4> QED
        BY <2>1, <4>1, <4>2, Delivered
    <3>3. CASE ~InExpired(r)
      <4>1. r \notin expired
        BY <3>3 DEF InExpired
      <4> QED
        BY <2>1, <3>1, <3>3, <4>1, NotDelivered, Untouched DEF SamePlaces
    <3> QED
      BY <3>2, <3>3
  <2> QED
    BY <2>1, <2>2 DEF PendingInjective
<1>15. ASSUME UNCHANGED <<work, buffered, pending, held, expired, init_waiting, clients,
                          asked, answers>>
       PROVE  PendingInjective' /\ \A r \in Request : OwnerOK(r)'
  <2>1. \A r \in Request : SamePlaces(r)
    BY <1>15 DEF SamePlaces, InWork, InBuffer, InPending, InHeld, InExpired, InWaiting
  <2> QED
    BY <1>15, <2>1, Untouched DEF PendingInjective
<1>16. ASSUME NEW c \in Client,
              ReadNote(c) \/ ReadInitialized(c) \/ Announce(c) \/ SendToServer(c)
                \/ Disconnect(c) \/ HandshakeTimeout(c) \/ DecodeError(c)
       PROVE  PendingInjective' /\ \A r \in Request : OwnerOK(r)'
  BY <1>15, <1>16
  DEF ReadNote, ReadInitialized, Announce, SendToServer, Disconnect, HandshakeTimeout,
      DecodeError
<1>17. CASE RouteNotification \/ ManagerStep \/ ChildStep \/ UNCHANGED vars
  BY <1>15, <1>17
  DEF RouteNotification, ManagerStep, LazyReceive, MaxRestartsReached, Spawn, SpawnFails,
      WriteFirst, ReceiveForChild, Write, ExitNoticed, HeartbeatRestart, SendReset,
      ClearCache, ChildStep, Respond, Notify, ChildDies, StdinJams,
      ReaderEnds, vars
<1> QED
  BY <1>1, <1>2, <1>3, <1>4, <1>5, <1>6, <1>7, <1>8, <1>9, <1>10, <1>11, <1>12, <1>13,
     <1>14, <1>16, <1>17
  DEF Next, ClientStep, ReadStep, HandlerStep, RouterStep, ReaperStep

\* OwnerInv with what it rests on.
IInv == TypeOK /\ Bookkeeping /\ OwnerInv

\* The inductive invariant behind the theorems below: types, bookkeeping, and one
\* place for every request that is not answered yet (OneOwner, AtMostOneReply,
\* RequestAccounted).
THEOREM OwnerCorrect == Spec => []IInv
<1>1. Init => IInv
  BY InitTypeOK, InitBookkeeping, InitOwner DEF IInv
<1>2. IInv /\ [Next]_vars => IInv'
  BY StepTypeOK, StepBookkeeping, StepOwner DEF IInv
<1> QED
  BY <1>1, <1>2, PTL DEF Spec

\* No request is ever answered twice (AtMostOneReply): a response that races the
\* timeout, the reset after a restart or a disconnect finds the request taken.
THEOREM ReplyAtMostOnce == Spec => []AtMostOneReply
<1>1. IInv => AtMostOneReply
  BY DEF IInv, OwnerInv
<1> QED
  BY <1>1, OwnerCorrect, PTL

\* Two tasks never own the same request (OneOwner).
THEOREM OwnedByOne == Spec => []OneOwner
<1>1. IInv => OneOwner
  BY DEF IInv, OwnerInv
<1> QED
  BY <1>1, OwnerCorrect, PTL

\* No request of a registered client is dropped without an answer (RequestAccounted).
THEOREM NoRequestDropped == Spec => []RequestAccounted
<1>1. IInv => RequestAccounted
  BY DEF IInv, OwnerInv
<1> QED
  BY <1>1, OwnerCorrect, PTL

(***************************************************************************)
(* Responses reach the request they answer: NoCrossTalk is an invariant.   *)
(***************************************************************************)

\* What a step may do to the tables a genuine message refers to.
TablesGrow ==
    /\ \A r \in Request : asked[r] # "none" => asked'[r] = asked[r]
    /\ next_global_id' \in Nat /\ next_global_id' >= next_global_id
    /\ \A g \in DOMAIN pending' :
         \/ g \in DOMAIN pending /\ pending'[g] = pending[g]
         \/ g >= next_global_id

\* A genuine message stays genuine while the tables only grow or forget.
LEMMA GenuineStable ==
  ASSUME TypeState, TablesGrow, NEW m \in Msg, Genuine(m)
  PROVE  Genuine(m)'
<1>1. CASE m.type \notin {"initialize", "call"}
  BY <1>1 DEF Genuine
<1>2. CASE m.type \in {"initialize", "call"}
  <2>1. /\ m.gid < next_global_id /\ asked[m.req] = m.type /\ m.req \in Request
        /\ m.gid \in Nat
        /\ m.gid \in DOMAIN pending => pending[m.gid].req = m.req
    BY <1>2 DEF Genuine, Msg
  <2>2. asked'[m.req] = m.type
    BY <1>2, <2>1 DEF TablesGrow
  <2>3. m.gid < next_global_id'
    BY <2>1 DEF TablesGrow, TypeState
  <2>4. m.gid \in DOMAIN pending' => pending'[m.gid].req = m.req
    BY <2>1 DEF TablesGrow, TypeState
  <2> QED
    BY <2>2, <2>3, <2>4 DEF Genuine
<1> QED
  BY <1>1, <1>2

\* Reading a message records a new request and changes no earlier one.
LEMMA AskGrows ==
  ASSUME TypeOK, Bookkeeping, NEW c \in Client, NEW k, Receive(c, k), NEW v,
         asked' = [asked EXCEPT ![Current(c)] = v]
  PROVE  \A r \in Request : asked[r] # "none" => asked'[r] = asked[r]
  BY CurrentUnasked DEF TypeOK, TypeHistory

\* A new pending entry takes an id that no earlier message carries.
LEMMA AllocateGrows ==
  ASSUME TypeState, NEW c, NEW r, NEW type, Allocate(c, r, type)
  PROVE  /\ next_global_id' \in Nat /\ next_global_id' >= next_global_id
         /\ \A g \in DOMAIN pending' :
              \/ g \in DOMAIN pending /\ pending'[g] = pending[g]
              \/ g >= next_global_id
  BY DEF TypeState, Allocate

\* Every step of the system treats the tables in that way.
LEMMA StepTablesGrow == TypeOK /\ Bookkeeping /\ [Next]_vars => TablesGrow
<1> SUFFICES ASSUME TypeOK, Bookkeeping, [Next]_vars PROVE TablesGrow
  OBVIOUS
<1> USE DEF stateVars, handlerVars, routerVars, managerVars, childVars, historyVars
<1> TypeState
  BY DEF TypeOK
<1>1. ASSUME UNCHANGED <<asked, next_global_id>>,
             NEW G \in SUBSET DOMAIN pending, pending' = [g \in G |-> pending[g]]
      PROVE  TablesGrow
  BY <1>1 DEF TablesGrow, TypeState
<1>2. ASSUME UNCHANGED <<asked, next_global_id, pending>>
      PROVE  TablesGrow
  BY <1>2 DEF TablesGrow, TypeState
<1>3. ASSUME NEW c \in Client, ReadTooLarge(c) PROVE TablesGrow
  <2>1. \A r \in Request : asked[r] # "none" => asked'[r] = asked[r]
    BY <1>3, AskGrows DEF ReadTooLarge
  <2>2. UNCHANGED <<pending, next_global_id>>
    BY <1>3 DEF ReadTooLarge
  <2> QED
    BY <2>1, <2>2 DEF TablesGrow, TypeState
<1>4. ASSUME NEW c \in Client, ReadInitialize(c) PROVE TablesGrow
  <2>1. \A r \in Request : asked[r] # "none" => asked'[r] = asked[r]
    BY <1>4, AskGrows DEF ReadInitialize
  <2>2. CASE Allocate(c, Current(c), "initialize")
    BY <2>1, <2>2, AllocateGrows DEF TablesGrow
  <2>3. CASE UNCHANGED <<pending, next_global_id>>
    BY <2>1, <2>3 DEF TablesGrow, TypeState
  <2> QED
    BY <1>4, <2>2, <2>3 DEF ReadInitialize
<1>5. ASSUME NEW c \in Client, ReadCall(c) PROVE TablesGrow
  <2>1. \A r \in Request : asked[r] # "none" => asked'[r] = asked[r]
    BY <1>5, AskGrows DEF ReadCall
  <2>2. UNCHANGED <<pending, next_global_id>>
    BY <1>5 DEF ReadCall
  <2> QED
    BY <2>1, <2>2 DEF TablesGrow, TypeState
<1>6. ASSUME NEW c \in Client, Forward(c) PROVE TablesGrow
  <2>1. CASE Allocate(c, <<c, Oldest(work[c])>>, "call")
    BY <1>6, <2>1, AllocateGrows DEF Forward, TablesGrow
  <2>2. CASE UNCHANGED <<pending, next_global_id>>
    BY <1>2, <1>6, <2>2 DEF Forward
  <2> QED
    BY <1>6, <2>1, <2>2 DEF Forward
<1>7. ASSUME NEW c \in Client, Cleanup(c) \/ WriterFails(c) PROVE TablesGrow
  <2>1. /\ UNCHANGED <<asked, next_global_id>>
        /\ pending' = [g \in {h \in DOMAIN pending : pending[h].req[1] # c} |-> pending[g]]
    BY <1>7 DEF Cleanup, WriterFails, Unregister
  <2> QED
    BY <1>1, <2>1
<1>8. ASSUME NEW c \in Client,
             Connect(c) \/ ReadNote(c) \/ ReadInitialized(c) \/ BufferMessage(c) \/ Announce(c)
               \/ CompleteHandshake(c) \/ SendToServer(c) \/ Disconnect(c)
               \/ HandshakeTimeout(c) \/ DecodeError(c)
      PROVE  TablesGrow
  BY <1>2, <1>8
  DEF Connect, ReadNote, ReadInitialized, BufferMessage, Announce, CompleteHandshake,
      SendToServer, Disconnect, HandshakeTimeout, DecodeError
<1>9. CASE RouteReset
  BY <1>9 DEF RouteReset, TablesGrow, TypeState
<1>10. CASE RouteResponse
  <2>1. UNCHANGED <<asked, next_global_id>>
    BY <1>10 DEF RouteResponse
  <2>2. \/ UNCHANGED pending
        \/ \E k : pending' = [g \in DOMAIN pending \ {k} |-> pending[g]]
    BY <1>10 DEF RouteResponse
  <2> QED
    BY <1>1, <1>2, <2>1, <2>2
<1>11. CASE ReapExpire
  <2>1. UNCHANGED <<asked, next_global_id>>
    BY <1>11 DEF ReapExpire
  <2>2. \E k : pending' = [g \in {h \in DOMAIN pending : h > k} |-> pending[g]]
    BY <1>11 DEF ReapExpire
  <2> QED
    BY <1>1, <2>1, <2>2
<1>12. CASE RouteNotification \/ RouteCache \/ RouteReply \/ ReapReply \/ ManagerStep
            \/ ChildStep \/ UNCHANGED vars
  BY <1>2, <1>12
  DEF RouteNotification, RouteCache, RouteReply, ReapReply, ManagerStep, LazyReceive,
      MaxRestartsReached, Spawn, SpawnFails, WriteFirst, ReceiveForChild, Write,
      ExitNoticed, HeartbeatRestart, SendReset, ClearCache, ChildStep, Respond, Notify,
      ChildDies, StdinJams,
      ReaderEnds, vars
<1> QED
  BY <1>3, <1>4, <1>5, <1>6, <1>7, <1>8, <1>9, <1>10, <1>11, <1>12
  DEF Next, ClientStep, ReadStep, HandlerStep, RouterStep, ReaperStep

-----------------------------------------------------------------------------
\* What a step may do to the tables that record what a request asked.
KindsStep ==
    /\ \A r \in Request : InWork(r)' \/ InBuffer(r)' =>
         InWork(r) \/ InBuffer(r) \/ asked'[r] = "call"
    /\ \A r \in init_waiting' : r \in init_waiting \/ asked'[r] = "initialize"
    /\ \A g \in DOMAIN pending' :
         \/ g \in DOMAIN pending /\ pending'[g] = pending[g]
         \/ asked'[pending'[g].req] = IF pending'[g].init THEN "initialize" ELSE "call"

\* A step that only moves or forgets entries keeps the tables in agreement.
LEMMA KindsStepAgree ==
  ASSUME TypeState, KindsAgree, TablesGrow, KindsStep
  PROVE  KindsAgree'
<1>1. \A r \in Request : InWork(r)' \/ InBuffer(r)' => asked'[r] = "call"
  BY DEF KindsAgree, KindsStep, TablesGrow
<1>2. \A r \in init_waiting' : asked'[r] = "initialize"
  BY DEF KindsAgree, KindsStep, TablesGrow, TypeState
<1>3. \A g \in DOMAIN pending' :
         asked'[pending'[g].req] = IF pending'[g].init THEN "initialize" ELSE "call"
  <2> SUFFICES ASSUME NEW g \in DOMAIN pending'
               PROVE  asked'[pending'[g].req] =
                        IF pending'[g].init THEN "initialize" ELSE "call"
    OBVIOUS
  <2>1. CASE g \in DOMAIN pending /\ pending'[g] = pending[g]
    <3>1. pending[g].req \in Request
      BY <2>1 DEF TypeState, Pending
    <3>2. asked[pending[g].req] = IF pending[g].init THEN "initialize" ELSE "call"
      BY <2>1 DEF KindsAgree
    <3>3. asked'[pending[g].req] = asked[pending[g].req]
      BY <3>1, <3>2 DEF TablesGrow
    <3> QED
      BY <2>1, <3>2, <3>3
  <2> QED
    BY <2>1 DEF KindsStep
<1> QED
  BY <1>1, <1>2, <1>3 DEF KindsAgree

\* The entry of a new request says what the request asked.
LEMMA AllocateKinds ==
  ASSUME NEW c, NEW r, NEW type \in {"initialize", "call"}, Allocate(c, r, type),
         asked'[r] = type
  PROVE  \A g \in DOMAIN pending' :
           \/ g \in DOMAIN pending /\ pending'[g] = pending[g]
           \/ asked'[pending'[g].req] = IF pending'[g].init THEN "initialize" ELSE "call"
<1> SUFFICES ASSUME NEW g \in DOMAIN pending',
                    ~(g \in DOMAIN pending /\ pending'[g] = pending[g])
             PROVE  asked'[pending'[g].req] =
                      IF pending'[g].init THEN "initialize" ELSE "call"
  OBVIOUS
<1>1. pending'[g] = [req |-> r, init |-> type = "initialize"]
  BY DEF Allocate
<1>3. CASE type = "initialize"
  <2>1. pending'[g] = [req |-> r, init |-> TRUE]
    BY <1>1, <1>3
  <2> QED
    BY <1>3, <2>1
<1>4. CASE type = "call"
  <2>1. pending'[g] = [req |-> r, init |-> FALSE]
    BY <1>1, <1>4
  <2> QED
    BY <1>4, <2>1
<1> QED
  BY <1>3, <1>4

\* Every step of the system keeps the tables in agreement.
LEMMA StepKinds ==
  TypeOK /\ Bookkeeping /\ KindsAgree /\ TablesGrow /\ [Next]_vars => KindsAgree'
<1> SUFFICES ASSUME TypeOK, Bookkeeping, KindsAgree, TablesGrow, [Next]_vars
             PROVE  KindsStep
  BY KindsStepAgree DEF TypeOK
<1> USE DEF stateVars, handlerVars, routerVars, managerVars, childVars, historyVars
<1> TypeState /\ TypeHandlers /\ TypeHistory
  BY DEF TypeOK
<1>1. ASSUME UNCHANGED <<work, buffered, init_waiting, pending>>
      PROVE  KindsStep
  BY <1>1 DEF KindsStep, InWork, InBuffer
<1>2. ASSUME NEW c \in Client, ReadInitialize(c) PROVE KindsStep
  <2>1. Current(c) \in Request /\ asked'[Current(c)] = "initialize"
    BY <1>2, CurrentUnasked DEF ReadInitialize, TypeHistory
  <2>2. UNCHANGED <<work, buffered>>
    BY <1>2 DEF ReadInitialize
  <2>3. \A r \in init_waiting' : r \in init_waiting \/ asked'[r] = "initialize"
    BY <1>2, <2>1 DEF ReadInitialize
  <2>4. CASE UNCHANGED pending
    BY <2>2, <2>3, <2>4 DEF KindsStep, InWork, InBuffer
  <2>5. CASE Allocate(c, Current(c), "initialize")
    <3>1. \A g \in DOMAIN pending' :
           \/ g \in DOMAIN pending /\ pending'[g] = pending[g]
           \/ asked'[pending'[g].req] = IF pending'[g].init THEN "initialize" ELSE "call"
      BY <2>1, <2>5, AllocateKinds
    <3> QED
      BY <2>2, <2>3, <3>1 DEF KindsStep, InWork, InBuffer
  <2> QED
    BY <1>2, <2>4, <2>5 DEF ReadInitialize
<1>3. ASSUME NEW c \in Client, ReadCall(c) PROVE KindsStep
  <2>1. Current(c) \in Request /\ asked'[Current(c)] = "call"
    BY <1>3, CurrentUnasked DEF ReadCall, TypeHistory
  <2>2. /\ UNCHANGED <<buffered, init_waiting, pending>>
        /\ work' = [work EXCEPT ![c] = {msgs[c] + 1}]
    BY <1>3 DEF ReadCall
  <2>3. ASSUME NEW r \in Request, InWork(r)' PROVE InWork(r) \/ r = Current(c)
    BY <2>2, <2>3 DEF InWork, Request, Current, TypeHandlers
  <2> QED
    BY <2>1, <2>2, <2>3 DEF KindsStep, InBuffer
<1>4. ASSUME NEW c \in Client, BufferMessage(c) PROVE KindsStep
  <2>1. /\ UNCHANGED <<init_waiting, pending>>
        /\ work' = [work EXCEPT ![c] = {}]
        /\ buffered' = [buffered EXCEPT ![c] = IF c \in clients THEN @ \cup work[c] ELSE @]
    BY <1>4 DEF BufferMessage
  <2>2. ASSUME NEW r \in Request, InWork(r)' \/ InBuffer(r)'
        PROVE  InWork(r) \/ InBuffer(r)
    BY <2>1, <2>2 DEF InWork, InBuffer, Request, TypeHandlers, TypeState
  <2> QED
    BY <2>1, <2>2 DEF KindsStep
<1>5. ASSUME NEW c \in Client, CompleteHandshake(c) PROVE KindsStep
  <2>1. /\ UNCHANGED <<init_waiting, pending>>
        /\ work' = [work EXCEPT ![c] = buffered[c]]
        /\ buffered' = [buffered EXCEPT ![c] = {}]
    BY <1>5 DEF CompleteHandshake
  <2>2. ASSUME NEW r \in Request, InWork(r)' \/ InBuffer(r)'
        PROVE  InWork(r) \/ InBuffer(r)
    BY <2>1, <2>2 DEF InWork, InBuffer, Request, TypeHandlers, TypeState
  <2> QED
    BY <2>1, <2>2 DEF KindsStep
<1>6. ASSUME NEW c \in Client, Forward(c) PROVE KindsStep
  <2> DEFINE n == Oldest(work[c])
  <2>1. work[c] \subseteq LocalId /\ n \in work[c]
    BY <1>6, OldestInWork DEF Forward, TypeHandlers
  <2>2. /\ UNCHANGED <<buffered, init_waiting, asked>>
        /\ work' = [work EXCEPT ![c] = @ \ {n}]
        /\ UNCHANGED pending \/ Allocate(c, <<c, n>>, "call")
    BY <1>6 DEF Forward
  <2> HIDE DEF n
  <2>3. ASSUME NEW r \in Request, InWork(r)' PROVE InWork(r)
    BY <2>2, <2>3 DEF InWork, Request, TypeHandlers
  <2>4. <<c, n>> \in Request /\ InWork(<<c, n>>)
    BY <2>1 DEF Request, InWork
  <2>5. asked'[<<c, n>>] = "call"
    BY <2>2, <2>4 DEF KindsAgree
  <2>6. \A g \in DOMAIN pending' :
           \/ g \in DOMAIN pending /\ pending'[g] = pending[g]
           \/ asked'[pending'[g].req] = IF pending'[g].init THEN "initialize" ELSE "call"
    BY <2>2, <2>5, AllocateKinds
  <2> QED
    BY <2>2, <2>3, <2>6 DEF KindsStep, InBuffer
<1>7. ASSUME NEW c \in Client, Cleanup(c) \/ WriterFails(c) PROVE KindsStep
  <2>1. UNCHANGED work /\ Unregister(c)
    BY <1>7 DEF Cleanup, WriterFails
  <2>2. ASSUME NEW r \in Request, InBuffer(r)' PROVE InBuffer(r)
    BY <2>1, <2>2 DEF InBuffer, Unregister, Request, TypeState
  <2> QED
    BY <2>1, <2>2 DEF KindsStep, InWork, Unregister
<1>8. CASE RouteReset
  BY <1>8 DEF RouteReset, KindsStep, InWork, InBuffer
<1>9. CASE RouteResponse
  <2>1. UNCHANGED <<work, buffered, init_waiting>>
    BY <1>9 DEF RouteResponse
  <2>2. \A g \in DOMAIN pending' : g \in DOMAIN pending /\ pending'[g] = pending[g]
    BY <1>9 DEF RouteResponse
  <2> QED
    BY <2>1, <2>2 DEF KindsStep, InWork, InBuffer
<1>10. CASE RouteCache
  BY <1>10 DEF RouteCache, KindsStep, InWork, InBuffer
<1>11. CASE ReapExpire
  <2>1. UNCHANGED <<work, buffered, init_waiting>>
    BY <1>11 DEF ReapExpire
  <2>2. \A g \in DOMAIN pending' : g \in DOMAIN pending /\ pending'[g] = pending[g]
    BY <1>11 DEF ReapExpire
  <2> QED
    BY <2>1, <2>2 DEF KindsStep, InWork, InBuffer
<1>12. ASSUME NEW c \in Client,
              Connect(c) \/ ReadTooLarge(c) \/ ReadNote(c) \/ ReadInitialized(c)
                \/ Announce(c) \/ SendToServer(c) \/ Disconnect(c)
                \/ HandshakeTimeout(c) \/ DecodeError(c)
       PROVE  KindsStep
  BY <1>1, <1>12
  DEF Connect, ReadTooLarge, ReadNote, ReadInitialized, Announce, SendToServer,
      Disconnect, HandshakeTimeout, DecodeError
<1>13. CASE RouteNotification \/ RouteReply \/ ReapReply \/ ManagerStep \/ ChildStep
            \/ UNCHANGED vars
  BY <1>1, <1>13
  DEF RouteNotification, RouteReply, ReapReply, ManagerStep, LazyReceive,
      MaxRestartsReached, Spawn, SpawnFails, WriteFirst, ReceiveForChild, Write,
      ExitNoticed, HeartbeatRestart, SendReset, ClearCache, ChildStep, Respond, Notify,
      ChildDies, StdinJams,
      ReaderEnds, vars
<1> QED
  BY <1>2, <1>3, <1>4, <1>5, <1>6, <1>7, <1>8, <1>9, <1>10, <1>11, <1>12, <1>13
  DEF Next, ClientStep, ReadStep, HandlerStep, RouterStep, ReaperStep

-----------------------------------------------------------------------------
\* Messages move between the places, and a new one is genuine.
LEMMA StepMessages ==
  TypeOK /\ Bookkeeping /\ KindsAgree /\ MessagesGenuine /\ TablesGrow /\ TypeOK'
    /\ [Next]_vars => MessagesGenuine'
<1> SUFFICES ASSUME TypeOK, Bookkeeping, KindsAgree, MessagesGenuine, TablesGrow, TypeOK',
                    [Next]_vars
             PROVE  MessagesGenuine'
  OBVIOUS
<1> USE DEF stateVars, handlerVars, routerVars, managerVars, childVars, historyVars
<1> TypeState /\ TypeHandlers /\ TypeManager /\ TypeChild /\ TypeHistory
  BY DEF TypeOK
<1> TypeState' /\ TypeHandlers' /\ TypeManager' /\ TypeChild' /\ TypeHistory'
  BY DEF TypeOK
<1> DEFINE OutOK    == \A c \in Client : \A m \in out'[c] : Genuine(m)'
           QueueOK  == \A m \in Queued' : Genuine(m)'
           HeldOK   == \A m \in mheld' : Genuine(m)'
           ChildOK  == \A m \in childIn' : Genuine(m)' /\ m.type \in {"initialize", "call"}
           EventsOK == \A m \in Responses' : Genuine(m)' /\ m.type \in {"initialize", "call"}
<1>a. ASSUME OutOK, QueueOK, HeldOK, ChildOK, EventsOK PROVE MessagesGenuine'
  BY <1>a DEF MessagesGenuine
<1>g. ASSUME NEW m \in Msg, Genuine(m) PROVE Genuine(m)'
  BY <1>g, GenuineStable
<1>o. ASSUME NEW c \in Client, NEW S, out' = [out EXCEPT ![c] = S],
             \A m \in S : Genuine(m)'
      PROVE  OutOK
  BY <1>g, <1>o DEF MessagesGenuine, TypeHandlers
<1>ou. ASSUME UNCHANGED out PROVE OutOK
  BY <1>g, <1>ou DEF MessagesGenuine, TypeHandlers
<1>q. \A m \in Queued : m \in Msg /\ Genuine(m)
  BY DEF MessagesGenuine, Queued, TypeChild
<1>qu. ASSUME UNCHANGED toServer PROVE QueueOK
  BY <1>g, <1>q, <1>qu DEF Queued
<1>qa. ASSUME NEW m \in Msg, toServer' = Append(toServer, m), Genuine(m)' PROVE QueueOK
  <2>1. Queued' \subseteq Queued \cup {m}
    BY <1>qa DEF Queued, TypeChild
  <2> QED
    BY <1>g, <1>q, <1>qa, <2>1
<1>qt. ASSUME toServer # <<>>, toServer' = Tail(toServer) PROVE QueueOK
  <2>1. Queued' \subseteq Queued
    BY <1>qt DEF Queued, TypeChild
  <2> QED
    BY <1>g, <1>q, <2>1
<1>hu. ASSUME UNCHANGED mheld PROVE HeldOK
  BY <1>g, <1>hu DEF MessagesGenuine, TypeManager
<1>hq. ASSUME toServer # <<>>, mheld' = {Head(toServer)} PROVE HeldOK
  <2>1. Head(toServer) \in Queued
    BY <1>hq DEF Queued, TypeChild
  <2> QED
    BY <1>g, <1>q, <1>hq, <2>1
<1>he. ASSUME mheld' = {} PROVE HeldOK
  BY <1>he
<1>cu. ASSUME childIn' \subseteq childIn PROVE ChildOK
  BY <1>g, <1>cu DEF MessagesGenuine, TypeChild
<1>cf. ASSUME NEW m \in mheld, Feed(m) PROVE ChildOK
  BY <1>g, <1>cf DEF MessagesGenuine, TypeChild, TypeManager, Feed
<1>e. \A m \in Responses : m \in Msg /\ Genuine(m) /\ m.type \in {"initialize", "call"}
  <2>1. \A i \in 1..Len(events) : events[i].msg \subseteq Msg
    <3> TAKE i \in 1..Len(events)
    <3>1. events[i] \in Event
      BY DEF TypeChild
    <3> QED
      BY <3>1 DEF Event
  <2> QED
    BY <2>1 DEF MessagesGenuine, Responses
<1>eu. ASSUME UNCHANGED events PROVE EventsOK
  BY <1>g, <1>e, <1>eu DEF Responses
<1>et. ASSUME events # <<>>, events' = Tail(events) PROVE EventsOK
  <2>0. events \in Seq(Event)
    BY DEF TypeChild
  <2>2. /\ Len(events') = Len(events) - 1
        /\ \A i \in 1..Len(events') : i + 1 \in 1..Len(events) /\ events'[i] = events[i + 1]
    BY ONLY <2>0, <1>et
  <2>1. Responses' \subseteq Responses
    BY ONLY <2>2 DEF Responses
  <2> QED
    BY <1>g, <1>e, <2>1
<1>ea. ASSUME NEW e \in Event, e.msg = {}, events' = Append(events, e) PROVE EventsOK
  <2>1. Responses' \subseteq Responses
    BY <1>ea DEF Responses, TypeChild
  <2> QED
    BY <1>g, <1>e, <2>1
<1> HIDE DEF OutOK, QueueOK, HeldOK, ChildOK, EventsOK
<1>n. ASSUME NEW c \in Client, NEW r \in Request, NEW type \in {"initialize", "call"},
             Allocate(c, r, type), asked'[r] = type
      PROVE  OutOK
  <2> PICK m0 : m0 = [type |-> type, gid |-> next_global_id, req |-> r]
    OBVIOUS
  <2>1. out' = [out EXCEPT ![c] = {m0}]
    BY <1>n DEF Allocate
  <2>2. next_global_id \in Nat /\ next_global_id' = next_global_id + 1
        /\ pending'[next_global_id].req = r
    BY <1>n DEF Allocate, TypeState
  <2>3. Genuine(m0)'
    BY <1>n, <2>2 DEF Genuine
  <2>4. \A m \in {m0} : Genuine(m)'
    BY <2>3
  <2> QED
    BY ONLY <1>o, <2>1, <2>4, c \in Client
<1>1. ASSUME UNCHANGED <<out, toServer, mheld, childIn, events>> PROVE MessagesGenuine'
  BY <1>1, <1>a, <1>ou, <1>qu, <1>hu, <1>cu, <1>eu
<1>2. ASSUME NEW c \in Client, ReadInitialize(c) PROVE MessagesGenuine'
  <2>1. Current(c) \in Request /\ asked'[Current(c)] = "initialize"
    BY <1>2, CurrentUnasked DEF ReadInitialize, TypeHistory
  <2>2. UNCHANGED <<toServer, mheld, childIn, events>>
    BY <1>2 DEF ReadInitialize
  <2>3. UNCHANGED out \/ Allocate(c, Current(c), "initialize")
    BY <1>2 DEF ReadInitialize
  <2>4. OutOK
    BY <1>n, <1>ou, <2>1, <2>3
  <2> QED
    BY <2>2, <2>4, <1>a, <1>qu, <1>hu, <1>cu, <1>eu
<1>3. ASSUME NEW c \in Client, Forward(c) PROVE MessagesGenuine'
  <2>1. work[c] # {}
    BY <1>3 DEF Forward, TypeHandlers
  <2>2. PICK n \in LocalId : n = Oldest(work[c]) /\ n \in work[c]
    BY <2>1, OldestInWork DEF TypeHandlers
  <2>3. /\ UNCHANGED <<toServer, mheld, childIn, events, asked>>
        /\ UNCHANGED out \/ Allocate(c, <<c, n>>, "call")
    BY <1>3, <2>2 DEF Forward
  <2>4. <<c, n>> \in Request /\ InWork(<<c, n>>)
    BY <2>2 DEF Request, InWork
  <2>5. asked'[<<c, n>>] = "call"
    BY <2>3, <2>4 DEF KindsAgree
  <2>6. OutOK
    BY <1>n, <1>ou, <2>3, <2>4, <2>5
  <2> QED
    BY <2>3, <2>6, <1>a, <1>qu, <1>hu, <1>cu, <1>eu
<1>4. ASSUME NEW c \in Client, SendToServer(c) PROVE MessagesGenuine'
  <2>1. UNCHANGED <<mheld, childIn, events>> /\ out' = [out EXCEPT ![c] = {}]
    BY <1>4 DEF SendToServer
  <2>2. UNCHANGED toServer \/ \E m \in out[c] : toServer' = Append(toServer, m)
    BY <1>4 DEF SendToServer
  <2>3. \A m \in out[c] : m \in Msg /\ Genuine(m)
    BY DEF MessagesGenuine, TypeHandlers
  <2>4. QueueOK
    BY <1>g, <1>qu, <1>qa, <2>2, <2>3
  <2>5. OutOK
    BY <1>o, <2>1
  <2> QED
    BY <2>1, <2>4, <2>5, <1>a, <1>hu, <1>cu, <1>eu
<1>5. ASSUME NEW c \in Client, ReadNote(c) \/ Announce(c) PROVE MessagesGenuine'
  <2>1. UNCHANGED <<out, mheld, childIn, events>>
    BY <1>5 DEF ReadNote, Announce
  <2>2. PICK m : /\ m.type \in {"note", "initialized"}
                 /\ toServer' = toServer \/ toServer' = Append(toServer, m)
    BY <1>5 DEF ReadNote, Announce, TrySend
  <2>3. Genuine(m)'
    BY <2>2 DEF Genuine
  <2>4. ASSUME toServer' = Append(toServer, m) PROVE m \in Msg
    BY <2>4 DEF TypeChild
  <2>5. QueueOK
    BY <1>qu, <1>qa, <2>2, <2>3, <2>4
  <2> QED
    BY <2>1, <2>5, <1>a, <1>ou, <1>hu, <1>cu, <1>eu
<1>6. CASE RouteReset \/ RouteNotification \/ RouteResponse
  <2>1. /\ UNCHANGED <<out, toServer, mheld, childIn>>
        /\ events # <<>> /\ events' = Tail(events)
    BY <1>6 DEF RouteReset, RouteNotification, RouteResponse
  <2> QED
    BY <2>1, <1>a, <1>ou, <1>qu, <1>hu, <1>cu, <1>et
<1>7. CASE LazyReceive \/ ReceiveForChild
  <2>1. /\ UNCHANGED <<out, childIn, events>>
        /\ toServer # <<>> /\ toServer' = Tail(toServer) /\ mheld' = {Head(toServer)}
    BY <1>7 DEF LazyReceive, ReceiveForChild
  <2> QED
    BY <2>1, <1>a, <1>ou, <1>qt, <1>hq, <1>cu, <1>eu
<1>8. CASE Spawn \/ ClearCache
  <2>1. /\ UNCHANGED <<out, toServer, mheld, events>>
        /\ childIn' = {}
    BY <1>8 DEF Spawn, ClearCache
  <2> QED
    BY <2>1, <1>a, <1>ou, <1>qu, <1>hu, <1>cu, <1>eu
<1>9. CASE SpawnFails
  <2>1. /\ UNCHANGED <<out, childIn, events>>
        /\ toServer' = <<>> /\ mheld' = {}
    BY <1>9 DEF SpawnFails
  <2>2. QueueOK
    BY <2>1 DEF QueueOK, Queued
  <2> QED
    BY <2>1, <2>2, <1>a, <1>ou, <1>he, <1>cu, <1>eu
<1>10. CASE WriteFirst \/ Write
  <2>1. /\ UNCHANGED <<out, toServer, events>>
        /\ mheld' = {}
        /\ UNCHANGED childIn \/ \E m \in mheld : Feed(m)
    BY <1>10 DEF WriteFirst, Write
  <2>2. ChildOK
    BY <2>1, <1>cu, <1>cf
  <2> QED
    BY <2>1, <2>2, <1>a, <1>ou, <1>qu, <1>he, <1>eu
<1>11. CASE SendReset \/ Notify
  <2>1. UNCHANGED <<out, toServer, mheld, childIn>>
    BY <1>11 DEF SendReset, Notify
  <2>2. PICK e \in Event : e.msg = {} /\ events' = Append(events, e)
    BY <1>11 DEF SendReset, Notify, Reset, Event, TypeChild
  <2> QED
    BY <2>1, <2>2, <1>a, <1>ou, <1>qu, <1>hu, <1>cu, <1>ea
<1>12. CASE Respond
  <2>1. UNCHANGED <<out, toServer, mheld>>
    BY <1>12 DEF Respond
  <2>2. PICK m \in childIn, n \in 1..MaxCopies :
          /\ events' = events \o [i \in 1..n |->
                         [type |-> "response", msg |-> {m}, gen |-> gen]]
          /\ childIn' = childIn \ {m}
    BY <1>12 DEF Respond
  <2>3. m \in Msg /\ Genuine(m)' /\ m.type \in {"initialize", "call"}
    BY <1>g DEF MessagesGenuine, TypeChild
  <2>4. Responses' \subseteq Responses \cup {m}
    <3> DEFINE copies == [j \in 1..n |-> [type |-> "response", msg |-> {m}, gen |-> gen]]
    <3>1. n \in Nat
      BY BoundsAssumption
    <3>2. /\ copies \in Seq(Event) /\ Len(copies) = n
          /\ \A j \in 1..n : copies[j].msg = {m}
      BY <2>3, <3>1 DEF TypeChild, Event
    <3>3. events \in Seq(Event) /\ events' = events \o copies
      BY <2>2 DEF TypeChild
    <3> HIDE DEF copies
    <3>4. /\ Len(events') = Len(events) + n
          /\ \A i \in 1..Len(events) : events'[i] = events[i]
          /\ \A i \in Len(events)+1..Len(events') : events'[i] = copies[i - Len(events)]
      <4> SUFFICES ASSUME NEW s, s = copies, s \in Seq(Event)
                   PROVE  /\ Len(events \o s) = Len(events) + Len(s)
                          /\ \A i \in 1..Len(events) : (events \o s)[i] = events[i]
                          /\ \A i \in Len(events)+1..Len(events \o s) :
                               (events \o s)[i] = s[i - Len(events)]
        BY <3>2, <3>3
      <4> QED
        BY ONLY <3>3, s \in Seq(Event)
    <3>5. ASSUME NEW i \in 1..Len(events'), i \notin 1..Len(events)
          PROVE  events'[i].msg = {m}
      <4>1. i - Len(events) \in 1..n /\ i \in Len(events)+1..Len(events')
        BY <3>1, <3>3, <3>4, <3>5
      <4> QED
        BY <3>2, <3>4, <4>1
    <3> QED
      BY <3>4, <3>5 DEF Responses
  <2>5. EventsOK
    BY <1>g, <1>e, <2>3, <2>4 DEF EventsOK
  <2> QED
    BY <2>1, <2>2, <2>5, <1>a, <1>ou, <1>qu, <1>hu, <1>cu
<1>13. ASSUME NEW c \in Client,
              Connect(c) \/ ReadTooLarge(c) \/ ReadCall(c) \/ ReadInitialized(c)
                \/ BufferMessage(c) \/ CompleteHandshake(c) \/ Cleanup(c)
                \/ WriterFails(c) \/ Disconnect(c) \/ HandshakeTimeout(c)
                \/ DecodeError(c)
       PROVE  MessagesGenuine'
  BY <1>1, <1>13
  DEF Connect, ReadTooLarge, ReadCall, ReadInitialized, BufferMessage, CompleteHandshake,
      Cleanup, WriterFails, Disconnect, HandshakeTimeout, DecodeError
<1>14. CASE RouteCache \/ RouteReply \/ ReaperStep \/ MaxRestartsReached \/ ExitNoticed
            \/ HeartbeatRestart \/ ChildDies \/ StdinJams \/ UNCHANGED vars
  BY <1>1, <1>14
  DEF RouteCache, RouteReply, ReaperStep, ReapExpire, ReapReply, MaxRestartsReached,
      ExitNoticed, HeartbeatRestart, ChildDies, StdinJams, vars
<1>15. CASE ReaderEnds
  <2>1. UNCHANGED <<out, toServer, mheld, events>> /\ childIn' \subseteq childIn
    BY <1>15 DEF ReaderEnds
  <2> QED
    BY <2>1, <1>a, <1>ou, <1>qu, <1>hu, <1>cu, <1>eu
<1> QED
  BY <1>2, <1>3, <1>4, <1>5, <1>6, <1>7, <1>8, <1>9, <1>10, <1>11, <1>12, <1>13, <1>14,
     <1>15
  DEF Next, ClientStep, ReadStep, HandlerStep, RouterStep, ManagerStep, ChildStep

-----------------------------------------------------------------------------
\* The router holds a request together with the response to that very request.
LEMMA StepAnswers ==
  TypeOK /\ KindsAgree /\ MessagesGenuine /\ AnswersGenuine /\ TablesGrow
    /\ [Next]_vars => AnswersGenuine'
<1> SUFFICES ASSUME TypeOK, KindsAgree, MessagesGenuine, AnswersGenuine, TablesGrow,
                    [Next]_vars
             PROVE  AnswersGenuine'
  OBVIOUS
<1> USE DEF stateVars, handlerVars, routerVars, managerVars, childVars, historyVars
<1> TypeState /\ TypeRouter /\ TypeChild
  BY DEF TypeOK
<1>a. ASSUME NEW p \in held
      PROVE  asked'[p.req] = IF p.init THEN "initialize" ELSE "call"
  <2>1. p.req \in Request
    BY DEF TypeRouter, Pending
  <2>2. asked[p.req] = IF p.init THEN "initialize" ELSE "call"
    BY DEF AnswersGenuine
  <2> QED
    BY <2>1, <2>2 DEF TablesGrow
<1>b. ASSUME NEW q \in cached.about PROVE asked'[q] = "initialize"
  <2>1. q \in Request /\ asked[q] = "initialize"
    BY DEF AnswersGenuine, TypeState, Cached, Answer
  <2> QED
    BY <2>1 DEF TablesGrow
<1>1. ASSUME UNCHANGED <<routerVars, cached>> PROVE AnswersGenuine'
  BY <1>1, <1>a, <1>b DEF AnswersGenuine
<1>2. ASSUME UNCHANGED routerVars, cached' = NoCache PROVE AnswersGenuine'
  BY <1>2, <1>a DEF AnswersGenuine, NoCache
<1>3. CASE RouteResponse
  <2>1. UNCHANGED cached
    BY <1>3 DEF RouteResponse
  <2>2. CASE UNCHANGED <<held, resp, rpc>>
    BY <1>1, <2>1, <2>2
  <2>3. CASE ~UNCHANGED <<held, resp, rpc>>
    <3>1. PICK m \in Head(events).msg :
            /\ m.gid \in DOMAIN pending
            /\ held' = {pending[m.gid]}
            /\ resp' = {[about |-> {m.req}, gen |-> Head(events).gen]}
            /\ rpc' = IF pending[m.gid].init THEN "cache" ELSE "reply"
      BY <1>3, <2>3 DEF RouteResponse
    <3>2. m \in Responses
      <4>1. events # <<>> /\ 1 \in 1..Len(events) /\ Head(events) = events[1]
        BY <1>3 DEF RouteResponse, TypeChild
      <4> QED
        BY <3>1, <4>1 DEF Responses
    <3>3. pending[m.gid].req = m.req
      BY <3>1, <3>2 DEF MessagesGenuine, Genuine
    <3>4. /\ pending[m.gid] \in Pending
          /\ asked[pending[m.gid].req] =
               IF pending[m.gid].init THEN "initialize" ELSE "call"
      BY <3>1 DEF KindsAgree, TypeState
    <3>5. asked'[pending[m.gid].req] =
               IF pending[m.gid].init THEN "initialize" ELSE "call"
      BY <3>4 DEF TablesGrow, Pending
    <3>6. \A p \in held', a \in resp' : a.about = {p.req}
      BY <3>1, <3>3
    <3>7. \A p \in held' : /\ asked'[p.req] = IF p.init THEN "initialize" ELSE "call"
                           /\ rpc' = "cache" => p.init
      BY <3>1, <3>5
    <3>8. \A q \in cached'.about : asked'[q] = "initialize"
      BY <1>b, <2>1
    <3>9. held' # {} /\ resp' # {}
      BY <3>1
    <3> QED
      BY <3>6, <3>7, <3>8, <3>9 DEF AnswersGenuine
  <2> QED
    BY <2>2, <2>3
<1>4. CASE RouteCache
  <2>1. /\ UNCHANGED <<held, resp>>
        /\ rpc = "cache" /\ rpc' = "reply"
        /\ cached' \in resp
    BY <1>4 DEF RouteCache
  <2>2. PICK p \in held : p.init /\ cached'.about = {p.req}
    BY <2>1 DEF AnswersGenuine
  <2>3. asked'[p.req] = "initialize"
    BY <1>a, <2>2
  <2>4. \A q \in cached'.about : asked'[q] = "initialize"
    BY <2>2, <2>3
  <2> QED
    BY <1>a, <2>1, <2>4 DEF AnswersGenuine
<1>5. CASE RouteReply
  <2>1. UNCHANGED cached /\ held' = {} /\ resp' = {} /\ rpc' = "idle"
    BY <1>5 DEF RouteReply
  <2> QED
    BY <1>b, <2>1 DEF AnswersGenuine
<1>6. CASE RouteReset \/ ClearCache
  BY <1>2, <1>6 DEF RouteReset, ClearCache
<1>7. ASSUME NEW c \in Client, ClientStep(c) PROVE AnswersGenuine'
  BY <1>1, <1>7
  DEF ClientStep, ReadStep, HandlerStep, Connect, ReadTooLarge, ReadInitialize, ReadCall,
      ReadNote, ReadInitialized, BufferMessage, Forward, Announce, CompleteHandshake,
      Cleanup, SendToServer, Disconnect, HandshakeTimeout, DecodeError, WriterFails
<1>8. CASE RouteNotification \/ ReaperStep \/ ChildStep \/ UNCHANGED vars
  BY <1>1, <1>8
  DEF RouteNotification, ReaperStep, ReapExpire, ReapReply, ChildStep, Respond, Notify,
      ChildDies, StdinJams,
      ReaderEnds, vars
<1>9. CASE LazyReceive \/ MaxRestartsReached \/ Spawn \/ SpawnFails \/ WriteFirst
           \/ ReceiveForChild \/ Write \/ ExitNoticed \/ HeartbeatRestart \/ SendReset
  BY <1>1, <1>9
  DEF LazyReceive, MaxRestartsReached, Spawn, SpawnFails, WriteFirst, ReceiveForChild,
      Write, ExitNoticed, HeartbeatRestart, SendReset
<1> QED
  BY <1>3, <1>4, <1>5, <1>6, <1>7, <1>8, <1>9 DEF Next, RouterStep, ManagerStep

\* Answers that match what was asked are sent: earlier ones still match.
LEMMA DeliverMatches ==
  ASSUME TypeHistory, NothingUnasked, NoCrossTalk, TablesGrow, NEW R, NEW a \in Answer,
         Deliver(R, a),
         \A r \in R \cap Request : \A q \in a :
            asked'[q] = asked'[r] /\ (asked'[r] = "call" => q = r)
  PROVE  NoCrossTalk'
<1> SUFFICES ASSUME NEW r \in Request, NEW i \in 1..Len(answers'[r]),
                    NEW q \in answers'[r][i]
             PROVE  asked'[q] = asked'[r] /\ (asked'[r] = "call" => q = r)
  BY DEF NoCrossTalk
<1>1. answers[r] \in Seq(Answer)
  BY DEF TypeHistory
<1>2. CASE i \in 1..Len(answers[r]) /\ answers'[r][i] = answers[r][i]
  <2>1. answers[r] # <<>>
    BY <1>1, <1>2
  <2>2. asked[r] # "none"
    BY <2>1 DEF NothingUnasked, Answered
  <2>3. q \in Request /\ asked[q] = asked[r] /\ (asked[r] = "call" => q = r)
    BY <1>1, <1>2 DEF NoCrossTalk, Answer
  <2> QED
    BY <2>2, <2>3 DEF TablesGrow
<1>3. CASE ~(i \in 1..Len(answers[r]) /\ answers'[r][i] = answers[r][i])
  <2>1. r \in R /\ answers'[r] = Append(answers[r], a)
    BY <1>3 DEF Deliver
  <2>2. answers'[r][i] = a
    BY <1>1, <1>3, <2>1
  <2> QED
    BY <2>1, <2>2
<1> QED
  BY <1>2, <1>3

\* Whatever a step delivers answers the request it is delivered to.
LEMMA StepNoCrossTalk ==
  TypeOK /\ Bookkeeping /\ OwnerInv /\ AddressInv /\ NoCrossTalk /\ TablesGrow
    /\ [Next]_vars => NoCrossTalk'
<1> SUFFICES ASSUME TypeOK, Bookkeeping, OwnerInv, AddressInv, NoCrossTalk, TablesGrow,
                    [Next]_vars
             PROVE  NoCrossTalk'
  OBVIOUS
<1> USE DEF stateVars, handlerVars, routerVars, managerVars, childVars, historyVars
<1> TypeState /\ TypeRouter /\ TypeHistory
  BY DEF TypeOK
<1> NothingUnasked /\ KindsAgree /\ AnswersGenuine
  BY DEF OwnerInv, AddressInv
<1>1. ASSUME NEW R, Deliver(R, {}) PROVE NoCrossTalk'
  <2>1. {} \in Answer
    BY DEF Answer
  <2> QED
    BY <1>1, <2>1, DeliverMatches
<1>2. ASSUME UNCHANGED answers PROVE NoCrossTalk'
  <2>1. Deliver({}, {})
    BY <1>2 DEF Deliver, TypeHistory
  <2> QED
    BY <1>1, <2>1
<1>3. ASSUME NEW c \in Client, ReadInitialize(c) PROVE NoCrossTalk'
  <2>1. Current(c) \in Request /\ asked'[Current(c)] = "initialize"
    BY <1>3, CurrentUnasked DEF ReadInitialize, TypeHistory
  <2>2. ASSUME NEW q \in cached.about PROVE asked'[q] = "initialize"
    <3>1. q \in Request /\ asked[q] = "initialize"
      BY DEF AnswersGenuine, TypeState, Cached, Answer
    <3> QED
      BY <3>1 DEF TablesGrow
  <2>3. CASE Deliver({Current(c)}, cached.about)
    <3>1. cached.about \in Answer
      BY DEF TypeState, Cached
    <3>2. \A r \in {Current(c)} \cap Request : \A q \in cached.about :
            asked'[q] = asked'[r] /\ (asked'[r] = "call" => q = r)
      BY <2>1, <2>2
    <3> QED
      BY <2>3, <3>1, <3>2, DeliverMatches
  <2> QED
    BY <1>1, <1>2, <1>3, <2>3 DEF ReadInitialize
<1>4. CASE RouteCache
  <2>1. PICK a \in resp : Deliver(init_waiting, a.about) /\ rpc = "cache"
    BY <1>4 DEF RouteCache
  <2>2. PICK p \in held : p.init /\ a.about = {p.req}
    BY <2>1 DEF AnswersGenuine
  <2>3. p.req \in Request /\ asked[p.req] = "initialize"
    BY <2>2 DEF AnswersGenuine, TypeRouter, Pending
  <2>4. \A r \in init_waiting : r \in Request /\ asked[r] = "initialize"
    BY DEF KindsAgree, TypeState
  <2>5. \A r \in init_waiting \cap Request : \A q \in a.about :
            asked'[q] = asked'[r] /\ (asked'[r] = "call" => q = r)
    BY <2>2, <2>3, <2>4 DEF TablesGrow
  <2>6. a.about \in Answer
    BY <2>2, <2>3 DEF Answer
  <2> QED
    BY <2>1, <2>5, <2>6, DeliverMatches
<1>5. CASE RouteReply
  <2>1. PICK a \in resp : Deliver({p.req : p \in held}, a.about)
    BY <1>5 DEF RouteReply
  <2>2. \A p \in held : p.req \in Request /\ a.about = {p.req}
    BY DEF AnswersGenuine, TypeRouter, Pending
  <2>3. \A r \in {p.req : p \in held} \cap Request : \A q \in a.about :
            asked'[q] = asked'[r] /\ (asked'[r] = "call" => q = r)
    BY <2>2
  <2>4. a.about \in Answer
    BY DEF TypeRouter, Cached
  <2> QED
    BY <2>1, <2>3, <2>4, DeliverMatches
<1>6. ASSUME NEW c \in Client, ClientStep(c), ~ReadInitialize(c) PROVE NoCrossTalk'
  BY <1>1, <1>2, <1>6
  DEF ClientStep, ReadStep, HandlerStep, Connect, ReadTooLarge, ReadCall,
      ReadNote, ReadInitialized, BufferMessage, Forward, Announce, CompleteHandshake,
      Cleanup, SendToServer, Disconnect, HandshakeTimeout, DecodeError, WriterFails
<1>7. CASE RouteReset \/ RouteNotification \/ RouteResponse \/ ReaperStep
  BY <1>1, <1>2, <1>7
  DEF RouteReset, RouteNotification, RouteResponse, ReaperStep, ReapExpire, ReapReply
<1>8. CASE ManagerStep \/ ChildStep \/ UNCHANGED vars
  BY <1>2, <1>8
  DEF ManagerStep, LazyReceive, MaxRestartsReached, Spawn, SpawnFails, WriteFirst,
      ReceiveForChild, Write, ExitNoticed, HeartbeatRestart, SendReset, ClearCache,
      ChildStep, Respond, Notify, ChildDies, StdinJams,
      ReaderEnds, vars
<1> QED
  BY <1>3, <1>4, <1>5, <1>6, <1>7, <1>8 DEF Next, RouterStep

\* At the start there are no messages and no answers.
LEMMA InitAddress == Init => AddressInv /\ NoCrossTalk
<1> SUFFICES ASSUME Init PROVE AddressInv /\ NoCrossTalk
  OBVIOUS
<1>1. KindsAgree
  BY DEF Init, KindsAgree, InWork, InBuffer, Request
<1>2. MessagesGenuine
  BY DEF Init, MessagesGenuine, Queued, Responses
<1>3. AnswersGenuine
  BY DEF Init, AnswersGenuine, NoCache
<1>4. NoCrossTalk
  BY DEF Init, NoCrossTalk
<1> QED
  BY <1>1, <1>2, <1>3, <1>4 DEF AddressInv

\* The tables, the messages and the answers stay genuine along with what MuxReplyProofs
\* shows of the owners of a request (handle_client_message, handle_server_message).
THEOREM AddressCorrect == Spec => [](IInv /\ AddressInv /\ NoCrossTalk)
<1> DEFINE Inv == IInv /\ AddressInv /\ NoCrossTalk
<1>1. Init => Inv
  BY InitTypeOK, InitBookkeeping, InitOwner, InitAddress DEF IInv
<1>2. Inv /\ [Next]_vars => Inv'
  <2> SUFFICES ASSUME Inv, [Next]_vars PROVE Inv'
    OBVIOUS
  <2>1. IInv'
    BY StepTypeOK, StepBookkeeping, StepOwner DEF IInv
  <2>2. TablesGrow
    BY StepTablesGrow DEF IInv
  <2>3. AddressInv'
    BY <2>1, <2>2, StepKinds, StepMessages, StepAnswers DEF IInv, AddressInv
  <2>4. NoCrossTalk'
    BY <2>2, StepNoCrossTalk DEF IInv
  <2> QED
    BY <2>1, <2>3, <2>4
<1> QED
  BY <1>1, <1>2, PTL DEF Spec

\* A response reaches the request it answers (NoCrossTalk), for any number of clients,
\* messages, restarts and repeated responses: the global ids of handle_client_message
\* and the pending table undo the renumbering exactly.
THEOREM ResponsesMatch == Spec => []NoCrossTalk
  BY AddressCorrect, PTL

=============================================================================
