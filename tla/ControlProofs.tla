---------------------------- MODULE ControlProofs ---------------------------
(***************************************************************************)
(* The ways in and out of a daemon, for any number of tasks, services,     *)
(* requests and daemons: the status file and its events (StatusPublish),   *)
(* the control socket (ControlSocket), the stdio proxies (StdioProxy) and  *)
(* the sockets of the services (DaemonStart).                              *)
(***************************************************************************)
EXTENDS MCControl, FiniteSetTheorems, TLAPS

(***************************************************************************)
(* Publishing the state.                                                   *)
(***************************************************************************)

Publishing == {t \in Tasks : task[t] = "publish"}

\* Each change of the state is published once.
EventsCounted == Len(log) + Cardinality(Publishing) = version

\* No event tells of a state that has not been, and the last one tells of the
\* state as it is unless a task has yet to publish it.
EventsBehind ==
    /\ \A i \in 1..Len(log) : log[i] <= version
    /\ \A i \in 1..Len(log) - 1 : log[i] <= log[i + 1]
    /\ \/ version = 0
       \/ log # <<>> /\ log[Len(log)] = version
       \/ \E t \in Tasks : task[t] = "publish"

\* No snapshot is ahead of the state, and the newest of them is the state as it
\* is unless one of it is on its way.
SnapshotsBehind ==
    /\ newest <= version /\ watched <= newest
    /\ \A t \in Tasks : snap[t] <= version
    /\ \/ newest = version
       \/ \E t \in Tasks : task[t] = "publish" \/ (task[t] = "send" /\ snap[t] = version)

\* What the writer has seen it is writing, or has written or failed to write.
WriterFollows ==
    ~unseen => IF writer = "idle" THEN failed \/ file = watched ELSE current = watched

PublishIInv == PublishTypeOK /\ EventsCounted /\ EventsBehind /\ SnapshotsBehind /\ WriterFollows

\* A task that publishes the state takes one of the changes to publish away, and
\* one that changes it adds one.
LEMMA PublishingCount ==
  ASSUME PublishTypeOK
  PROVE  /\ IsFiniteSet(Publishing) /\ Cardinality(Publishing) \in Nat
         /\ \A t \in Tasks : ChangeState(t) => Cardinality(Publishing') = Cardinality(Publishing) + 1
         /\ \A t \in Tasks : Snapshot(t) => Cardinality(Publishing') = Cardinality(Publishing) - 1
<1>1. IsFiniteSet(Publishing)
  BY PublishAssumption, FS_Subset DEF Publishing
<1>2. Cardinality(Publishing) \in Nat
  BY <1>1, FS_CardinalityType
<1>3. ASSUME NEW t \in Tasks, ChangeState(t)
      PROVE  Cardinality(Publishing') = Cardinality(Publishing) + 1
  <2>1. Publishing' = Publishing \cup {t} /\ t \notin Publishing
    BY <1>3 DEF ChangeState, Publishing, PublishTypeOK
  <2> QED
    BY <2>1, <1>1, FS_AddElement
<1>4. ASSUME NEW t \in Tasks, Snapshot(t)
      PROVE  Cardinality(Publishing') = Cardinality(Publishing) - 1
  <2>1. Publishing' = Publishing \ {t} /\ t \in Publishing
    BY <1>4 DEF Snapshot, Publishing, PublishTypeOK
  <2> QED
    BY <2>1, <1>1, FS_RemoveElement
<1> QED
  BY <1>1, <1>2, <1>3, <1>4

\* The actions of publishing in one list.
LEMMA PublishCases ==
  ASSUME PublishNext
  PROVE  \/ \E t \in Tasks : ChangeState(t)
         \/ \E t \in Tasks : Snapshot(t)
         \/ \E t \in Tasks : Send(t)
         \/ WriterTakes \/ WriteTmp \/ Rename \/ WriteFails
  BY DEF PublishNext, Publish, WriteStatus

\* A start of the daemon, the first or a later one, satisfies the invariant.
LEMMA PublishStarts ==
  /\ PublishInit => PublishIInv
  /\ PublishIInv /\ PublishRestart => PublishIInv'
<1> USE PublishAssumption
    DEF PublishTypeOK, EventsBehind, SnapshotsBehind, WriterFollows, None
<1>1. ASSUME PublishInit PROVE PublishIInv
  <2>1. Publishing = {}
    BY <1>1 DEF PublishInit, Publishing
  <2>2. EventsCounted
    BY <1>1, <2>1, FS_EmptySet DEF PublishInit, EventsCounted
  <2>3. /\ log \in Seq(0..MaxVersions) /\ file \in 0..None
        /\ unseen = FALSE /\ failed = FALSE
    BY <1>1 DEF PublishInit
  <2>4. PublishTypeOK
    <3>1. task \in [Tasks -> {"idle", "publish", "send"}] /\ snap \in [Tasks -> 0..MaxVersions]
      BY <1>1 DEF PublishInit
    <3>2. /\ version = 0 /\ watched = 0 /\ current = 0 /\ newest = 0 /\ writer = "tmp"
      BY <1>1 DEF PublishInit
    <3>3. unseen \in BOOLEAN /\ failed \in BOOLEAN
      BY <2>3, Zenon
    <3>4. /\ version \in 0..MaxVersions /\ watched \in 0..MaxVersions
          /\ current \in 0..MaxVersions /\ newest \in 0..MaxVersions
          /\ writer \in {"idle", "tmp", "rename"}
      BY <3>2
    <3> QED
      BY <2>3, <3>1, <3>3, <3>4, Zenon
  <2>5. EventsBehind /\ SnapshotsBehind
    BY <1>1 DEF PublishInit
  <2>6. WriterFollows
    BY <1>1 DEF PublishInit
  <2> QED
    BY <2>2, <2>4, <2>5, <2>6 DEF PublishIInv
<1>2. ASSUME PublishIInv, PublishRestart PROVE PublishIInv'
  <2>1. Publishing' = {}
    BY <1>2 DEF PublishRestart, Publishing
  <2>2. EventsCounted'
    BY <1>2, <2>1, FS_EmptySet DEF PublishRestart, EventsCounted
  <2>3. log' \in Seq(0..MaxVersions) /\ unseen' = FALSE /\ failed' = FALSE
    BY <1>2 DEF PublishRestart
  <2>4. PublishTypeOK'
    <3>1. task' \in [Tasks -> {"idle", "publish", "send"}] /\ snap' \in [Tasks -> 0..MaxVersions]
      BY <1>2 DEF PublishRestart
    <3>2. /\ version' = 0 /\ watched' = 0 /\ current' = 0 /\ newest' = 0 /\ writer' = "tmp"
      BY <1>2 DEF PublishRestart
    <3>3. file' \in 0..None
      BY <1>2 DEF PublishRestart, PublishIInv
    <3>4. unseen' \in BOOLEAN /\ failed' \in BOOLEAN
      BY <2>3, Zenon
    <3>5. /\ version' \in 0..MaxVersions /\ watched' \in 0..MaxVersions
          /\ current' \in 0..MaxVersions /\ newest' \in 0..MaxVersions
          /\ writer' \in {"idle", "tmp", "rename"}
      BY <3>2
    <3> QED
      BY <2>3, <3>1, <3>3, <3>4, <3>5, Zenon
  <2>5. EventsBehind' /\ SnapshotsBehind'
    BY <1>2 DEF PublishRestart
  <2>6. WriterFollows'
    BY <1>2 DEF PublishRestart
  <2> QED
    BY <2>2, <2>4, <2>5, <2>6 DEF PublishIInv
<1> QED
  BY <1>1, <1>2

\* So does every step of the publishing tasks and of the file writer.
LEMMA StepPublish == PublishIInv /\ PublishNext => PublishIInv'
<1> SUFFICES ASSUME PublishIInv, PublishNext PROVE PublishIInv'
  OBVIOUS
<1>0. PublishTypeOK /\ EventsCounted /\ EventsBehind /\ SnapshotsBehind /\ WriterFollows
  BY DEF PublishIInv
<1> USE PublishAssumption DEF writerVars
<1>1. ASSUME NEW t \in Tasks, ChangeState(t) PROVE PublishIInv'
  <2>1. PublishTypeOK' /\ task'[t] = "publish"
    BY <1>0, <1>1 DEF ChangeState, PublishTypeOK
  <2>2. EventsCounted'
    <3>1. version' = version + 1 /\ log' = log /\ version \in Nat /\ Len(log) \in Nat
      BY <1>0, <1>1 DEF ChangeState, PublishTypeOK
    <3>2. /\ Cardinality(Publishing') = Cardinality(Publishing) + 1
          /\ Cardinality(Publishing) \in Nat
      BY <1>0, <1>1, PublishingCount
    <3> QED
      BY <1>0, <3>1, <3>2 DEF EventsCounted
  <2>3. EventsBehind'
    BY <1>0, <1>1, <2>1 DEF ChangeState, PublishTypeOK, EventsBehind
  <2>4. SnapshotsBehind' /\ WriterFollows'
    BY <1>0, <1>1, <2>1 DEF ChangeState, PublishTypeOK, SnapshotsBehind, WriterFollows
  <2> QED
    BY <2>1, <2>2, <2>3, <2>4 DEF PublishIInv
<1>2. ASSUME NEW t \in Tasks, Snapshot(t) PROVE PublishIInv'
  <2>1. PublishTypeOK'
    BY <1>0, <1>2 DEF Snapshot, PublishTypeOK
  <2>2. EventsCounted'
    <3>1. version' = version /\ Len(log') = Len(log) + 1 /\ version \in Nat /\ Len(log) \in Nat
      BY <1>0, <1>2 DEF Snapshot, PublishTypeOK
    <3>2. /\ Cardinality(Publishing') = Cardinality(Publishing) - 1
          /\ Cardinality(Publishing) \in Nat
      BY <1>0, <1>2, PublishingCount
    <3> QED
      BY <1>0, <3>1, <3>2 DEF EventsCounted
  <2>3. EventsBehind'
    <3>1. /\ Len(log') = Len(log) + 1 /\ log'[Len(log) + 1] = version
          /\ \A i \in 1..Len(log) : log'[i] = log[i]
      BY <1>0, <1>2 DEF Snapshot, PublishTypeOK
    <3>2. version' = version /\ version \in Nat /\ Len(log) \in Nat
      BY <1>0, <1>2 DEF Snapshot, PublishTypeOK
    <3>3. \A i \in 1..Len(log') : log'[i] <= version'
      BY <1>0, <3>1, <3>2 DEF EventsBehind
    <3>4. ASSUME NEW i \in 1..Len(log') - 1 PROVE log'[i] <= log'[i + 1]
      <4>1. CASE i = Len(log)
        BY <1>0, <4>1, <3>1, <3>2 DEF EventsBehind
      <4>2. CASE i # Len(log)
        <5>1. i \in 1..Len(log) - 1 /\ i \in 1..Len(log) /\ i + 1 \in 1..Len(log)
          BY <4>2, <3>1, <3>2
        <5> QED
          BY <1>0, <5>1, <3>1 DEF EventsBehind
      <4> QED
        BY <4>1, <4>2
    <3>5. log' # <<>> /\ log'[Len(log')] = version'
      BY <3>1, <3>2
    <3> QED
      BY <3>3, <3>4, <3>5 DEF EventsBehind
  <2>4. SnapshotsBehind' /\ WriterFollows'
    <3>1. task'[t] = "send" /\ snap'[t] = version'
      BY <1>0, <1>2 DEF Snapshot, PublishTypeOK
    <3> QED
      BY <1>0, <1>2, <3>1 DEF Snapshot, PublishTypeOK, SnapshotsBehind, WriterFollows
  <2> QED
    BY <2>1, <2>2, <2>3, <2>4 DEF PublishIInv
<1>3. ASSUME NEW t \in Tasks, Send(t) PROVE PublishIInv'
  <2>1. PublishTypeOK'
    BY <1>0, <1>3 DEF Send, PublishTypeOK
  <2>2. \A u \in Tasks : task'[u] = "publish" <=> task[u] = "publish"
    BY <1>0, <1>3 DEF Send, PublishTypeOK
  <2>3. EventsCounted'
    <3>1. Publishing' = Publishing
      BY <2>2 DEF Publishing
    <3> QED
      BY <1>0, <1>3, <3>1 DEF Send, EventsCounted
  <2>4. EventsBehind'
    BY <1>0, <1>3, <2>2 DEF Send, EventsBehind
  <2>5. SnapshotsBehind'
    <3>1. newest' <= version' /\ watched' <= newest' /\ newest <= newest' /\ snap[t] <= newest'
      BY <1>0, <1>3 DEF Send, PublishTypeOK, SnapshotsBehind
    <3>2. ASSUME NEW u \in Tasks, task[u] = "send", snap[u] = version
          PROVE  newest' = version' \/ (task'[u] = "send" /\ snap'[u] = version')
      BY <1>0, <1>3, <3>1, <3>2 DEF Send, PublishTypeOK
    <3>3. newest = version => newest' = version'
      BY <1>0, <1>3, <3>1 DEF Send, PublishTypeOK
    <3> QED
      BY <1>0, <1>3, <2>2, <3>1, <3>2, <3>3 DEF Send, SnapshotsBehind
  <2>6. WriterFollows'
    BY <1>3 DEF Send, WriterFollows
  <2> QED
    BY <2>1, <2>3, <2>4, <2>5, <2>6 DEF PublishIInv
<1>4. ASSUME UNCHANGED <<version, task, snap, log, watched, newest>>
      PROVE  EventsCounted' /\ EventsBehind' /\ SnapshotsBehind'
  <2>1. Publishing' = Publishing
    BY <1>4 DEF Publishing
  <2> QED
    BY <1>0, <1>4, <2>1 DEF EventsCounted, EventsBehind, SnapshotsBehind
<1>5. CASE WriterTakes \/ WriteTmp \/ Rename \/ WriteFails
  <2>1. PublishTypeOK'
    <3>1. unseen' \in BOOLEAN /\ failed' \in BOOLEAN
      BY <1>0, <1>5 DEF WriterTakes, WriteTmp, Rename, WriteFails, PublishTypeOK
    <3>2. /\ writer' \in {"idle", "tmp", "rename"} /\ current' \in 0..MaxVersions
          /\ file' \in 0..None
      BY <1>0, <1>5 DEF WriterTakes, WriteTmp, Rename, WriteFails, PublishTypeOK, None
    <3>3. UNCHANGED <<version, task, snap, log, watched, newest>>
      BY <1>5 DEF WriterTakes, WriteTmp, Rename, WriteFails
    <3> QED
      BY <1>0, <3>1, <3>2, <3>3 DEF PublishTypeOK
  <2>2. WriterFollows'
    BY <1>0, <1>5 DEF WriterTakes, WriteTmp, Rename, WriteFails, PublishTypeOK, WriterFollows
  <2> QED
    BY <1>4, <1>5, <2>1, <2>2 DEF WriterTakes, WriteTmp, Rename, WriteFails, PublishIInv
<1> QED
  BY <1>1, <1>2, <1>3, <1>5, PublishCases

(***************************************************************************)
(* The control socket.                                                     *)
(***************************************************************************)

SocketTypes ==
    /\ sock \in {"none", "stale"} \cup Services
    /\ start \in [Services -> {"check", "remove", "bind", "bound", "refused"}]

ClientTypes ==
    /\ cl \in [Clients -> {"down", "open", "half closed", "gave up", "quit"}]
    /\ attempts \in [Clients -> 0..MaxAttempts]
    /\ told \in {"nothing", "failed", "answer", "restart sent"}

ServerTypes ==
    /\ via \in [Clients -> Services]
    /\ conn \in [Clients -> {"none", "backlog", "commands", "answered", "subscribed",
                             "stalled", "drain", "closed"}]
    /\ cursor \in [Clients -> 1..MaxVersions + 1]
    /\ crashes \in 0..MaxCrashes

\* The path names a service that is bound; a file of an earlier daemon is there
\* only before anybody has removed it; and someone is still on the way to bind
\* unless someone listens.
PathHeld ==
    /\ sock \in Services => start[sock] = "bound"
    /\ sock = "stale" => \A s \in Services : start[s] \in {"check", "remove"}
    /\ sock \in Services \/ \E s \in Services : start[s] \in {"check", "remove", "bind"}

\* A subscriber that has not given up has attempts left.
StillTries ==
    \A c \in Clients : c \in {"tray", "cockpit"} /\ cl[c] \in {"down", "open", "half closed"}
        => attempts[c] < MaxAttempts

\* A client that waits for the daemon has a connection.
Connected == \A c \in Clients : cl[c] \in {"open", "half closed"} => conn[c] # "none"

\* No listener serves more connections than it has permits.
PermitsHeld == \A s \in Services : Cardinality(Permits(s)) <= MAX_CONCURRENT

ControlIInv ==
    /\ PublishIInv /\ SocketTypes /\ ClientTypes /\ ServerTypes
    /\ PathHeld /\ StillTries /\ Connected /\ PermitsHeld

allControl == <<publishVars, controlVars>>

\* The actions in one list.
LEMMA ControlCases ==
  ASSUME [ControlNext]_allControl
  PROVE  \/ PublishNext /\ UNCHANGED controlVars
         \/ \E s \in Services : CheckPath(s) \/ RemovePath(s) \/ Bind(s)
         \/ Crash \/ TrayQuits
         \/ \E c \in Clients : \/ Connect(c) \/ ConnectFails(c) \/ SeeClose(c) \/ Accept(c)
                               \/ HandleCommand(c) \/ SubscribeRx(c) \/ RecvEvent(c)
                               \/ RecvLagged(c) \/ ReadEof(c)
         \/ UNCHANGED allControl
  BY DEF ControlNext, Listen, Serve

\* The services race for the path and none is left without: who finds it free
\* binds it, and who is refused was refused by another.
LEMMA StepPath ==
  ASSUME SocketTypes, PathHeld, [ControlNext]_allControl
  PROVE  SocketTypes' /\ PathHeld'
<1> USE ControlAssumption DEF SocketTypes, PathHeld
<1>1. ASSUME NEW s \in Services, CheckPath(s) PROVE SocketTypes' /\ PathHeld'
  <2>1. start'[s] \in {"bind", "remove"} /\ (sock = "stale" => start'[s] = "remove")
    BY <1>1 DEF CheckPath
  <2> QED
    BY <1>1, <2>1 DEF CheckPath
<1>2. ASSUME NEW s \in Services, RemovePath(s) PROVE SocketTypes' /\ PathHeld'
  <2>1. start'[s] = "bind" /\ sock' = "none"
    BY <1>2 DEF RemovePath
  <2> QED
    BY <1>2, <2>1 DEF RemovePath
<1>3. ASSUME NEW s \in Services, Bind(s) PROVE SocketTypes' /\ PathHeld'
  <2>1. CASE sock = "none"
    <3>1. start'[s] = "bound" /\ sock' = s
      BY <1>3, <2>1 DEF Bind
    <3> QED
      BY <1>3, <2>1, <3>1 DEF Bind
  <2>2. CASE sock # "none"
    <3>1. sock \in Services /\ sock' = sock /\ sock # s
      BY <1>3, <2>2 DEF Bind
    <3> QED
      BY <1>3, <2>2, <3>1 DEF Bind
  <2> QED
    BY <2>1, <2>2
<1>4. CASE Crash
  <2>1. Observed \in Services /\ start'[Observed] = "check" /\ sock' \in {"none", "stale"}
    BY <1>4 DEF Crash, Reachable
  <2> QED
    BY <1>4, <2>1 DEF Crash
<1>5. ASSUME UNCHANGED socketVars PROVE SocketTypes' /\ PathHeld'
  BY <1>5 DEF socketVars
<1>6. CASE \/ PublishNext /\ UNCHANGED controlVars
           \/ TrayQuits \/ UNCHANGED allControl
  BY <1>5, <1>6 DEF TrayQuits, controlVars, socketVars, allControl
<1>7. ASSUME NEW c \in Clients,
             \/ Connect(c) \/ ConnectFails(c) \/ SeeClose(c) \/ Accept(c)
             \/ HandleCommand(c) \/ SubscribeRx(c) \/ RecvEvent(c)
             \/ RecvLagged(c) \/ ReadEof(c)
      PROVE  SocketTypes' /\ PathHeld'
  BY <1>5, <1>7 DEF Connect, ConnectFails, SeeClose, Accept, HandleCommand, SubscribeRx,
                    RecvEvent, RecvLagged, ReadEof, serving
<1> QED
  BY <1>1, <1>2, <1>3, <1>4, <1>6, <1>7, ControlCases

\* A client counts its failures up to the limit and no further.
LEMMA StepClients ==
  ASSUME ClientTypes, StillTries, [ControlNext]_allControl
  PROVE  ClientTypes' /\ StillTries'
<1> USE DEF clientVars
<1>0. MaxAttempts \in Nat /\ MaxAttempts > 0 /\ 0 \in 0..MaxAttempts
  BY ControlAssumption
<1>1. ASSUME NEW c \in Clients, NEW n \in 0..MaxAttempts, Fail(c, n)
      PROVE  ClientTypes' /\ StillTries'
  <2>1. attempts' = [attempts EXCEPT ![c] = n] /\ attempts' \in [Clients -> 0..MaxAttempts]
    BY <1>1 DEF Fail, ClientTypes, StillTries
  <2>2. told' \in {"nothing", "failed", "answer", "restart sent"}
    BY <1>1 DEF Fail, ClientTypes, StillTries
  <2>3. PICK x \in {"down", "gave up"} :
          cl' = [cl EXCEPT ![c] = x] /\ (c \in {"tray", "cockpit"} /\ x = "down" => n < MaxAttempts)
    <3>1. CASE c = "menu"
      BY <1>1, <3>1 DEF Fail
    <3>2. CASE c = "shell"
      BY <1>1, <3>2 DEF Fail
    <3>3. CASE c # "menu" /\ c # "shell" /\ n >= MaxAttempts
      BY <1>1, <3>3 DEF Fail
    <3>4. CASE c # "menu" /\ c # "shell" /\ ~(n >= MaxAttempts)
      <4>1. n < MaxAttempts
        BY <1>0, <3>4
      <4>2. cl' = [cl EXCEPT ![c] = "down"]
        BY <1>1, <3>4 DEF Fail
      <4> QED
        BY <4>1, <4>2
    <3> QED
      BY <3>1, <3>2, <3>3, <3>4
  <2> QED
    BY <2>1, <2>2, <2>3 DEF ClientTypes, StillTries
<1>2. ASSUME NEW c \in Clients, ConnectFails(c) PROVE ClientTypes' /\ StillTries'
  <2>1. CASE c \in {"tray", "cockpit"}
    <3>1. attempts[c] \in 0..MaxAttempts /\ attempts[c] < MaxAttempts
      BY <1>2, <2>1 DEF ConnectFails, ClientTypes, StillTries
    <3>2. attempts[c] + 1 \in 0..MaxAttempts
      BY <1>0, <3>1
    <3>3. Fail(c, attempts[c] + 1)
      BY <1>2, <2>1 DEF ConnectFails
    <3> QED
      BY <1>1, <3>2, <3>3
  <2>2. CASE ~(c \in {"tray", "cockpit"})
    <3>1. Fail(c, 0) /\ 0 \in 0..MaxAttempts
      BY <1>0, <1>2, <2>2 DEF ConnectFails
    <3> QED
      BY <1>1, <3>1
  <2> QED
    BY <2>1, <2>2
<1>3. ASSUME NEW c \in Clients, SeeClose(c) PROVE ClientTypes' /\ StillTries'
  <2>1. CASE c = "tray"
    <3>1. attempts[c] \in 0..MaxAttempts /\ attempts[c] < MaxAttempts
      BY <1>3, <2>1 DEF SeeClose, ClientTypes, StillTries
    <3>2. attempts[c] + 1 \in 0..MaxAttempts
      BY <1>0, <3>1
    <3>3. Fail(c, attempts[c] + 1)
      BY <1>3, <2>1 DEF SeeClose
    <3> QED
      BY <1>1, <3>2, <3>3
  <2>2. CASE ~(c = "tray")
    <3>1. Fail(c, 0)
      BY <1>3, <2>2 DEF SeeClose
    <3>2. 0 \in 0..MaxAttempts
      BY <1>0
    <3> QED
      BY <1>1, <3>1, <3>2
  <2> QED
    BY <2>1, <2>2
<1>4. ASSUME NEW c \in Clients, Connect(c) PROVE ClientTypes' /\ StillTries'
  <2>1. PICK x \in {"half closed", "open"} : cl' = [cl EXCEPT ![c] = x]
    BY <1>4 DEF Connect
  <2>2. PICK n \in 0..MaxAttempts : /\ attempts' = [attempts EXCEPT ![c] = n]
                                    /\ n = 0 \/ n = attempts[c]
    <3>1. attempts[c] \in 0..MaxAttempts
      BY DEF ClientTypes
    <3>2. \/ attempts' = [attempts EXCEPT ![c] = 0]
          \/ attempts' = [attempts EXCEPT ![c] = attempts[c]]
      BY <1>4 DEF Connect
    <3> QED
      BY <1>0, <3>1, <3>2
  <2>3. told' \in {"nothing", "failed", "answer", "restart sent"}
    BY <1>4 DEF Connect, ClientTypes, StillTries
  <2>4. c \in {"tray", "cockpit"} => n < MaxAttempts
    BY <1>0, <1>4, <2>2 DEF Connect, ClientTypes, StillTries
  <2> QED
    BY <2>1, <2>2, <2>3, <2>4 DEF ClientTypes, StillTries
<1>5. ASSUME NEW c \in Clients, HandleCommand(c) PROVE ClientTypes' /\ StillTries'
  BY <1>5 DEF HandleCommand, ClientTypes, StillTries
<1>6. CASE TrayQuits
  BY <1>6 DEF TrayQuits, ClientTypes, StillTries
<1>7. ASSUME UNCHANGED clientVars PROVE ClientTypes' /\ StillTries'
  BY <1>7 DEF ClientTypes, StillTries
<1>8. CASE \/ PublishNext /\ UNCHANGED controlVars
           \/ Crash \/ UNCHANGED allControl
  BY <1>7, <1>8 DEF Crash, controlVars, allControl
<1>9. ASSUME NEW s \in Services, CheckPath(s) \/ RemovePath(s) \/ Bind(s)
      PROVE  ClientTypes' /\ StillTries'
  BY <1>7, <1>9 DEF CheckPath, RemovePath, Bind, starting
<1>10. ASSUME NEW c \in Clients,
              Accept(c) \/ SubscribeRx(c) \/ RecvEvent(c) \/ RecvLagged(c) \/ ReadEof(c)
       PROVE  ClientTypes' /\ StillTries'
  BY <1>7, <1>10 DEF Accept, SubscribeRx, RecvEvent, RecvLagged, ReadEof
<1> QED
  BY <1>2, <1>3, <1>4, <1>5, <1>6, <1>8, <1>9, <1>10, ControlCases

\* The channel has had at most as many events as there were changes.
LEMMA LogBounded ==
  ASSUME PublishIInv
  PROVE  Len(log) \in Nat /\ Len(log) <= MaxVersions
<1>1. Cardinality(Publishing) \in Nat
  BY PublishingCount DEF PublishIInv
<1>2. log \in Seq(0..MaxVersions) /\ version \in 0..MaxVersions
  BY DEF PublishIInv, PublishTypeOK
<1>3. Len(log) + Cardinality(Publishing) = version
  BY DEF PublishIInv, EventsCounted
<1> QED
  BY <1>1, <1>2, <1>3, PublishAssumption

\* The daemon follows each subscription within the channel.
LEMMA StepServer ==
  ASSUME PublishIInv, ServerTypes, SocketTypes, [ControlNext]_allControl
  PROVE  ServerTypes'
<1> USE DEF serverVars
<1>0. MaxVersions \in Nat /\ Capacity \in Nat /\ Capacity > 0 /\ MaxCrashes \in Nat
  BY PublishAssumption, ControlAssumption
<1>1. ASSUME NEW c \in Clients, NEW x \in 1..MaxVersions + 1,
             cursor' = [cursor EXCEPT ![c] = x], UNCHANGED <<via, crashes>>,
             \/ UNCHANGED conn
             \/ \E y \in {"subscribed", "stalled", "closed"} : conn' = [conn EXCEPT ![c] = y]
      PROVE  ServerTypes'
  BY <1>1 DEF ServerTypes
<1>2. ASSUME NEW c \in Clients, SubscribeRx(c) PROVE ServerTypes'
  <2>1. Len(log) + 1 \in 1..MaxVersions + 1
    BY <1>0, LogBounded
  <2> QED
    BY <1>1, <1>2, <2>1 DEF SubscribeRx, Goes, serving
<1>3. ASSUME NEW c \in Clients, RecvEvent(c) PROVE ServerTypes'
  <2>1. cursor[c] \in 1..MaxVersions + 1 /\ cursor[c] <= Len(log)
    BY <1>3 DEF RecvEvent, ServerTypes
  <2>2. cursor[c] + 1 \in 1..MaxVersions + 1
    BY <1>0, <2>1, LogBounded
  <2>3. cursor' = [cursor EXCEPT ![c] = cursor[c] + 1] /\ UNCHANGED <<via, crashes>>
    BY <1>3 DEF RecvEvent, serving
  <2>4. UNCHANGED conn \/ conn' = [conn EXCEPT ![c] = "closed"]
    BY <1>3 DEF RecvEvent, Goes
  <2> QED
    BY <1>1, <2>2, <2>3, <2>4
<1>4. ASSUME NEW c \in Clients, RecvLagged(c) PROVE ServerTypes'
  <2>1. cursor[c] \in 1..MaxVersions + 1 /\ Len(log) + 1 - cursor[c] > Capacity
    BY <1>4 DEF RecvLagged, ServerTypes, Lag
  <2>2. Len(log) + 1 - Capacity \in 1..MaxVersions + 1
    BY <1>0, <2>1, LogBounded
  <2> QED
    BY <1>1, <1>4, <2>2 DEF RecvLagged, Goes, serving
<1>5. ASSUME NEW c \in Clients, UNCHANGED <<via, cursor, crashes>>,
             \E y \in {"none", "commands", "closed", "drain", "answered"} :
                conn' = [conn EXCEPT ![c] = y]
      PROVE  ServerTypes'
  BY <1>5 DEF ServerTypes
<1>6. ASSUME NEW c \in Clients,
             Accept(c) \/ HandleCommand(c) \/ ReadEof(c) \/ SeeClose(c)
      PROVE  ServerTypes'
  <2>1. UNCHANGED <<via, cursor, crashes>>
    BY <1>6 DEF Accept, HandleCommand, ReadEof, SeeClose, serving
  <2>2. \E y \in {"none", "commands", "closed", "drain", "answered"} :
          conn' = [conn EXCEPT ![c] = y]
    BY <1>6 DEF Accept, HandleCommand, ReadEof, SeeClose, Goes
  <2> QED
    BY <1>5, <2>1, <2>2
<1>7. ASSUME NEW c \in Clients, Connect(c) PROVE ServerTypes'
  <2>1. sock \in Services
    BY <1>7 DEF Connect, Reachable
  <2> QED
    BY <1>7, <2>1 DEF Connect, ServerTypes
<1>8. CASE Crash
  <2>1. crashes' \in 0..MaxCrashes
    BY <1>0, <1>8 DEF Crash, ServerTypes
  <2> QED
    BY <1>8, <2>1 DEF Crash, ServerTypes
<1>9. ASSUME UNCHANGED <<serverVars, crashes>> PROVE ServerTypes'
  BY <1>9 DEF ServerTypes
<1>10. CASE \/ PublishNext /\ UNCHANGED controlVars
            \/ TrayQuits \/ UNCHANGED allControl
  BY <1>9, <1>10 DEF TrayQuits, controlVars, allControl
<1>11. ASSUME NEW s \in Services, CheckPath(s) \/ RemovePath(s) \/ Bind(s)
       PROVE  ServerTypes'
  BY <1>9, <1>11 DEF CheckPath, RemovePath, Bind, starting
<1>12. ASSUME NEW c \in Clients, ConnectFails(c) PROVE ServerTypes'
  BY <1>9, <1>12 DEF ConnectFails
<1> QED
  BY <1>2, <1>3, <1>4, <1>6, <1>7, <1>8, <1>10, <1>11, <1>12, ControlCases

\* A client is not left waiting on a connection the daemon has forgotten.
LEMMA StepConnected ==
  ASSUME ClientTypes, ServerTypes, Connected, [ControlNext]_allControl
  PROVE  Connected'
<1> USE DEF Connected, ClientTypes, ServerTypes, clientVars, serverVars
<1>1. ASSUME NEW c \in Clients, Connect(c) PROVE Connected'
  BY <1>1 DEF Connect
<1>2. ASSUME NEW c \in Clients, SeeClose(c) PROVE Connected'
  <2>1. PICK x \in {"down", "gave up"} : cl' = [cl EXCEPT ![c] = x]
    BY <1>2 DEF SeeClose, Fail
  <2> QED
    BY <1>2, <2>1 DEF SeeClose
<1>3. ASSUME NEW c \in Clients, ConnectFails(c) PROVE Connected'
  <2>1. PICK x \in {"down", "gave up"} : cl' = [cl EXCEPT ![c] = x]
    BY <1>3 DEF ConnectFails, Fail
  <2> QED
    BY <1>3, <2>1 DEF ConnectFails
<1>4. ASSUME NEW c \in Clients, HandleCommand(c) PROVE Connected'
  BY <1>4 DEF HandleCommand, Goes
<1>5. ASSUME NEW c \in Clients,
             Accept(c) \/ SubscribeRx(c) \/ RecvEvent(c) \/ RecvLagged(c) \/ ReadEof(c)
      PROVE  Connected'
  <2>1. cl' = cl
    BY <1>5 DEF Accept, SubscribeRx, RecvEvent, RecvLagged, ReadEof
  <2>2. \/ conn' = conn
        \/ \E y \in {"commands", "closed", "subscribed", "stalled"} :
              conn' = [conn EXCEPT ![c] = y]
    BY <1>5 DEF Accept, SubscribeRx, RecvEvent, RecvLagged, ReadEof, Goes
  <2> QED
    BY <2>1, <2>2
<1>6. CASE Crash
  BY <1>6 DEF Crash
<1>7. CASE TrayQuits
  BY <1>7 DEF TrayQuits
<1>8. ASSUME UNCHANGED <<cl, conn>> PROVE Connected'
  BY <1>8
<1>9. CASE \/ PublishNext /\ UNCHANGED controlVars
           \/ UNCHANGED allControl
  BY <1>8, <1>9 DEF controlVars, allControl
<1>10. ASSUME NEW s \in Services, CheckPath(s) \/ RemovePath(s) \/ Bind(s)
       PROVE  Connected'
  BY <1>8, <1>10 DEF CheckPath, RemovePath, Bind, starting
<1> QED
  BY <1>1, <1>2, <1>3, <1>4, <1>5, <1>6, <1>7, <1>9, <1>10, ControlCases

\* Only accept takes a permit, and only one that is left.
LEMMA StepPermits ==
  ASSUME ServerTypes, PermitsHeld, [ControlNext]_allControl
  PROVE  PermitsHeld'
<1> USE DEF serverVars
<1>0. /\ MAX_CONCURRENT \in Nat
      /\ \A s \in Services : IsFiniteSet(Permits(s)) /\ Cardinality(Permits(s)) \in Nat
  <2>1. IsFiniteSet({"tray", "cockpit", "shell", "menu"})
    <3>1. IsFiniteSet({"tray"}) /\ IsFiniteSet({"tray"} \cup {"cockpit"})
      BY FS_Singleton, FS_AddElement
    <3>2. IsFiniteSet(({"tray"} \cup {"cockpit"}) \cup {"shell"})
      BY <3>1, FS_AddElement
    <3>3. IsFiniteSet((({"tray"} \cup {"cockpit"}) \cup {"shell"}) \cup {"menu"})
      BY <3>2, FS_AddElement
    <3>4. {"tray", "cockpit", "shell", "menu"} = (({"tray"} \cup {"cockpit"}) \cup {"shell"}) \cup {"menu"}
      OBVIOUS
    <3> QED
      BY <3>3, <3>4
  <2>2. IsFiniteSet(Clients)
    BY <2>1, FS_Subset, ControlAssumption
  <2>3. \A s \in Services : Permits(s) \subseteq Clients
    BY DEF Permits
  <2>4. \A s \in Services : IsFiniteSet(Permits(s))
    BY <2>2, <2>3, FS_Subset
  <2> QED
    BY <2>4, FS_CardinalityType, ControlAssumption
<1>1. ASSUME \A s \in Services : Permits(s)' \subseteq Permits(s) PROVE PermitsHeld'
  <2>1. ASSUME NEW s \in Services PROVE Cardinality(Permits(s)') <= MAX_CONCURRENT
    <3>1. Cardinality(Permits(s)') <= Cardinality(Permits(s)) /\ Cardinality(Permits(s)') \in Nat
      BY <1>0, <1>1, FS_Subset, FS_CardinalityType
    <3>2. Cardinality(Permits(s)) <= MAX_CONCURRENT
      BY DEF PermitsHeld
    <3> QED
      BY <1>0, <3>1, <3>2
  <2> QED
    BY <2>1 DEF PermitsHeld
<1>2. ASSUME NEW c \in Clients, Accept(c) PROVE PermitsHeld'
  <2>1. CASE Cardinality(Permits(via[c])) < MAX_CONCURRENT
    <3>1. conn' = [conn EXCEPT ![c] = "commands"] /\ via' = via /\ conn[c] = "backlog"
      BY <1>2, <2>1 DEF Accept, Goes, serving
    <3>2. ASSUME NEW s \in Services PROVE Cardinality(Permits(s)') <= MAX_CONCURRENT
      <4>1. CASE s = via[c]
        <5>1. Permits(s)' = Permits(s) \cup {c}
          BY <3>1, <4>1 DEF Permits, ServerTypes
        <5>2. Cardinality(Permits(s)') <= Cardinality(Permits(s)) + 1
          BY <1>0, <5>1, FS_AddElement
        <5>3. Cardinality(Permits(s)') \in Nat
          BY <1>0, <5>1, FS_AddElement, FS_CardinalityType
        <5> QED
          BY <1>0, <2>1, <4>1, <5>2, <5>3
      <4>2. CASE s # via[c]
        <5>1. Permits(s)' = Permits(s)
          BY <3>1, <4>2 DEF Permits, ServerTypes
        <5> QED
          BY <5>1 DEF PermitsHeld
      <4> QED
        BY <4>1, <4>2
    <3> QED
      BY <3>2 DEF PermitsHeld
  <2>2. CASE ~(Cardinality(Permits(via[c])) < MAX_CONCURRENT)
    <3>1. conn' = [conn EXCEPT ![c] = "closed"] /\ via' = via
      BY <1>2, <2>2 DEF Accept, Goes, serving
    <3> QED
      BY <1>1, <3>1 DEF Permits, ServerTypes
  <2> QED
    BY <2>1, <2>2
<1>3. ASSUME NEW c \in Clients, Connect(c) PROVE PermitsHeld'
  <2>1. /\ conn' = [conn EXCEPT ![c] = "backlog"] /\ via' = [via EXCEPT ![c] = sock]
        /\ conn[c] \in {"none", "closed"}
    BY <1>3 DEF Connect
  <2> QED
    BY <1>1, <2>1 DEF Permits, ServerTypes
<1>4. ASSUME NEW c \in Clients, conn[c] \notin {"none", "backlog", "closed"}, UNCHANGED via,
             conn' = conn \/ \E y : conn' = [conn EXCEPT ![c] = y]
      PROVE  PermitsHeld'
  BY <1>1, <1>4 DEF Permits, ServerTypes
<1>5. ASSUME NEW c \in Clients,
             HandleCommand(c) \/ SubscribeRx(c) \/ RecvEvent(c) \/ RecvLagged(c) \/ ReadEof(c)
      PROVE  PermitsHeld'
  <2>1. conn[c] \notin {"none", "backlog", "closed"} /\ UNCHANGED via
    BY <1>5 DEF HandleCommand, SubscribeRx, RecvEvent, RecvLagged, ReadEof, serving
  <2>2. conn' = conn \/ \E y : conn' = [conn EXCEPT ![c] = y]
    BY <1>5 DEF HandleCommand, SubscribeRx, RecvEvent, RecvLagged, ReadEof, Goes
  <2> QED
    BY <1>4, <2>1, <2>2
<1>6. ASSUME NEW c \in Clients, SeeClose(c) PROVE PermitsHeld'
  <2>1. conn' = [conn EXCEPT ![c] = "none"] /\ via' = via
    BY <1>6 DEF SeeClose
  <2> QED
    BY <1>1, <2>1 DEF Permits, ServerTypes
<1>7. CASE Crash
  <2>1. via' = via /\ \A c \in Clients : conn'[c] \in {"none", "closed"}
    BY <1>7 DEF Crash
  <2> QED
    BY <1>1, <2>1 DEF Permits
<1>8. ASSUME UNCHANGED serverVars PROVE PermitsHeld'
  BY <1>1, <1>8 DEF Permits
<1>9. CASE \/ PublishNext /\ UNCHANGED controlVars
           \/ TrayQuits \/ UNCHANGED allControl
  BY <1>8, <1>9 DEF TrayQuits, controlVars, allControl
<1>10. ASSUME NEW s \in Services, CheckPath(s) \/ RemovePath(s) \/ Bind(s)
       PROVE  PermitsHeld'
  BY <1>8, <1>10 DEF CheckPath, RemovePath, Bind, starting
<1>11. ASSUME NEW c \in Clients, ConnectFails(c) PROVE PermitsHeld'
  BY <1>8, <1>11 DEF ConnectFails
<1> QED
  BY <1>2, <1>3, <1>5, <1>6, <1>7, <1>9, <1>10, <1>11, ControlCases

\* What the socket and its clients do leaves publishing alone; an end of the
\* daemon starts it afresh.
LEMMA StepPublishing ==
  ASSUME PublishIInv, [ControlNext]_allControl
  PROVE  PublishIInv'
<1>1. ASSUME UNCHANGED publishVars PROVE PublishIInv'
  <2>1. Publishing' = Publishing
    BY <1>1 DEF Publishing, publishVars
  <2>2. PublishTypeOK'
    BY <1>1 DEF PublishIInv, PublishTypeOK, publishVars
  <2>3. EventsCounted' /\ EventsBehind' /\ SnapshotsBehind'
    BY <1>1, <2>1 DEF PublishIInv, EventsCounted, EventsBehind, SnapshotsBehind, publishVars
  <2>4. WriterFollows'
    BY <1>1 DEF PublishIInv, WriterFollows, publishVars
  <2> QED
    BY <2>2, <2>3, <2>4 DEF PublishIInv
<1>2. CASE PublishNext /\ UNCHANGED controlVars
  BY <1>2, StepPublish
<1>3. CASE Crash
  BY <1>3, PublishStarts DEF Crash
<1>4. CASE TrayQuits \/ UNCHANGED allControl
  BY <1>1, <1>4 DEF TrayQuits, allControl
<1>5. ASSUME NEW s \in Services, CheckPath(s) \/ RemovePath(s) \/ Bind(s)
      PROVE  PublishIInv'
  BY <1>1, <1>5 DEF CheckPath, RemovePath, Bind, starting
<1>6. ASSUME NEW c \in Clients,
             \/ Connect(c) \/ ConnectFails(c) \/ SeeClose(c) \/ Accept(c)
             \/ HandleCommand(c) \/ SubscribeRx(c) \/ RecvEvent(c)
             \/ RecvLagged(c) \/ ReadEof(c)
      PROVE  PublishIInv'
  BY <1>1, <1>6 DEF Connect, ConnectFails, SeeClose, Accept, HandleCommand, SubscribeRx,
                    RecvEvent, RecvLagged, ReadEof, serving
<1> QED
  BY <1>2, <1>3, <1>4, <1>5, <1>6, ControlCases

\* A first daemon, with or without a file of an earlier one at its path.
LEMMA ControlStarts == PublishInit /\ ControlInit => ControlIInv
<1> SUFFICES ASSUME PublishInit, ControlInit PROVE ControlIInv
  OBVIOUS
<1>1. PublishIInv
  BY PublishStarts
<1>2. SocketTypes /\ PathHeld
  BY ControlAssumption DEF ControlInit, SocketTypes, PathHeld
<1>3. ClientTypes
  <2>1. 0 \in 0..MaxAttempts
    BY ControlAssumption
  <2> QED
    BY <2>1 DEF ControlInit, ClientTypes
<1>4. ServerTypes
  <2>1. 1 \in 1..MaxVersions + 1 /\ 0 \in 0..MaxCrashes
    BY ControlAssumption, PublishAssumption
  <2> QED
    BY <2>1, ControlAssumption DEF ControlInit, ServerTypes
<1>5. StillTries
  <2>1. 0 < MaxAttempts
    BY ControlAssumption
  <2> QED
    BY <2>1 DEF ControlInit, StillTries
<1>6. Connected
  BY DEF ControlInit, Connected
<1>7. PermitsHeld
  <2>1. \A s \in Services : Permits(s) = {}
    BY DEF ControlInit, Permits
  <2> QED
    BY <2>1, FS_EmptySet, ControlAssumption DEF PermitsHeld
<1> QED
  BY <1>1, <1>2, <1>3, <1>4, <1>5, <1>6, <1>7 DEF ControlIInv

\* The inductive invariant of a daemon's control socket and status publishing,
\* for any set of tasks and services, over every end and restart of the daemon.
THEOREM ControlCorrect == ControlSpec => []ControlIInv
<1>1. ControlIInv /\ [ControlNext]_allControl => ControlIInv'
  BY StepPublishing, StepPath, StepClients, StepServer, StepConnected, StepPermits
  DEF ControlIInv
<1> QED
  BY <1>1, ControlStarts, PTL DEF ControlSpec, allControl

\* The type invariant of the control socket (ControlTypeOK): with it, no listener
\* ever serves more than MAX_CONCURRENT connections, a cursor never leaves the
\* broadcast channel, a subscriber stops at its last attempt and the path names
\* a service that is bound (run_server, handle_connection, subscribe_loop).
THEOREM ControlTypes == ControlSpec => []ControlTypeOK
<1>1. ControlIInv => ControlTypeOK
  <2> SUFFICES ASSUME ControlIInv PROVE ControlTypeOK
    OBVIOUS
  <2>1. PublishTypeOK
    BY DEF ControlIInv, PublishIInv
  <2>2. sock \in {"none", "stale"} \cup {s \in Services : start[s] = "bound"}
    BY DEF ControlIInv, SocketTypes, PathHeld
  <2>3. /\ start \in [Services -> {"check", "remove", "bind", "bound", "refused"}]
        /\ told \in {"nothing", "failed", "answer", "restart sent"} /\ crashes \in 0..MaxCrashes
    BY DEF ControlIInv, SocketTypes, ClientTypes, ServerTypes
  <2>4. \A s \in Services : Cardinality(Permits(s)) <= MAX_CONCURRENT
    BY DEF ControlIInv, PermitsHeld
  <2>5. ASSUME NEW c \in Clients
        PROVE  /\ cl[c] \in {"down", "open", "half closed", "gave up", "quit"}
               /\ attempts[c] \in 0..MaxAttempts /\ via[c] \in Services
               /\ conn[c] \in {"none", "backlog", "commands", "answered", "subscribed",
                               "stalled", "drain", "closed"}
               /\ cursor[c] \in 1..MaxVersions + 1
               /\ cl[c] \in {"open", "half closed"} => conn[c] # "none"
    BY DEF ControlIInv, ClientTypes, ServerTypes, Connected
  <2> QED
    BY <2>1, <2>2, <2>3, <2>4, <2>5 DEF ControlTypeOK
<1> QED
  BY <1>1, ControlCorrect, PTL

\* However many services race for the control socket with check, remove and bind
\* as three steps of run_server, one listens once all have started
\* (ControlReachable).
THEOREM SocketTaken == ControlSpec => []ControlReachable
<1>1. ControlIInv => ControlReachable
  BY DEF ControlIInv, PathHeld, ControlReachable, Reachable
<1> QED
  BY <1>1, ControlCorrect, PTL

\* At rest the status file has the state as it is, unless its last write failed
\* or the watch channel was left with an overtaken snapshot (FileFresh).
THEOREM StatusFileFresh == ControlSpec => []FileFresh
<1>1. ControlIInv => FileFresh
  <2> SUFFICES ASSUME ControlIInv, AtRest, ~failed, watched = newest PROVE file = version
    BY DEF FileFresh
  <2>1. file = watched
    BY DEF ControlIInv, PublishIInv, WriterFollows, AtRest
  <2>2. newest = version
    BY DEF ControlIInv, PublishIInv, SnapshotsBehind, AtRest
  <2> QED
    BY <2>1, <2>2
<1> QED
  BY <1>1, ControlCorrect, PTL

\* The events of the broadcast channel come in the order of the states, and the
\* last one is of the state as it is (EventsInOrder), for any number of tasks
\* that publish at one time (publish_status).
THEOREM EventsOrdered == ControlSpec => []EventsInOrder
<1>1. ControlIInv => EventsInOrder
  BY DEF ControlIInv, PublishIInv, PublishTypeOK, EventsBehind, EventsInOrder
<1> QED
  BY <1>1, ControlCorrect, PTL

(***************************************************************************)
(* The stdio proxies.                                                      *)
(***************************************************************************)

Req(n)  == <<"request", n>>
Resp(n) == <<"response", n>>
Message ==
    {Req(n) : n \in 1..MaxRequests} \cup {Resp(n) : n \in 0..MaxRequests}
        \cup {<<"note", 0>>, <<"big note", 0>>, <<"garbled", 0>>}

Once(q, x) == \A j, k \in 1..Len(q) : q[j] = x /\ q[k] = x => j = k

ProxyTypes ==
    /\ flavour \in {"frames", "bytes"} /\ mux \in {"open", "deaf", "closed"}
    /\ asked \in 0..MaxRequests /\ noted \in 0..MaxNotes /\ spoke \in 0..MaxNotes
    /\ owed \subseteq 1..MaxRequests /\ pending_requests \in Nat
    /\ ended \in {"no", "complete", "closed", "error"}
    /\ input \in Seq(Message) /\ up \in Seq(Message) /\ down \in Seq(Message)
    /\ output \in Seq(Message)

ProxyFlags == eof \in BOOLEAN /\ shut \in BOOLEAN /\ stdin_closed \in BOOLEAN

\* A request is in one place at a time: unread, on its way to the mux, with the
\* mux, answered and on its way back, or answered on stdout.
OnePlace(n) ==
    /\ Once(input, Req(n)) /\ Once(up, Req(n)) /\ Once(down, Resp(n))
    /\ Has(input, Req(n)) => ~Has(up, Req(n)) /\ n \notin owed /\ ~Has(down, Resp(n))
    /\ Has(up, Req(n)) => n \notin owed /\ ~Has(down, Resp(n))
    /\ n \in owed => ~Has(down, Resp(n))
    /\ Has(input, Req(n)) \/ Has(up, Req(n)) \/ n \in owed \/ Has(down, Resp(n))
          => n <= asked /\ ~Has(output, Resp(n))
    /\ Has(output, Resp(n)) => n <= asked

InOnePlace == \A n \in 1..MaxRequests : OnePlace(n)

\* The requests not read, and those read and not answered on stdout.
NotRead == {n \in 1..MaxRequests : Has(input, Req(n))}
Unanswered ==
    {n \in 1..MaxRequests : n <= asked /\ ~Has(input, Req(n)) /\ ~Has(output, Resp(n))}

\* No more is pending than was read.
PendingRead == pending_requests + Cardinality(NotRead) <= asked

\* No fewer are pending than wait for an answer, as long as no response with a null
\* id has counted as one.
PendingCovers ==
    flavour = "frames" /\ ~Has(output, Resp(0)) => Cardinality(Unanswered) <= pending_requests

\* The proxy that ends by itself ends with nothing pending.
CompleteAtZero == ended = "complete" => flavour = "frames" /\ pending_requests = 0

ProxyIInv ==
    ProxyTypes /\ ProxyFlags /\ InOnePlace /\ PendingRead /\ PendingCovers /\ CompleteAtZero

\* Taking the first of a sequence.
LEMMA TakeFirst ==
  ASSUME NEW S, NEW q \in Seq(S), q # <<>>, NEW x
  PROVE  /\ Has(q, x) <=> x = Head(q) \/ Has(Tail(q), x)
         /\ Once(q, x) => Once(Tail(q), x) /\ ~(x = Head(q) /\ Has(Tail(q), x))
<1>1. /\ Len(q) \in Nat /\ Len(q) > 0 /\ Len(Tail(q)) = Len(q) - 1 /\ Head(q) = q[1]
      /\ \A k \in 1..Len(q) - 1 : Tail(q)[k] = q[k + 1]
  <2>1. Len(q) \in Nat /\ Len(q) > 0
    OBVIOUS
  <2>2. Len(Tail(q)) = Len(q) - 1 /\ Head(q) = q[1]
    OBVIOUS
  <2>3. ASSUME NEW k \in 1..Len(q) - 1 PROVE Tail(q)[k] = q[k + 1]
    OBVIOUS
  <2> QED
    BY <2>1, <2>2, <2>3
<1>2. \A k \in 1..Len(q) - 1 : k + 1 \in 1..Len(q)
  BY <1>1
<1>3. \A k \in 1..Len(q) : k = 1 \/ (k - 1 \in 1..Len(q) - 1 /\ Tail(q)[k - 1] = q[k])
  BY <1>1
<1>4. Has(q, x) <=> x = Head(q) \/ Has(Tail(q), x)
  <2>1. x = Head(q) => Has(q, x)
    BY <1>1 DEF Has
  <2>2. ASSUME Has(Tail(q), x) PROVE Has(q, x)
    <3>1. PICK k \in 1..Len(Tail(q)) : Tail(q)[k] = x
      BY <2>2 DEF Has
    <3>2. k + 1 \in 1..Len(q) /\ q[k + 1] = x
      BY <1>1, <1>2, <3>1
    <3> QED
      BY <3>2 DEF Has
  <2>3. ASSUME Has(q, x), x # Head(q) PROVE Has(Tail(q), x)
    <3>1. PICK k \in 1..Len(q) : q[k] = x
      BY <2>3 DEF Has
    <3>2. k - 1 \in 1..Len(Tail(q)) /\ Tail(q)[k - 1] = x
      BY <1>1, <1>3, <2>3, <3>1
    <3> QED
      BY <3>2 DEF Has
  <2> QED
    BY <2>1, <2>2, <2>3
<1>5. ASSUME Once(q, x) PROVE Once(Tail(q), x)
  <2> SUFFICES ASSUME NEW j \in 1..Len(Tail(q)), NEW k \in 1..Len(Tail(q)),
                      Tail(q)[j] = x, Tail(q)[k] = x
               PROVE  j = k
    BY DEF Once
  <2>1. q[j + 1] = x /\ q[k + 1] = x /\ j + 1 \in 1..Len(q) /\ k + 1 \in 1..Len(q)
    BY <1>1, <1>2
  <2>2. j + 1 = k + 1
    BY <1>5, <2>1 DEF Once
  <2> QED
    BY <2>2
<1>6. ASSUME Once(q, x), x = Head(q), Has(Tail(q), x) PROVE FALSE
  <2>1. PICK k \in 1..Len(Tail(q)) : Tail(q)[k] = x
    BY <1>6 DEF Has
  <2>2. q[k + 1] = x /\ q[1] = x /\ k + 1 \in 1..Len(q) /\ 1 \in 1..Len(q)
    BY <1>1, <1>2, <1>6, <2>1
  <2>3. k + 1 = 1
    BY <1>6, <2>2 DEF Once
  <2> QED
    BY <1>1, <2>1, <2>3
<1> QED
  BY <1>4, <1>5, <1>6

\* Adding one at the end.
LEMMA AddLast ==
  ASSUME NEW S, NEW q \in Seq(S), NEW y \in S, NEW x
  PROVE  /\ Has(Append(q, y), x) <=> x = y \/ Has(q, x)
         /\ Once(q, x) /\ (x = y => ~Has(q, x)) => Once(Append(q, y), x)
<1>1. /\ Len(q) \in Nat /\ Len(Append(q, y)) = Len(q) + 1 /\ Append(q, y)[Len(q) + 1] = y
      /\ \A k \in 1..Len(q) : Append(q, y)[k] = q[k]
  OBVIOUS
<1>2. \A k \in 1..Len(q) + 1 : k = Len(q) + 1 \/ k \in 1..Len(q)
  BY <1>1
<1>3. Has(Append(q, y), x) <=> x = y \/ Has(q, x)
  BY <1>1, <1>2 DEF Has
<1>4. Once(q, x) /\ (x = y => ~Has(q, x)) => Once(Append(q, y), x)
  BY <1>1, <1>2 DEF Has, Once
<1> QED
  BY <1>3, <1>4

\* What a message is tells its number.
LEMMA Kinds ==
  /\ \A m \in Message : m[1] = "request" => m[2] \in 1..MaxRequests /\ m = Req(m[2])
  /\ \A m \in Message : m[1] = "response" => m[2] \in 0..MaxRequests /\ m = Resp(m[2])
  /\ \A n : Req(n)[1] = "request" /\ Req(n)[2] = n /\ Resp(n)[1] = "response" /\ Resp(n)[2] = n
  /\ \A n, k : Req(n) # Resp(k)
  /\ \A n, k : Req(n) = Req(k) \/ Resp(n) = Resp(k) => n = k
  /\ \A n \in 1..MaxRequests : Req(n) \in Message /\ Resp(n) \in Message
  /\ Resp(0) \in Message /\ <<"note", 0>> \in Message /\ <<"big note", 0>> \in Message
  /\ <<"garbled", 0>> \in Message
<1>1. \A n : Req(n)[1] = "request" /\ Req(n)[2] = n /\ Resp(n)[1] = "response" /\ Resp(n)[2] = n
  BY DEF Req, Resp
<1>2. ASSUME NEW m \in Message, m[1] = "request"
      PROVE  m[2] \in 1..MaxRequests /\ m = Req(m[2])
  <2>1. m \in {Req(n) : n \in 1..MaxRequests}
    <3>1. m \notin {Resp(n) : n \in 0..MaxRequests}
      BY <1>1, <1>2
    <3>2. m \notin {<<"note", 0>>, <<"big note", 0>>, <<"garbled", 0>>}
      <4>1. <<"note", 0>>[1] = "note" /\ <<"big note", 0>>[1] = "big note" /\ <<"garbled", 0>>[1] = "garbled"
        OBVIOUS
      <4>2. m # <<"note", 0>> /\ m # <<"big note", 0>> /\ m # <<"garbled", 0>>
        BY <1>2, <4>1
      <4> QED
        BY <4>2
    <3> QED
      BY <3>1, <3>2, Zenon DEF Message
  <2>2. PICK n \in 1..MaxRequests : m = Req(n)
    BY <2>1
  <2> QED
    BY <1>1, <2>2
<1>3. ASSUME NEW m \in Message, m[1] = "response"
      PROVE  m[2] \in 0..MaxRequests /\ m = Resp(m[2])
  <2>1. m \in {Resp(n) : n \in 0..MaxRequests}
    <3>1. m \notin {Req(n) : n \in 1..MaxRequests}
      BY <1>1, <1>3
    <3>2. m \notin {<<"note", 0>>, <<"big note", 0>>, <<"garbled", 0>>}
      <4>1. <<"note", 0>>[1] = "note" /\ <<"big note", 0>>[1] = "big note" /\ <<"garbled", 0>>[1] = "garbled"
        OBVIOUS
      <4>2. m # <<"note", 0>> /\ m # <<"big note", 0>> /\ m # <<"garbled", 0>>
        BY <1>3, <4>1
      <4> QED
        BY <4>2
    <3> QED
      BY <3>1, <3>2, Zenon DEF Message
  <2>2. PICK n \in 0..MaxRequests : m = Resp(n)
    BY <2>1
  <2> QED
    BY <1>1, <2>2
<1>4. \A n \in 1..MaxRequests : Req(n) \in Message /\ Resp(n) \in Message
  <2>1. \A n \in 1..MaxRequests : n \in 0..MaxRequests
    BY ProxyAssumption
  <2> QED
    BY <2>1, Zenon DEF Message
<1>5. /\ Resp(0) \in Message /\ <<"note", 0>> \in Message /\ <<"big note", 0>> \in Message
      /\ <<"garbled", 0>> \in Message
  <2>1. 0 \in 0..MaxRequests
    BY ProxyAssumption
  <2> QED
    BY <2>1, Zenon DEF Message
<1>6. \A n, k : Req(n) # Resp(k)
  <2>1. "request" # "response"
    OBVIOUS
  <2> QED
    BY <1>1, <2>1
<1>7. \A n, k : Req(n) = Req(k) \/ Resp(n) = Resp(k) => n = k
  BY <1>1
<1> QED
  BY <1>1, <1>2, <1>3, <1>4, <1>5, <1>6, <1>7

\* The actions in one list.
LEMMA ProxyCases ==
  ASSUME [ProxyNext]_proxyVars
  PROVE  \/ ClientWrites \/ ClientCloses \/ MuxReads \/ MuxDecodeError
         \/ \E i \in 1..MaxRequests : MuxAnswers(i)
         \/ MuxNotifies \/ MuxSeesEof \/ MuxCloses
         \/ flavour = "frames" /\ ReadStdin
         \/ flavour = "frames" /\ StdinEnds
         \/ flavour = "frames" /\ ReadSocket
         \/ flavour = "frames" /\ SocketEnds
         \/ flavour = "bytes" /\ CopyIn
         \/ flavour = "bytes" /\ CopyOut
         \/ UNCHANGED proxyVars
  BY DEF ProxyNext, Mux, Proxy, Frames, Bytes

\* What the two copies do to the messages.
LEMMA CopyInCases ==
  ASSUME CopyIn
  PROVE  /\ \/ input' = input /\ up' = up
            \/ input # <<>> /\ input' = Tail(input) /\ up' = Append(up, Head(input))
            \/ input # <<>> /\ input' = Tail(input) /\ up' = up
         /\ ended' = ended \/ ended' = "error"
<1>1. CASE input = <<>> /\ eof /\ shut' = TRUE /\ UNCHANGED <<input, up, ended>>
  BY <1>1
<1>2. CASE /\ input # <<>> /\ input' = Tail(input) /\ UNCHANGED shut
           /\ mux # "closed" /\ up' = Append(up, Head(input)) /\ UNCHANGED ended
  BY <1>2, Zenon
<1>3. CASE /\ input # <<>> /\ input' = Tail(input) /\ UNCHANGED shut
           /\ mux = "closed" /\ ended' = "error" /\ UNCHANGED up
  BY <1>3, Zenon
<1> QED
  BY <1>1, <1>2, <1>3, Zenon DEF CopyIn

\* The copy of the mux's answers: one is moved, or the direction ends.
LEMMA CopyOutCases ==
  ASSUME CopyOut
  PROVE  /\ \/ down # <<>> /\ down' = Tail(down) /\ output' = Append(output, Head(down))
            \/ down' = down /\ output' = output
         /\ ended' = ended \/ ended' = "closed"
<1>1. CASE down # <<>> /\ down' = Tail(down) /\ output' = Append(output, Head(down)) /\ UNCHANGED ended
  BY <1>1, Zenon
<1>2. CASE down = <<>> /\ mux = "closed" /\ shut /\ ended' = "closed" /\ UNCHANGED <<down, output>>
  BY <1>2
<1> QED
  BY <1>1, <1>2, Zenon DEF CopyOut

\* The first message of a direction is a message, and so is the rest.
LEMMA FirstAndRest ==
  ASSUME NEW q \in Seq(Message), q # <<>>
  PROVE  Head(q) \in Message /\ Tail(q) \in Seq(Message)
  OBVIOUS

\* A message added is one of a sequence of messages.
LEMMA AddMessage ==
  ASSUME NEW q \in Seq(Message), NEW m \in Message
  PROVE  Append(q, m) \in Seq(Message)
  OBVIOUS

\* Every step keeps the types.
LEMMA StepProxyTypes ==
  ASSUME ProxyTypes, [ProxyNext]_proxyVars
  PROVE  ProxyTypes'
<1>0. MaxRequests \in Nat /\ MaxNotes \in Nat
  BY ProxyAssumption
<1> USE DEF ProxyTypes, clientSide, muxSide, environment, proxying
<1>1. CASE ClientWrites
  <2>1. CASE asked < MaxRequests /\ asked' = asked + 1 /\ input' = Append(input, <<"request", asked + 1>>)
             /\ UNCHANGED noted
    <3>1. asked + 1 \in 1..MaxRequests /\ asked' \in 0..MaxRequests
      BY <1>0, <2>1
    <3>2. input' \in Seq(Message)
      <4>1. <<"request", asked + 1>> \in Message
        BY <3>1, Kinds, Zenon DEF Req
      <4> QED
        BY <2>1, <4>1, AddMessage
    <3> QED
      BY <1>1, <2>1, <3>1, <3>2 DEF ClientWrites
  <2>2. CASE /\ noted < MaxNotes /\ noted' = noted + 1 /\ UNCHANGED asked
             /\ \E k \in {"note", "big note", "garbled"} : input' = Append(input, <<k, 0>>)
    <3>1. input' \in Seq(Message)
      <4>1. PICK k \in {"note", "big note", "garbled"} : input' = Append(input, <<k, 0>>)
        BY <2>2, Zenon
      <4>2. <<k, 0>> \in Message
        BY Kinds, Zenon
      <4> QED
        BY <4>1, <4>2, AddMessage
    <3>2. noted' \in 0..MaxNotes
      <4>1. noted < MaxNotes /\ noted' = noted + 1 /\ noted \in 0..MaxNotes
        BY <2>2, Zenon
      <4> QED
        BY <1>0, <4>1
    <3> QED
      BY <1>1, <2>2, <3>1, <3>2 DEF ClientWrites
  <2> QED
    BY <1>1, <2>1, <2>2 DEF ClientWrites
<1>2. CASE ClientCloses
  BY <1>2 DEF ClientCloses
<1>3. CASE MuxReads
  <2>1. up # <<>> /\ Head(up) \in Message /\ up' \in Seq(Message)
    BY <1>3, FirstAndRest DEF MuxReads
  <2>2. owed' \subseteq 1..MaxRequests
    BY <1>3, <2>1, Kinds DEF MuxReads
  <2>3. down' \in Seq(Message)
    <3>1. <<"response", 0>> \in Message
      BY Kinds, Zenon DEF Resp
    <3>2. down' = down \/ down' = Append(down, <<"response", 0>>)
      BY <1>3 DEF MuxReads
    <3> QED
      BY <3>1, <3>2, AddMessage
  <2> QED
    BY <1>3, <2>1, <2>2, <2>3 DEF MuxReads
<1>3a. CASE MuxDecodeError
  <2>1. up' \in Seq(Message)
    BY <1>3a, FirstAndRest DEF MuxDecodeError
  <2> QED
    BY <1>3a, <2>1 DEF MuxDecodeError
<1>4. ASSUME NEW i \in 1..MaxRequests, MuxAnswers(i) PROVE ProxyTypes'
  <2>1. down' \in Seq(Message)
    <3>1. <<"response", i>> \in Message
      BY Kinds, Zenon DEF Resp
    <3> QED
      BY <1>4, <3>1, AddMessage DEF MuxAnswers
  <2> QED
    BY <1>4, <2>1 DEF MuxAnswers
<1>5. CASE MuxNotifies
  <2>1. down' \in Seq(Message)
    <3>1. PICK k \in {"note", "response"} : down' = Append(down, <<k, 0>>)
      BY <1>5 DEF MuxNotifies
    <3>2. <<k, 0>> \in Message
      BY Kinds, Zenon DEF Resp
    <3> QED
      BY <3>1, <3>2, AddMessage
  <2>2. spoke' \in 0..MaxNotes
    BY <1>0, <1>5 DEF MuxNotifies
  <2> QED
    BY <1>5, <2>1, <2>2 DEF MuxNotifies
<1>6. CASE MuxSeesEof \/ MuxCloses
  BY <1>6 DEF MuxSeesEof, MuxCloses
<1>7. CASE ReadStdin
  <2>1. input # <<>> /\ Head(input) \in Message /\ input' \in Seq(Message)
    BY <1>7, FirstAndRest DEF ReadStdin
  <2>2. up' \in Seq(Message) /\ ended' \in {"no", "complete", "closed", "error"}
    <3>1. up' = up \/ (up' = Append(up, Head(input)) /\ input # <<>>)
      BY <1>7 DEF ReadStdin
    <3>2. ended' = ended \/ ended' = "error" \/ ended' = "closed"
      BY <1>7 DEF ReadStdin
    <3>3. up' \in Seq(Message)
      BY <2>1, <3>1, AddMessage
    <3> QED
      BY <3>2, <3>3
  <2>3. pending_requests' \in Nat
    BY <1>7 DEF ReadStdin
  <2> QED
    BY <1>7, <2>1, <2>2, <2>3 DEF ReadStdin
<1>8. CASE StdinEnds
  <2>1. input' \in Seq(Message)
    BY <1>8, FirstAndRest DEF StdinEnds
  <2> QED
    BY <1>8, <2>1 DEF StdinEnds
<1>9. CASE ReadSocket
  <2>1. down # <<>> /\ Head(down) \in Message /\ down' \in Seq(Message)
    BY <1>9, FirstAndRest DEF ReadSocket
  <2>2. output' \in Seq(Message)
    BY <1>9, <2>1 DEF ReadSocket
  <2>3. pending_requests' \in Nat
    BY <1>9 DEF ReadSocket
  <2>4. ended' \in {"no", "complete", "closed", "error"}
    BY <1>9 DEF ReadSocket
  <2> QED
    BY <1>9, <2>1, <2>2, <2>3, <2>4 DEF ReadSocket
<1>10. CASE SocketEnds
  BY <1>10 DEF SocketEnds
<1>11. CASE CopyIn
  <2>1. input' \in Seq(Message) /\ (input # <<>> => Head(input) \in Message)
    BY <1>11, FirstAndRest DEF CopyIn
  <2>2. up' \in Seq(Message) /\ ended' \in {"no", "complete", "closed", "error"}
    <3>1. up' = up \/ (up' = Append(up, Head(input)) /\ input # <<>>)
      BY <1>11, CopyInCases, Zenon
    <3>2. ended' = ended \/ ended' = "error" \/ ended' = "closed"
      BY <1>11 DEF CopyIn
    <3>3. up' \in Seq(Message)
      BY <2>1, <3>1, AddMessage
    <3> QED
      BY <3>2, <3>3
  <2> QED
    BY <1>11, <2>1, <2>2 DEF CopyIn
<1>12. CASE CopyOut
  <2>1. down' \in Seq(Message) /\ (down # <<>> => Head(down) \in Message)
    BY <1>12, FirstAndRest DEF CopyOut
  <2>2. output' \in Seq(Message) /\ ended' \in {"no", "complete", "closed", "error"}
    <3>1. output' = output \/ (output' = Append(output, Head(down)) /\ down # <<>>)
      BY <1>12, CopyOutCases, Zenon
    <3>2. ended' = ended \/ ended' = "error" \/ ended' = "closed"
      BY <1>12 DEF CopyOut
    <3>3. output' \in Seq(Message)
      BY <2>1, <3>1, AddMessage
    <3> QED
      BY <3>2, <3>3
  <2> QED
    BY <1>12, <2>1, <2>2 DEF CopyOut
<1>13. CASE UNCHANGED proxyVars
  BY <1>13 DEF proxyVars
<1> QED
  BY <1>1, <1>2, <1>3, <1>4, <1>5, <1>6, <1>7, <1>8, <1>9, <1>10, <1>11, <1>12, <1>13,
     <1>3a, ProxyCases

\* And the flags.
LEMMA StepProxyFlags ==
  ASSUME ProxyFlags, [ProxyNext]_proxyVars
  PROVE  ProxyFlags'
<1> USE DEF clientSide, muxSide, environment, proxying
<1>1. eof' \in BOOLEAN
  BY ProxyCases
  DEF ProxyFlags, ClientWrites, ClientCloses, MuxReads, MuxAnswers, MuxNotifies, MuxSeesEof,
      MuxDecodeError, MuxCloses, ReadStdin, StdinEnds, ReadSocket, SocketEnds, CopyIn, CopyOut, proxyVars
<1>2. shut' \in BOOLEAN
  BY ProxyCases
  DEF ProxyFlags, ClientWrites, ClientCloses, MuxReads, MuxAnswers, MuxNotifies, MuxSeesEof,
      MuxDecodeError, MuxCloses, ReadStdin, StdinEnds, ReadSocket, SocketEnds, CopyIn, CopyOut, proxyVars
<1>3. stdin_closed' \in BOOLEAN
  BY ProxyCases
  DEF ProxyFlags, ClientWrites, ClientCloses, MuxReads, MuxAnswers, MuxNotifies, MuxSeesEof,
      MuxDecodeError, MuxCloses, ReadStdin, StdinEnds, ReadSocket, SocketEnds, CopyIn, CopyOut, proxyVars
<1> QED
  BY <1>1, <1>2, <1>3, Zenon DEF ProxyFlags

\* A note is neither a request nor a response, and neither is what is no message.
LEMMA NotesApart ==
  \A n : /\ Req(n) # <<"note", 0>> /\ Req(n) # <<"big note", 0>> /\ Req(n) # <<"garbled", 0>>
         /\ Resp(n) # <<"note", 0>> /\ Resp(n) # <<"big note", 0>>
<1>1. <<"note", 0>>[1] = "note" /\ <<"big note", 0>>[1] = "big note" /\ <<"garbled", 0>>[1] = "garbled"
  OBVIOUS
<1>2. \A n : Req(n)[1] = "request" /\ Resp(n)[1] = "response"
  BY Kinds
<1>3. /\ "request" # "note" /\ "request" # "big note" /\ "request" # "garbled"
      /\ "response" # "note" /\ "response" # "big note"
  OBVIOUS
<1> QED
  BY <1>1, <1>2, <1>3, Zenon

\* No step puts a request in two places or answers it twice.
LEMMA StepOnePlace ==
  ASSUME ProxyTypes, InOnePlace, [ProxyNext]_proxyVars
  PROVE  InOnePlace'
<1> USE DEF clientSide, muxSide, environment, proxying
<1>0. /\ input \in Seq(Message) /\ up \in Seq(Message) /\ down \in Seq(Message)
      /\ output \in Seq(Message) /\ asked \in Nat /\ owed \subseteq 1..MaxRequests
  BY DEF ProxyTypes
<1> SUFFICES ASSUME NEW n \in 1..MaxRequests PROVE OnePlace(n)'
  BY DEF InOnePlace
<1>a. OnePlace(n)
  BY DEF InOnePlace
<1>b. /\ Req(n) # <<"note", 0>> /\ Req(n) # <<"big note", 0>> /\ Req(n) # <<"garbled", 0>>
      /\ Resp(n) # <<"note", 0>> /\ Resp(n) # Resp(0)
  <2>1. n # 0
    BY ProxyAssumption
  <2>2. Resp(n) # Resp(0)
    BY <2>1, Kinds
  <2> QED
    BY <2>2, NotesApart, Zenon
<1>1. ASSUME UNCHANGED <<input, asked, up, owed, down, output>> PROVE OnePlace(n)'
  BY <1>1, <1>a DEF OnePlace
<1>2. CASE ClientWrites
  <2>1. UNCHANGED <<up, owed, down, output>>
    BY <1>2 DEF ClientWrites
  <2>2. CASE asked' = asked + 1 /\ input' = Append(input, Req(asked + 1)) /\ asked < MaxRequests
    <3>1. Req(asked + 1) \in Message
      <4>1. asked + 1 \in 1..MaxRequests
        BY <1>0, <2>2, ProxyAssumption
      <4> QED
        BY <4>1, Kinds
    <3>2. Req(n) = Req(asked + 1) => n = asked + 1
      BY Kinds
    <3>3. Has(input', Req(n)) <=> Req(n) = Req(asked + 1) \/ Has(input, Req(n))
      BY <1>0, <2>2, <3>1, AddLast
    <3>4. n = asked + 1 => ~(n <= asked)
      BY <1>0
    <3>5. Once(input', Req(n))
      BY <1>0, <1>a, <2>2, <3>1, <3>2, <3>4, AddLast DEF OnePlace
    <3>6. n <= asked => n <= asked'
      BY <1>0, <2>2
    <3>7. n = asked + 1 => n <= asked'
      BY <1>0, <2>2
    <3> QED
      BY <1>a, <2>1, <3>2, <3>3, <3>4, <3>5, <3>6, <3>7 DEF OnePlace
  <2>3. CASE UNCHANGED asked /\ \E k \in {"note", "big note", "garbled"} : input' = Append(input, <<k, 0>>)
    <3>1. PICK m \in {<<"note", 0>>, <<"big note", 0>>, <<"garbled", 0>>} : input' = Append(input, m)
      BY <2>3
    <3>2. m \in Message /\ Req(n) # m
      BY <1>b, Kinds, Zenon
    <3>3. (Has(input', Req(n)) <=> Has(input, Req(n))) /\ (Once(input, Req(n)) => Once(input', Req(n)))
      BY <1>0, <3>1, <3>2, AddLast
    <3> QED
      BY <1>a, <2>1, <2>3, <3>3 DEF OnePlace
  <2> QED
    BY <1>2, <2>2, <2>3, Zenon DEF ClientWrites, Req
<1>3. CASE MuxReads
  <2>1. UNCHANGED <<input, asked, output>> /\ up # <<>> /\ up' = Tail(up)
    BY <1>3 DEF MuxReads
  <2>2. Head(up) \in Message
    BY <1>0, <2>1, FirstAndRest
  <2>3. /\ Has(up, Req(n)) <=> Req(n) = Head(up) \/ Has(up', Req(n))
        /\ Once(up', Req(n)) /\ ~(Req(n) = Head(up) /\ Has(up', Req(n)))
    BY <1>0, <1>a, <2>1, TakeFirst DEF OnePlace
  <2>4. n \in owed' <=> n \in owed \/ Req(n) = Head(up)
    <3>1. CASE Head(up)[1] = "request"
      <4>1. owed' = owed \cup {Head(up)[2]}
        BY <1>3, <3>1 DEF MuxReads
      <4>2. Req(n) = Head(up) <=> n = Head(up)[2]
        BY <2>2, <3>1, Kinds
      <4> QED
        BY <4>1, <4>2
    <3>2. CASE Head(up)[1] # "request"
      <4>1. owed' = owed
        BY <1>3, <3>2 DEF MuxReads
      <4>2. Req(n) # Head(up)
        BY <3>2, Kinds
      <4> QED
        BY <4>1, <4>2
    <3> QED
      BY <3>1, <3>2
  <2>5. (Has(down', Resp(n)) <=> Has(down, Resp(n))) /\ Once(down', Resp(n))
    <3>1. down' = down \/ down' = Append(down, Resp(0))
      BY <1>3, Zenon DEF MuxReads, Resp
    <3>2. Resp(0) \in Message
      BY Kinds
    <3>3. Once(down, Resp(n))
      BY <1>a DEF OnePlace
    <3>4. CASE down' = Append(down, Resp(0))
      <4>1. /\ Has(down', Resp(n)) <=> Resp(n) = Resp(0) \/ Has(down, Resp(n))
            /\ Once(down, Resp(n)) /\ (Resp(n) = Resp(0) => ~Has(down, Resp(n))) => Once(down', Resp(n))
        BY <1>0, <3>2, <3>4, AddLast
      <4> QED
        BY <1>b, <3>3, <4>1, Zenon
    <3> QED
      BY <3>1, <3>3, <3>4
  <2> QED
    BY <1>a, <2>1, <2>3, <2>4, <2>5 DEF OnePlace
<1>3a. CASE MuxDecodeError
  <2>1. UNCHANGED <<input, asked, owed, down, output>> /\ up # <<>> /\ up' = Tail(up)
    BY <1>3a DEF MuxDecodeError
  <2>2. (Has(up', Req(n)) => Has(up, Req(n))) /\ Once(up', Req(n))
    BY <1>0, <1>a, <2>1, TakeFirst DEF OnePlace
  <2> QED
    BY <1>a, <2>1, <2>2 DEF OnePlace
<1>4. ASSUME NEW i \in 1..MaxRequests, MuxAnswers(i) PROVE OnePlace(n)'
  <2>1. UNCHANGED <<input, asked, up, output>> /\ i \in owed /\ owed' = owed \ {i}
    BY <1>4 DEF MuxAnswers
  <2>2. down' = Append(down, Resp(i)) /\ Resp(i) \in Message /\ (Resp(n) = Resp(i) <=> n = i)
    BY <1>4, Kinds, Zenon DEF MuxAnswers, Resp
  <2>3. /\ Has(down', Resp(n)) <=> n = i \/ Has(down, Resp(n))
        /\ Once(down, Resp(n)) /\ (n = i => ~Has(down, Resp(n))) => Once(down', Resp(n))
    BY <1>0, <2>2, AddLast
  <2> QED
    BY <1>a, <2>1, <2>3 DEF OnePlace
<1>5. CASE MuxNotifies
  <2>1. UNCHANGED <<input, asked, up, owed, output>>
    BY <1>5 DEF MuxNotifies
  <2>2. PICK m \in {<<"note", 0>>, Resp(0)} : down' = Append(down, m)
    BY <1>5, Zenon DEF MuxNotifies, Resp
  <2>3. m \in Message /\ Resp(n) # m
    BY <1>b, Kinds, Zenon
  <2>4. (Has(down', Resp(n)) <=> Has(down, Resp(n))) /\ (Once(down, Resp(n)) => Once(down', Resp(n)))
    BY <1>0, <2>2, <2>3, AddLast
  <2> QED
    BY <1>a, <2>1, <2>4 DEF OnePlace
<1>6. CASE MuxSeesEof \/ MuxCloses
  <2>1. UNCHANGED <<input, asked, up, down, output>> /\ owed' = {}
    BY <1>6 DEF MuxSeesEof, MuxCloses
  <2> QED
    BY <1>a, <2>1 DEF OnePlace
<1>7. ASSUME UNCHANGED <<asked, owed, down, output>>, input # <<>>, input' = Tail(input),
             up' = up \/ up' = Append(up, Head(input))
      PROVE  OnePlace(n)'
  <2>1. Head(input) \in Message
    BY <1>0, <1>7, FirstAndRest
  <2>2. /\ Has(input, Req(n)) <=> Req(n) = Head(input) \/ Has(input', Req(n))
        /\ Once(input', Req(n)) /\ ~(Req(n) = Head(input) /\ Has(input', Req(n)))
    BY <1>0, <1>a, <1>7, TakeFirst DEF OnePlace
  <2>3. CASE up' = up
    BY <1>a, <1>7, <2>2, <2>3 DEF OnePlace
  <2>4. CASE up' = Append(up, Head(input))
    <3>1. /\ Has(up', Req(n)) <=> Req(n) = Head(input) \/ Has(up, Req(n))
          /\ Once(up, Req(n)) /\ (Req(n) = Head(input) => ~Has(up, Req(n))) => Once(up', Req(n))
      BY <1>0, <2>1, <2>4, AddLast
    <3> QED
      BY <1>a, <1>7, <2>2, <3>1 DEF OnePlace
  <2> QED
    BY <1>7, <2>3, <2>4
<1>8. ASSUME UNCHANGED <<input, asked, up, owed>>, down # <<>>, down' = Tail(down),
             output' = Append(output, Head(down))
      PROVE  OnePlace(n)'
  <2>1. /\ Has(down, Resp(n)) <=> Resp(n) = Head(down) \/ Has(down', Resp(n))
        /\ Once(down', Resp(n)) /\ ~(Resp(n) = Head(down) /\ Has(down', Resp(n)))
    BY <1>0, <1>a, <1>8, TakeFirst DEF OnePlace
  <2>2. Has(output', Resp(n)) <=> Resp(n) = Head(down) \/ Has(output, Resp(n))
    <3>1. Head(down) \in Message
      BY <1>0, <1>8, FirstAndRest
    <3> QED
      BY <1>0, <1>8, <3>1, AddLast
  <2> QED
    BY <1>a, <1>8, <2>1, <2>2 DEF OnePlace
<1>9. CASE ReadStdin
  <2>1. /\ UNCHANGED <<asked, owed, down, output>> /\ input # <<>> /\ input' = Tail(input)
        /\ up' = up \/ up' = Append(up, Head(input))
    BY <1>9 DEF ReadStdin
  <2> QED
    BY <1>7, <2>1
<1>10. CASE StdinEnds
  <2>1. UNCHANGED <<asked, owed, up, down, output>> /\ (input' = input \/ (input # <<>> /\ input' = Tail(input)))
    BY <1>10 DEF StdinEnds
  <2> QED
    BY <1>1, <1>7, <2>1
<1>11. CASE ReadSocket
  <2>1. /\ UNCHANGED <<input, asked, up, owed>> /\ down # <<>> /\ down' = Tail(down)
        /\ output' = Append(output, Head(down))
    BY <1>11 DEF ReadSocket
  <2> QED
    BY <1>8, <2>1
<1>12. CASE CopyIn
  <2>1. UNCHANGED <<asked, owed, down, output>>
    BY <1>12 DEF CopyIn
  <2> QED
    BY <1>1, <1>7, <1>12, <2>1, CopyInCases
<1>13. CASE CopyOut
  <2>1. UNCHANGED <<input, asked, up, owed>>
    BY <1>13 DEF CopyOut
  <2> QED
    BY <1>1, <1>8, <1>13, <2>1, CopyOutCases
<1>14. CASE ClientCloses \/ SocketEnds \/ UNCHANGED proxyVars
  BY <1>1, <1>14 DEF ClientCloses, SocketEnds, proxyVars
<1> QED
  BY <1>2, <1>3, <1>3a, <1>4, <1>5, <1>6, <1>9, <1>10, <1>11, <1>12, <1>13, <1>14, ProxyCases

\* Sets of request numbers are finite.
LEMMA NumbersFinite ==
  ASSUME NEW T \in SUBSET (1..MaxRequests)
  PROVE  IsFiniteSet(T) /\ Cardinality(T) \in Nat
<1>1. IsFiniteSet(1..MaxRequests)
  BY FS_Interval, ProxyAssumption
<1> QED
  BY <1>1, FS_Subset, FS_CardinalityType

\* Reading counts a request no sooner than it leaves stdin.
LEMMA StepPendingRead ==
  ASSUME ProxyTypes, InOnePlace, PendingRead, [ProxyNext]_proxyVars
  PROVE  PendingRead'
<1> USE DEF clientSide, muxSide, environment, proxying
<1>0. /\ input \in Seq(Message) /\ asked \in Nat /\ pending_requests \in Nat
      /\ pending_requests + Cardinality(NotRead) <= asked
  BY DEF ProxyTypes, PendingRead
<1>a. NotRead \in SUBSET (1..MaxRequests) /\ NotRead' \in SUBSET (1..MaxRequests)
  BY DEF NotRead
<1>b. /\ IsFiniteSet(NotRead) /\ Cardinality(NotRead) \in Nat
      /\ IsFiniteSet(NotRead') /\ Cardinality(NotRead') \in Nat
  BY <1>a, NumbersFinite
<1>1. ASSUME UNCHANGED <<input, asked>>, pending_requests' \in Nat,
             pending_requests' <= pending_requests
      PROVE  PendingRead'
  <2>1. NotRead' = NotRead
    BY <1>1 DEF NotRead
  <2> QED
    BY <1>0, <1>1, <1>b, <2>1 DEF PendingRead
<1>2. CASE ClientWrites
  <2>1. UNCHANGED pending_requests
    BY <1>2 DEF ClientWrites
  <2>2. CASE asked' = asked + 1 /\ input' = Append(input, Req(asked + 1)) /\ asked < MaxRequests
    <3>1. asked + 1 \in 1..MaxRequests
      BY <1>0, <2>2, ProxyAssumption
    <3>2. Req(asked + 1) \in Message
      BY <3>1, Kinds
    <3>3. \A n \in 1..MaxRequests : Has(input', Req(n)) => n = asked + 1 \/ Has(input, Req(n))
      <4>1. \A n : Has(input', Req(n)) => Req(n) = Req(asked + 1) \/ Has(input, Req(n))
        BY <1>0, <2>2, <3>2, AddLast
      <4>2. \A n : Req(n) = Req(asked + 1) => n = asked + 1
        BY Kinds, Zenon
      <4> QED
        BY <4>1, <4>2, Zenon
    <3>4. NotRead' \subseteq NotRead \cup {asked + 1}
      BY <3>3 DEF NotRead
    <3>5. IsFiniteSet(NotRead \cup {asked + 1})
          /\ Cardinality(NotRead \cup {asked + 1}) <= Cardinality(NotRead) + 1
      BY <1>b, FS_AddElement
    <3>6. Cardinality(NotRead \cup {asked + 1}) \in Nat
      BY <3>5, FS_CardinalityType
    <3>7. Cardinality(NotRead') <= Cardinality(NotRead \cup {asked + 1})
      BY <3>4, <3>5, FS_Subset
    <3>8. Cardinality(NotRead') <= Cardinality(NotRead) + 1
      BY <1>b, <3>5, <3>6, <3>7
    <3> QED
      BY <1>0, <1>b, <2>1, <2>2, <3>8 DEF PendingRead
  <2>3. CASE UNCHANGED asked /\ \E k \in {"note", "big note", "garbled"} : input' = Append(input, <<k, 0>>)
    <3>1. PICK m \in {<<"note", 0>>, <<"big note", 0>>, <<"garbled", 0>>} : input' = Append(input, m)
      BY <2>3
    <3>2. m \in Message /\ \A n : Req(n) # m
      BY NotesApart, Kinds, Zenon
    <3>3. \A n : Has(input', Req(n)) <=> Has(input, Req(n))
      BY <1>0, <3>1, <3>2, AddLast
    <3>4. NotRead' = NotRead
      BY <3>3 DEF NotRead
    <3> QED
      BY <1>0, <1>b, <2>1, <2>3, <3>4 DEF PendingRead
  <2> QED
    BY <1>2, <2>2, <2>3, Zenon DEF ClientWrites, Req
<1>3. ASSUME UNCHANGED asked, input # <<>>, input' = Tail(input), pending_requests' \in Nat,
             \/ pending_requests' = pending_requests
             \/ Head(input)[1] = "request" /\ pending_requests' = pending_requests + 1
      PROVE  PendingRead'
  <2>1. Head(input) \in Message
    BY <1>0, <1>3, FirstAndRest
  <2>2. \A n \in 1..MaxRequests : Has(input', Req(n)) => Has(input, Req(n))
    BY <1>0, <1>3, TakeFirst
  <2>3. NotRead' \subseteq NotRead
    BY <2>2 DEF NotRead
  <2>4. Cardinality(NotRead') <= Cardinality(NotRead)
    BY <1>b, <2>3, FS_Subset
  <2>5. CASE pending_requests' = pending_requests
    BY <1>0, <1>3, <1>b, <2>4, <2>5 DEF PendingRead
  <2>6. CASE Head(input)[1] = "request" /\ pending_requests' = pending_requests + 1
    <3>1. PICK h \in 1..MaxRequests : Head(input) = Req(h)
      BY <2>1, <2>6, Kinds
    <3>2. Has(input, Req(h)) /\ ~Has(input', Req(h))
      <4>1. Once(input, Req(h))
        BY DEF InOnePlace, OnePlace
      <4> QED
        BY <1>0, <1>3, <3>1, <4>1, TakeFirst
    <3>3. h \in NotRead /\ NotRead' \subseteq NotRead \ {h}
      BY <2>3, <3>2 DEF NotRead
    <3>4. IsFiniteSet(NotRead \ {h}) /\ Cardinality(NotRead \ {h}) = Cardinality(NotRead) - 1
      BY <1>b, <3>3, FS_RemoveElement
    <3>5. Cardinality(NotRead') <= Cardinality(NotRead \ {h})
      BY <3>3, <3>4, FS_Subset
    <3>6. Cardinality(NotRead') <= Cardinality(NotRead) - 1
      BY <3>4, <3>5
    <3> QED
      BY <1>0, <1>3, <1>b, <2>6, <3>6 DEF PendingRead
  <2> QED
    BY <1>3, <2>5, <2>6
<1>4. CASE ReadStdin
  <2>1. UNCHANGED asked /\ input # <<>> /\ input' = Tail(input)
    BY <1>4 DEF ReadStdin
  <2>2. /\ \/ pending_requests' = pending_requests
           \/ Head(input)[1] = "request" /\ pending_requests' = pending_requests + 1
        /\ pending_requests' \in Nat
    BY <1>0, <1>4 DEF ReadStdin
  <2> QED
    BY <1>3, <2>1, <2>2
<1>5. CASE StdinEnds
  <2>1. UNCHANGED <<asked, pending_requests>> /\ (input' = input \/ (input # <<>> /\ input' = Tail(input)))
    BY <1>5 DEF StdinEnds
  <2> QED
    BY <1>0, <1>1, <1>3, <2>1
<1>6. CASE CopyIn
  <2>1. UNCHANGED <<asked, pending_requests>>
    BY <1>6 DEF CopyIn
  <2> QED
    BY <1>0, <1>1, <1>3, <1>6, <2>1, CopyInCases
<1>7. CASE ReadSocket
  <2>1. UNCHANGED <<input, asked>>
    BY <1>7 DEF ReadSocket
  <2>2. pending_requests' \in Nat /\ pending_requests' <= pending_requests
    BY <1>0, <1>7 DEF ReadSocket
  <2> QED
    BY <1>1, <2>1, <2>2
<1>8. ASSUME UNCHANGED <<input, asked, pending_requests>> PROVE PendingRead'
  BY <1>0, <1>1, <1>8
<1>9. CASE ClientCloses \/ MuxReads \/ MuxDecodeError \/ MuxNotifies \/ MuxSeesEof \/ MuxCloses
           \/ SocketEnds \/ CopyOut \/ UNCHANGED proxyVars
  BY <1>8, <1>9 DEF ClientCloses, MuxReads, MuxDecodeError, MuxNotifies, MuxSeesEof, MuxCloses, SocketEnds,
                    CopyOut, proxyVars
<1>10. ASSUME NEW i \in 1..MaxRequests, MuxAnswers(i) PROVE PendingRead'
  BY <1>8, <1>10 DEF MuxAnswers
<1> QED
  BY <1>2, <1>4, <1>5, <1>6, <1>7, <1>9, <1>10, ProxyCases

\* A request leaves the count only with its answer on stdout.
LEMMA StepPendingCovers ==
  ASSUME ProxyTypes, InOnePlace, PendingCovers, [ProxyNext]_proxyVars
  PROVE  PendingCovers'
<1> USE DEF clientSide, muxSide, environment, proxying
<1>0. /\ input \in Seq(Message) /\ down \in Seq(Message) /\ asked \in Nat
      /\ output \in Seq(Message) /\ pending_requests \in Nat
  BY DEF ProxyTypes
<1>a. Unanswered \in SUBSET (1..MaxRequests) /\ Unanswered' \in SUBSET (1..MaxRequests)
  BY DEF Unanswered
<1>b. /\ IsFiniteSet(Unanswered) /\ Cardinality(Unanswered) \in Nat
      /\ IsFiniteSet(Unanswered') /\ Cardinality(Unanswered') \in Nat
  BY <1>a, NumbersFinite
<1>1. ASSUME Unanswered' \subseteq Unanswered, UNCHANGED <<flavour, output, pending_requests>>
      PROVE  PendingCovers'
  <2>1. Cardinality(Unanswered') <= Cardinality(Unanswered)
    BY <1>1, <1>b, FS_Subset
  <2> QED
    BY <1>0, <1>1, <1>b, <2>1 DEF PendingCovers
<1>2. ASSUME UNCHANGED <<flavour, input, asked, output, pending_requests>> PROVE PendingCovers'
  BY <1>1, <1>2 DEF Unanswered
<1>3. CASE flavour = "bytes" /\ UNCHANGED flavour
  BY <1>3 DEF PendingCovers
<1>4. CASE ClientWrites
  <2>1. UNCHANGED <<flavour, output, pending_requests>>
    BY <1>4 DEF ClientWrites
  <2>2. CASE asked' = asked + 1 /\ input' = Append(input, Req(asked + 1)) /\ asked < MaxRequests
    <3>1. Req(asked + 1) \in Message
      <4>1. asked + 1 \in 1..MaxRequests
        BY <1>0, <2>2, ProxyAssumption
      <4> QED
        BY <4>1, Kinds
    <3>2. \A n : Has(input', Req(n)) <=> Req(n) = Req(asked + 1) \/ Has(input, Req(n))
      BY <1>0, <2>2, <3>1, AddLast
    <3>3. \A n \in 1..MaxRequests : n <= asked' => n <= asked \/ n = asked + 1
      BY <1>0, <2>2
    <3>4. Unanswered' \subseteq Unanswered
      BY <2>1, <3>2, <3>3 DEF Unanswered
    <3> QED
      BY <1>1, <2>1, <3>4
  <2>3. CASE UNCHANGED asked /\ \E k \in {"note", "big note", "garbled"} : input' = Append(input, <<k, 0>>)
    <3>1. PICK m \in {<<"note", 0>>, <<"big note", 0>>, <<"garbled", 0>>} : input' = Append(input, m)
      BY <2>3
    <3>2. m \in Message
      BY Kinds, Zenon
    <3>3. \A n : Has(input, Req(n)) => Has(input', Req(n))
      BY <1>0, <3>1, <3>2, AddLast
    <3>4. Unanswered' \subseteq Unanswered
      BY <2>1, <2>3, <3>3 DEF Unanswered
    <3> QED
      BY <1>1, <2>1, <3>4
  <2> QED
    BY <1>4, <2>2, <2>3, Zenon DEF ClientWrites, Req
<1>5. CASE ReadStdin
  <2>1. UNCHANGED <<flavour, asked, output>> /\ input # <<>> /\ input' = Tail(input)
    BY <1>5 DEF ReadStdin
  <2>2. Head(input) \in Message
    BY <1>0, <2>1, FirstAndRest
  <2>3. \A n : Has(input, Req(n)) => Has(input', Req(n)) \/ Req(n) = Head(input)
    BY <1>0, <2>1, TakeFirst
  <2>4. CASE Head(input)[1] = "request"
    <3>1. pending_requests' = pending_requests + 1
      BY <1>0, <1>5, <2>4 DEF ReadStdin
    <3>2. PICK h \in 1..MaxRequests : \A n : Req(n) = Head(input) => n = h
      <4>1. Head(input)[2] \in 1..MaxRequests /\ Head(input) = Req(Head(input)[2])
        BY <2>2, <2>4, Kinds
      <4>2. \A n : Req(n) = Head(input) => n = Head(input)[2]
        BY <4>1, Kinds, Zenon
      <4> QED
        BY <4>1, <4>2, Zenon
    <3>3. Unanswered' \subseteq Unanswered \cup {h}
      BY <2>1, <2>3, <3>2 DEF Unanswered
    <3>4. IsFiniteSet(Unanswered \cup {h})
          /\ Cardinality(Unanswered \cup {h}) <= Cardinality(Unanswered) + 1
      BY <1>b, FS_AddElement
    <3>5. Cardinality(Unanswered \cup {h}) \in Nat
      BY <3>4, FS_CardinalityType
    <3>6. Cardinality(Unanswered') <= Cardinality(Unanswered \cup {h})
      BY <3>3, <3>4, FS_Subset
    <3>7. Cardinality(Unanswered') <= Cardinality(Unanswered) + 1
      BY <1>b, <3>4, <3>5, <3>6
    <3> QED
      BY <1>0, <1>b, <2>1, <3>1, <3>7 DEF PendingCovers
  <2>5. CASE Head(input)[1] # "request"
    <3>1. pending_requests' = pending_requests
      BY <1>0, <1>5, <2>5 DEF ReadStdin
    <3>2. \A n : Req(n) # Head(input)
      BY <2>5, Kinds
    <3>3. Unanswered' \subseteq Unanswered
      BY <2>1, <2>3, <3>2 DEF Unanswered
    <3> QED
      BY <1>1, <2>1, <3>1, <3>3
  <2> QED
    BY <2>4, <2>5
<1>6. CASE StdinEnds
  <2>1. /\ UNCHANGED <<flavour, asked, output, pending_requests>>
        /\ \/ input' = input
           \/ input # <<>> /\ Head(input)[1] = "garbled" /\ input' = Tail(input)
    BY <1>6 DEF StdinEnds
  <2>2. \A n : Has(input, Req(n)) => Has(input', Req(n))
    <3>1. \A n : Head(input)[1] = "garbled" => Req(n) # Head(input)
      BY Kinds
    <3> QED
      BY <1>0, <2>1, <3>1, TakeFirst
  <2>3. Unanswered' \subseteq Unanswered
    BY <2>1, <2>2 DEF Unanswered
  <2> QED
    BY <1>1, <2>1, <2>3
<1>7. CASE ReadSocket
  <2>1. /\ UNCHANGED <<flavour, input, asked>> /\ down # <<>>
        /\ output' = Append(output, Head(down))
    BY <1>7 DEF ReadSocket
  <2>2. Head(down) \in Message
    BY <1>0, <2>1, FirstAndRest
  <2>3. \A n : Has(output', Resp(n)) <=> Resp(n) = Head(down) \/ Has(output, Resp(n))
    BY <1>0, <2>1, <2>2, AddLast
  <2>4. Unanswered' \subseteq Unanswered
    BY <2>1, <2>3 DEF Unanswered
  <2> SUFFICES ASSUME flavour' = "frames", ~Has(output', Resp(0))
               PROVE  Cardinality(Unanswered') <= pending_requests'
    BY DEF PendingCovers
  <2>5. ~Has(output, Resp(0)) /\ Head(down) # Resp(0)
    BY <2>3
  <2>6. Cardinality(Unanswered) <= pending_requests
    BY <2>1, <2>5 DEF PendingCovers
  <2>7. CASE Head(down)[1] = "response"
    <3>1. PICK h \in 0..MaxRequests : Head(down) = Resp(h)
      BY <2>2, <2>7, Kinds
    <3>2. h # 0 /\ h \in 1..MaxRequests
      BY <2>5, <3>1, ProxyAssumption
    <3>3. Has(down, Resp(h)) /\ ~Has(input, Req(h)) /\ ~Has(output, Resp(h)) /\ h <= asked
      <4>1. OnePlace(h)
        BY <3>2 DEF InOnePlace
      <4>2. Has(down, Resp(h))
        BY <1>0, <2>1, <3>1, TakeFirst
      <4> QED
        BY <4>1, <4>2 DEF OnePlace
    <3>4. h \in Unanswered /\ h \notin Unanswered'
      BY <2>3, <3>1, <3>2, <3>3 DEF Unanswered
    <3>5. Unanswered' \subseteq Unanswered \ {h}
      BY <2>4, <3>4
    <3>6. IsFiniteSet(Unanswered \ {h}) /\ Cardinality(Unanswered \ {h}) = Cardinality(Unanswered) - 1
      BY <1>b, <3>4, FS_RemoveElement
    <3>7. Cardinality(Unanswered') <= Cardinality(Unanswered \ {h})
      BY <3>5, <3>6, FS_Subset
    <3>8. Cardinality(Unanswered') <= Cardinality(Unanswered) - 1
      BY <3>6, <3>7
    <3>9. pending_requests' = IF pending_requests > 0 THEN pending_requests - 1 ELSE pending_requests
      BY <1>7, <2>7 DEF ReadSocket
    <3> QED
      BY <1>0, <1>b, <2>6, <3>8, <3>9
  <2>8. CASE Head(down)[1] # "response"
    <3>1. pending_requests' = pending_requests
      BY <1>7, <2>8 DEF ReadSocket
    <3>2. Cardinality(Unanswered') <= Cardinality(Unanswered)
      BY <1>b, <2>4, FS_Subset
    <3> QED
      BY <1>0, <1>b, <2>6, <3>1, <3>2
  <2> QED
    BY <2>7, <2>8
<1>8. CASE \/ ClientCloses \/ MuxReads \/ MuxDecodeError \/ MuxNotifies \/ MuxSeesEof \/ MuxCloses
           \/ SocketEnds \/ UNCHANGED proxyVars
  BY <1>2, <1>8 DEF ClientCloses, MuxReads, MuxDecodeError, MuxNotifies, MuxSeesEof, MuxCloses,
                    SocketEnds, proxyVars
<1>9. ASSUME NEW i \in 1..MaxRequests, MuxAnswers(i) PROVE PendingCovers'
  BY <1>2, <1>9 DEF MuxAnswers
<1>10. CASE flavour = "bytes" /\ (CopyIn \/ CopyOut)
  BY <1>3, <1>10 DEF CopyIn, CopyOut
<1> QED
  BY <1>4, <1>5, <1>6, <1>7, <1>8, <1>9, <1>10, ProxyCases

\* Only the last response, with nothing pending, ends the proxy that counts.
LEMMA StepComplete ==
  ASSUME CompleteAtZero, [ProxyNext]_proxyVars
  PROVE  CompleteAtZero'
<1> USE DEF clientSide, muxSide, environment, proxying
<1>1. CASE flavour = "frames" /\ ReadSocket
  <2>1. UNCHANGED flavour /\ ended = "no" /\ (ended' = "complete" => pending_requests' = 0)
    BY <1>1 DEF ReadSocket, Running
  <2> QED
    BY <1>1, <2>1 DEF CompleteAtZero
<1>2. CASE ReadStdin
  <2>1. ended = "no" /\ (ended' = ended \/ ended' = "error")
    BY <1>2 DEF ReadStdin, Running
  <2> QED
    BY <2>1 DEF CompleteAtZero
<1>3. CASE SocketEnds
  BY <1>3 DEF SocketEnds, CompleteAtZero
<1>4. CASE CopyIn
  <2>1. ended = "no" /\ (ended' = ended \/ ended' = "error")
    BY <1>4, CopyInCases DEF CopyIn, Running
  <2> QED
    BY <2>1 DEF CompleteAtZero
<1>5. CASE CopyOut
  <2>1. ended = "no" /\ (ended' = ended \/ ended' = "closed")
    BY <1>5, CopyOutCases DEF CopyOut, Running
  <2> QED
    BY <2>1 DEF CompleteAtZero
<1>6. ASSUME UNCHANGED <<flavour, pending_requests, ended>> PROVE CompleteAtZero'
  BY <1>6 DEF CompleteAtZero
<1>7. CASE \/ ClientWrites \/ ClientCloses \/ MuxReads \/ MuxDecodeError \/ MuxNotifies
           \/ MuxSeesEof \/ MuxCloses \/ StdinEnds \/ UNCHANGED proxyVars
  BY <1>6, <1>7 DEF ClientWrites, ClientCloses, MuxReads, MuxDecodeError, MuxNotifies,
                    MuxSeesEof, MuxCloses, StdinEnds, proxyVars
<1>8. ASSUME NEW i \in 1..MaxRequests, MuxAnswers(i) PROVE CompleteAtZero'
  BY <1>6, <1>8 DEF MuxAnswers
<1> QED
  BY <1>1, <1>2, <1>3, <1>4, <1>5, <1>7, <1>8, ProxyCases

\* The proxy starts with nothing read and nothing asked.
LEMMA ProxyStarts == ProxyInit => ProxyIInv
<1> SUFFICES ASSUME ProxyInit PROVE ProxyIInv
  OBVIOUS
<1>1. /\ input = <<>> /\ up = <<>> /\ down = <<>> /\ output = <<>> /\ owed = {}
      /\ asked = 0 /\ pending_requests = 0 /\ ended = "no"
  BY DEF ProxyInit
<1>2. \A x : ~Has(<<>>, x) /\ Once(<<>>, x)
  BY DEF Has, Once
<1>3. ProxyTypes
  <2>1. <<>> \in Seq(Message) /\ 0 \in 0..MaxRequests /\ 0 \in 0..MaxNotes
    BY ProxyAssumption
  <2>2. flavour \in {"frames", "bytes"} /\ mux = "open" /\ noted = 0 /\ spoke = 0
    BY DEF ProxyInit
  <2> QED
    BY <1>1, <2>1, <2>2 DEF ProxyTypes
<1>4. ProxyFlags
  BY Zenon DEF ProxyInit, ProxyFlags
<1>5. InOnePlace
  BY <1>1, <1>2 DEF InOnePlace, OnePlace
<1>6. NotRead = {} /\ Unanswered = {}
  BY <1>1, <1>2 DEF NotRead, Unanswered
<1>7. PendingRead /\ PendingCovers
  BY <1>1, <1>6, FS_EmptySet DEF PendingRead, PendingCovers
<1>8. CompleteAtZero
  BY <1>1 DEF CompleteAtZero
<1> QED
  BY <1>3, <1>4, <1>5, <1>7, <1>8 DEF ProxyIInv

\* The inductive invariant of both proxies, for any number of requests and notes.
THEOREM ProxyCorrect == ProxySpec => []ProxyIInv
<1>1. ProxyIInv /\ [ProxyNext]_proxyVars => ProxyIInv'
  BY StepProxyTypes, StepProxyFlags, StepOnePlace, StepPendingRead, StepPendingCovers, StepComplete
  DEF ProxyIInv
<1> QED
  BY <1>1, ProxyStarts, PTL DEF ProxySpec

\* Every request the counting proxy read has its response on stdout when it ends by
\* itself (RepliesBeforeExit): pending_requests is never less than the requests read
\* and not answered on stdout, wherever they or their responses are, so the count is
\* zero only when there are none.  That is as long as it wrote no response with a null
\* id, which it counts as the answer to a request (run_proxy of runtime/proxy.rs).
THEOREM RepliesComplete == ProxySpec => []RepliesBeforeExit
<1>1. ProxyIInv => RepliesBeforeExit
  <2> SUFFICES ASSUME ProxyIInv, ended = "complete", ~Has(output, Resp(0)), NEW n \in 1..asked
               PROVE  Has(input, Req(n)) \/ Has(output, Resp(n))
    BY DEF RepliesBeforeExit, Req, Resp
  <2>1. flavour = "frames" /\ pending_requests = 0
    BY DEF ProxyIInv, CompleteAtZero
  <2>2. Cardinality(Unanswered) <= 0
    BY <2>1 DEF ProxyIInv, PendingCovers
  <2>3. Unanswered = {}
    <3>1. Unanswered \in SUBSET (1..MaxRequests)
      BY DEF Unanswered
    <3>2. IsFiniteSet(Unanswered) /\ Cardinality(Unanswered) = 0
      BY <2>2, <3>1, NumbersFinite
    <3> QED
      BY <3>2, FS_EmptySet
  <2>4. n \in 1..MaxRequests /\ n <= asked
    BY ProxyAssumption DEF ProxyIInv, ProxyTypes
  <2> QED
    BY <2>3, <2>4 DEF Unanswered
<1> QED
  BY <1>1, ProxyCorrect, PTL

(***************************************************************************)
(* The daemons and the sockets of their services.                          *)
(***************************************************************************)

DaemonTypes ==
    /\ process \in [Daemons -> {"off", "refused", "up", "stopping", "down"}]
    /\ line \in [Daemons -> CommandLines] /\ read \in [Daemons -> ConfigFiles \cup {Unread}]
    /\ DOMAIN params = Daemons /\ DOMAIN at = Daemons
    /\ DOMAIN paths = AllPaths /\ contested \subseteq AllPaths
    /\ \A d \in Daemons :
        /\ DOMAIN at[d] = DOMAIN params[d]
        /\ \A n \in DOMAIN at[d] :
            /\ at[d][n] \in {"clear", "bind", "serve", "no directory", "not bound", "ended"}
            /\ params[d][n].socket \in AllPaths

\* A daemon that has not started has no tasks; one that has runs what its
\* command line and its file come to.
StartedWith ==
    \A d \in Daemons :
        IF process[d] \in {"off", "refused"} THEN DOMAIN at[d] = {}
        ELSE /\ read[d] \in ConfigFiles /\ Starts(line[d], read[d])
             /\ params[d] = resolve_params_multi(line[d], read[d])

\* Who listens at a path is a service of that path.
Listeners ==
    \A p \in AllPaths :
        \/ paths[p] \in {Nobody, Stale}
        \/ \E d \in Daemons : \E n \in DOMAIN at[d] : paths[p] = <<d, n>> /\ params[d][n].socket = p

\* A path that is not contested is used by one task at a time.
OneUser ==
    \A d, e \in Daemons : \A n \in DOMAIN at[d], m \in DOMAIN at[e] :
        /\ Active(d, n) /\ Active(e, m)
        /\ params[d][n].socket = params[e][m].socket /\ params[d][n].socket \notin contested
        => d = e /\ n = m

\* A path that is not contested is free for the task that will bind it, and stays
\* with the one that has.
PathKept ==
    \A d \in Daemons : \A n \in DOMAIN at[d] :
        params[d][n].socket \notin contested =>
            /\ at[d][n] # "not bound"
            /\ at[d][n] = "bind" => paths[params[d][n].socket] = Nobody
            /\ at[d][n] = "serve" => paths[params[d][n].socket] = <<d, n>>

DaemonIInv == DaemonTypes /\ StartedWith /\ Listeners /\ OneUser /\ PathKept

\* A configuration that was read is the file's.
LEMMA Configured ==
  ASSUME NEW f
  PROVE  /\ load_config(f) = {} \/ load_config(f) = {f.servers}
         /\ \A c : load_config(f) = {} => service_cfg(c, load_config(f)) = NoConfig
         /\ \A c : load_config(f) = {f.servers} =>
                service_cfg(c, load_config(f)) = f.servers[c.service]
<1>1. load_config(f) = {} \/ load_config(f) = {f.servers}
  BY DEF load_config
<1>2. \A c : load_config(f) = {} => service_cfg(c, load_config(f)) = NoConfig
  BY DEF service_cfg
<1>3. ASSUME NEW c, load_config(f) = {f.servers}
      PROVE  service_cfg(c, load_config(f)) = f.servers[c.service]
  <2>1. (CHOOSE servers \in load_config(f) : TRUE) \in load_config(f)
    BY <1>3
  <2>2. (CHOOSE servers \in load_config(f) : TRUE) = f.servers
    BY <1>3, <2>1
  <2> QED
    BY <1>3, <2>2 DEF service_cfg
<1> QED
  BY <1>1, <1>2, <1>3

\* A command line with a service of its own.
LEMMA ForOne ==
  ASSUME NEW c \in CommandLines, NEW n
  PROVE  /\ ForService(c, n).service = n
         /\ ForService(c, n).socket = c.socket /\ ForService(c, n).cmd = c.cmd
  BY DaemonAssumption DEF ForService, CliOptions

\* What a daemon starts has a path, that of the command line or of its entry.
LEMMA ResolvedPath ==
  ASSUME NEW c \in CommandLines, NEW f \in ConfigFiles, Starts(c, f),
         NEW n \in ServicesOf(c, load_config(f))
  PROVE  resolve_params_multi(c, f)[n].socket \in AllPaths
<1> DEFINE config == load_config(f)
           one == ForService(c, n)
<1>1. resolve_params_multi(c, f)[n].socket = Or(c.socket, service_cfg(one, config).socket)
  BY ForOne DEF resolve_params_multi, resolve_params
<1>2. Or(c.socket, service_cfg(one, config).socket) # Unset
  BY ForOne DEF Starts, Resolves, resolve_params
<1>3. CASE c.socket # Unset
  BY <1>1, <1>3 DEF Or, AllPaths
<1>4. CASE c.socket = Unset
  <2>1. service_cfg(one, config).socket # Unset
    BY <1>2, <1>4 DEF Or
  <2>2. config # {}
    BY <2>1, Configured DEF NoConfig, ServerConfig
  <2>3. config = {f.servers}
    BY <2>2, Configured
  <2>4. n \in DOMAIN f.servers
    BY <2>3, ForOne DEF Starts, Resolves
  <2>5. service_cfg(one, config).socket = f.servers[n].socket
    <3>1. one.service = n
      BY ForOne
    <3>2. service_cfg(one, config) = f.servers[one.service]
      BY <2>3, Configured, Zenon
    <3> QED
      BY <3>1, <3>2
  <2> QED
    BY <1>1, <1>4, <2>1, <2>4, <2>5 DEF Or, AllPaths
<1> QED
  BY <1>3, <1>4

\* A service of a daemon without --socket and --cmd is an entry of its file, the
\* one that was named or one the filters let through.
LEMMA ResolvedEntry ==
  ASSUME NEW c \in CommandLines, NEW f \in ConfigFiles, Starts(c, f),
         c.socket = Unset, c.cmd = Unset, NEW n \in ServicesOf(c, load_config(f))
  PROVE  /\ n \in DOMAIN f.servers
         /\ resolve_params_multi(c, f)[n].socket = f.servers[n].socket
         /\ resolve_params_multi(c, f)[n].cmd = f.servers[n].cmd
         /\ \/ c.service = n
            \/ /\ c.service = Unset
               /\ \A names \in c.only : n \in names
               /\ \A names \in c.except : n \notin names
<1> DEFINE config == load_config(f)
           one == ForService(c, n)
<1>1. /\ resolve_params_multi(c, f)[n].socket = Or(c.socket, service_cfg(one, config).socket)
      /\ resolve_params_multi(c, f)[n].cmd = Or(c.cmd, service_cfg(one, config).cmd)
  BY ForOne DEF resolve_params_multi, resolve_params
<1>2. Or(c.socket, service_cfg(one, config).socket) # Unset
  BY ForOne DEF Starts, Resolves, resolve_params
<1>3. config = {f.servers}
  <2>1. service_cfg(one, config).socket # Unset
    BY <1>2 DEF Or
  <2>2. config # {}
    BY <2>1, Configured DEF NoConfig, ServerConfig
  <2> QED
    BY <2>2, Configured
<1>4. n \in DOMAIN f.servers
  BY <1>3, ForOne DEF Starts, Resolves
<1>5. service_cfg(one, config) = f.servers[n]
  <2>1. one.service = n
    BY ForOne
  <2>2. service_cfg(one, config) = f.servers[one.service]
    BY <1>3, Configured, Zenon
  <2> QED
    BY <2>1, <2>2
<1>6. CASE is_multi_mode(c, config)
  <2>1. c.service = Unset
    BY <1>6 DEF is_multi_mode
  <2>2. n \in Selected(c, f.servers)
    BY <1>3, <1>6 DEF ServicesOf
  <2> QED
    BY <1>1, <1>4, <1>5, <2>1, <2>2 DEF Or, Selected
<1>7. CASE ~is_multi_mode(c, config)
  <2>1. c.service = n
    BY <1>7 DEF ServicesOf
  <2> QED
    BY <1>1, <1>4, <1>5, <2>1 DEF Or
<1> QED
  BY <1>6, <1>7

\* The actions in one list.
LEMMA DaemonCases ==
  ASSUME [DaemonNext]_daemonVars
  PROVE  \/ \E d \in Daemons, c \in CommandLines, f \in ConfigFiles : Launch(d, c, f)
         \/ \E d \in Daemons : \E n \in DOMAIN at[d] :
                ClearPath(d, n) \/ BindPath(d, n) \/ UnlinkPath(d, n)
         \/ \E d \in Daemons : Stop(d) \/ Kill(d)
         \/ UNCHANGED daemonVars
  BY DEF DaemonNext

\* Where the tasks are after one of them has moved.
LEMMA TaskMoved ==
  ASSUME DaemonTypes, NEW d \in Daemons, NEW n \in DOMAIN at[d], NEW to, Goto(d, n, to)
  PROVE  /\ DOMAIN at' = Daemons /\ \A e \in Daemons : DOMAIN at'[e] = DOMAIN at[e]
         /\ at'[d][n] = to
         /\ \A e \in Daemons : \A m \in DOMAIN at[e] : e # d \/ m # n => at'[e][m] = at[e][m]
  BY DEF DaemonTypes, Goto

\* A task that moves while it is using its path, as every task that moves does,
\* and leaves every other path alone.
TaskStep(d, n, to) ==
    /\ Goto(d, n, to) /\ tasking /\ Active(d, n)
    /\ to \in {"clear", "bind", "serve", "no directory", "not bound", "ended"}
    /\ paths' = paths \/ \E x : paths' = [paths EXCEPT ![params[d][n].socket] = x]

\* The path of another task is not the one a task has.
LEMMA OthersPath ==
  ASSUME DaemonTypes, OneUser, NEW d \in Daemons, NEW n \in DOMAIN at[d], Active(d, n),
         NEW e \in Daemons, NEW m \in DOMAIN at[e], Active(e, m), e # d \/ m # n,
         params[e][m].socket \notin contested
  PROVE  params[e][m].socket # params[d][n].socket
  BY DEF OneUser

\* What a moving task keeps, whatever it makes of its path: the types, what was
\* started, that a path has one user, and the paths of the others.
LEMMA TaskKeeps ==
  ASSUME DaemonIInv, NEW d \in Daemons, NEW n \in DOMAIN at[d], NEW to, TaskStep(d, n, to)
  PROVE  /\ DaemonTypes' /\ StartedWith' /\ OneUser'
         /\ \A p \in AllPaths : p # params[d][n].socket => paths'[p] = paths[p]
         /\ \A e \in Daemons : \A m \in DOMAIN at'[e] :
              /\ e # d \/ m # n
              /\ params'[e][m].socket \notin contested'
              => /\ at'[e][m] # "not bound"
                 /\ at'[e][m] = "bind" => paths'[params'[e][m].socket] = Nobody
                 /\ at'[e][m] = "serve" => paths'[params'[e][m].socket] = <<e, m>>
<1>0. DaemonTypes /\ StartedWith /\ OneUser /\ PathKept
  BY DEF DaemonIInv
<1>1. /\ DOMAIN at' = Daemons /\ \A e \in Daemons : DOMAIN at'[e] = DOMAIN at[e]
      /\ at'[d][n] = to
      /\ \A e \in Daemons : \A m \in DOMAIN at[e] : e # d \/ m # n => at'[e][m] = at[e][m]
  BY <1>0, TaskMoved DEF TaskStep
<1>2. UNCHANGED <<process, line, read, params, contested>>
  BY DEF TaskStep, tasking
<1>3. paths' = paths \/ \E x : paths' = [paths EXCEPT ![params[d][n].socket] = x]
  BY DEF TaskStep
<1>4. /\ DOMAIN paths' = AllPaths
      /\ \A p \in AllPaths : p # params[d][n].socket => paths'[p] = paths[p]
  BY <1>0, <1>3 DEF DaemonTypes
<1>5. DaemonTypes'
  <2>1. \A e \in Daemons : \A m \in DOMAIN at'[e] :
          at'[e][m] \in {"clear", "bind", "serve", "no directory", "not bound", "ended"}
    <3> SUFFICES ASSUME NEW e \in Daemons, NEW m \in DOMAIN at[e]
                 PROVE  at'[e][m] \in {"clear", "bind", "serve", "no directory", "not bound", "ended"}
      BY <1>1
    <3>1. CASE e = d /\ m = n
      BY <1>1, <3>1 DEF TaskStep
    <3>2. CASE e # d \/ m # n
      <4>1. at'[e][m] = at[e][m]
        BY <1>1, <3>2
      <4>2. at[e][m] \in {"clear", "bind", "serve", "no directory", "not bound", "ended"}
        BY <1>0 DEF DaemonTypes
      <4> QED
        BY <4>1, <4>2
    <3> QED
      BY <3>1, <3>2
  <2> QED
    BY <1>0, <1>1, <1>2, <1>4, <2>1 DEF DaemonTypes
<1>6. StartedWith'
  BY <1>0, <1>1, <1>2 DEF StartedWith
<1>7. \A e \in Daemons : \A m \in DOMAIN at[e] : Active(e, m)' => Active(e, m)
  BY <1>1 DEF Active, TaskStep
<1>8. OneUser'
  BY <1>0, <1>1, <1>2, <1>7 DEF OneUser
<1>9. ASSUME NEW e \in Daemons, NEW m \in DOMAIN at'[e], e # d \/ m # n,
             params'[e][m].socket \notin contested'
      PROVE  /\ at'[e][m] # "not bound"
             /\ at'[e][m] = "bind" => paths'[params'[e][m].socket] = Nobody
             /\ at'[e][m] = "serve" => paths'[params'[e][m].socket] = <<e, m>>
  <2>1. m \in DOMAIN at[e] /\ at'[e][m] = at[e][m] /\ params'[e][m] = params[e][m]
        /\ params[e][m].socket \notin contested /\ params[e][m].socket \in AllPaths
    BY <1>0, <1>1, <1>2, <1>9 DEF DaemonTypes
  <2>2. at[e][m] \in {"bind", "serve"} => paths'[params[e][m].socket] = paths[params[e][m].socket]
    <3> SUFFICES ASSUME at[e][m] \in {"bind", "serve"}
                 PROVE  params[e][m].socket # params[d][n].socket
      BY <1>4, <2>1
    <3>1. Active(e, m) /\ Active(d, n)
      BY DEF Active, TaskStep
    <3> QED
      BY <1>0, <1>9, <2>1, <3>1, OthersPath
  <2> QED
    BY <1>0, <2>1, <2>2 DEF PathKept
<1> QED
  BY <1>4, <1>5, <1>6, <1>8, <1>9

\* A task that clears, binds or removes its path does so for itself alone.
LEMMA StepTasks ==
  ASSUME DaemonIInv, NEW d \in Daemons, NEW n \in DOMAIN at[d],
         ClearPath(d, n) \/ BindPath(d, n) \/ UnlinkPath(d, n)
  PROVE  DaemonIInv'
<1> DEFINE p == params[d][n].socket
<1>0. DaemonTypes /\ Listeners /\ PathKept /\ p \in AllPaths
  BY DEF DaemonIInv, DaemonTypes
<1>1. ASSUME NEW to, TaskStep(d, n, to),
             \/ paths'[p] = paths[p]
             \/ paths'[p] = Nobody
             \/ paths'[p] = <<d, n>>,
             p \notin contested =>
                /\ to # "not bound"
                /\ to = "bind" => paths'[p] = Nobody
                /\ to = "serve" => paths'[p] = <<d, n>>
      PROVE  DaemonIInv'
  <2>1. /\ DaemonTypes' /\ StartedWith' /\ OneUser'
        /\ \A q \in AllPaths : q # p => paths'[q] = paths[q]
        /\ \A e \in Daemons : \A m \in DOMAIN at'[e] :
             /\ e # d \/ m # n
             /\ params'[e][m].socket \notin contested'
             => /\ at'[e][m] # "not bound"
                /\ at'[e][m] = "bind" => paths'[params'[e][m].socket] = Nobody
                /\ at'[e][m] = "serve" => paths'[params'[e][m].socket] = <<e, m>>
    BY <1>1, TaskKeeps
  <2>2. /\ \A e \in Daemons : DOMAIN at'[e] = DOMAIN at[e]
        /\ at'[d][n] = to
    BY <1>0, <1>1, TaskMoved DEF TaskStep
  <2>3. UNCHANGED <<params, contested>>
    BY <1>1 DEF TaskStep, tasking
  <2>4. Listeners'
    <3> SUFFICES ASSUME NEW q \in AllPaths, paths'[q] \notin {Nobody, Stale}
                 PROVE  \E e \in Daemons : \E m \in DOMAIN at[e] :
                            paths'[q] = <<e, m>> /\ params[e][m].socket = q
      BY <2>2, <2>3 DEF Listeners
    <3>1. CASE paths'[q] = paths[q]
      BY <1>0, <3>1 DEF Listeners
    <3>2. CASE paths'[q] # paths[q]
      <4>1. q = p /\ paths'[q] = <<d, n>>
        BY <1>1, <2>1, <3>2
      <4> QED
        BY <4>1
    <3> QED
      BY <3>1, <3>2
  <2>5. PathKept'
    <3> SUFFICES ASSUME NEW e \in Daemons, NEW m \in DOMAIN at'[e],
                        params'[e][m].socket \notin contested'
                 PROVE  /\ at'[e][m] # "not bound"
                        /\ at'[e][m] = "bind" => paths'[params'[e][m].socket] = Nobody
                        /\ at'[e][m] = "serve" => paths'[params'[e][m].socket] = <<e, m>>
      BY DEF PathKept
    <3>1. CASE e = d /\ m = n
      BY <1>1, <2>2, <2>3, <3>1
    <3>2. CASE e # d \/ m # n
      BY <2>1, <3>2
    <3> QED
      BY <3>1, <3>2
  <2> QED
    BY <2>1, <2>4, <2>5 DEF DaemonIInv
<1>2. CASE ClearPath(d, n)
  <2>1. tasking /\ Active(d, n)
    BY <1>2 DEF ClearPath, Active
  <2>2. CASE Goto(d, n, "bind") /\ paths' = [paths EXCEPT ![p] = Nobody]
    <3>1. TaskStep(d, n, "bind") /\ paths'[p] = Nobody
      BY <1>0, <2>1, <2>2 DEF TaskStep, DaemonTypes
    <3> QED
      BY <1>1, <3>1
  <2>3. CASE Goto(d, n, "no directory") /\ paths' = paths
    <3>1. TaskStep(d, n, "no directory")
      BY <2>1, <2>3 DEF TaskStep
    <3> QED
      BY <1>1, <2>3, <3>1
  <2> QED
    BY <1>2, <2>2, <2>3 DEF ClearPath
<1>3. CASE BindPath(d, n)
  <2>1. tasking /\ Active(d, n) /\ at[d][n] = "bind"
    BY <1>3 DEF BindPath, Active
  <2>2. CASE paths[p] = Nobody
    <3>1. Goto(d, n, "serve") /\ paths' = [paths EXCEPT ![p] = <<d, n>>]
      BY <1>3, <2>2 DEF BindPath
    <3>2. TaskStep(d, n, "serve") /\ paths'[p] = <<d, n>>
      BY <1>0, <2>1, <3>1 DEF TaskStep, DaemonTypes
    <3> QED
      BY <1>1, <3>2
  <2>3. CASE paths[p] # Nobody
    <3>1. Goto(d, n, "not bound") /\ paths' = paths
      BY <1>3, <2>3 DEF BindPath
    <3>2. TaskStep(d, n, "not bound")
      BY <2>1, <3>1 DEF TaskStep
    <3>3. p \in contested
      BY <1>0, <2>1, <2>3 DEF PathKept
    <3> QED
      BY <1>1, <3>1, <3>2, <3>3
  <2> QED
    BY <2>2, <2>3
<1>4. CASE UnlinkPath(d, n)
  <2>1. /\ tasking /\ Active(d, n) /\ Goto(d, n, "ended")
        /\ paths' = [paths EXCEPT ![p] = Nobody]
    BY <1>4 DEF UnlinkPath, Active
  <2>2. TaskStep(d, n, "ended") /\ paths'[p] = Nobody
    BY <1>0, <2>1 DEF TaskStep, DaemonTypes
  <2> QED
    BY <1>1, <2>2
<1> QED
  BY <1>2, <1>3, <1>4

\* A second daemon that wants a path in use contests it; every other path it gets
\* is its own.
LEMMA StepLaunch ==
  ASSUME DaemonIInv, NEW d \in Daemons, NEW c \in CommandLines, NEW f \in ConfigFiles,
         Launch(d, c, f)
  PROVE  DaemonIInv'
<1> DEFINE ps == resolve_params_multi(c, f)
<1>0. DaemonTypes /\ StartedWith /\ Listeners /\ OneUser /\ PathKept
  BY DEF DaemonIInv
<1>1. process[d] = "off" /\ paths' = paths /\ DOMAIN at[d] = {} /\ process \in [Daemons -> {"off", "refused", "up", "stopping", "down"}]
  BY <1>0 DEF Launch, StartedWith, DaemonTypes
<1>2. CASE ~Starts(c, f)
  <2>1. UNCHANGED <<line, read, params, at, contested, paths>>
        /\ process' = [process EXCEPT ![d] = "refused"]
    BY <1>2 DEF Launch
  <2>2. DaemonTypes'
    BY <1>0, <2>1 DEF DaemonTypes
  <2>3. StartedWith'
    BY <1>0, <1>1, <2>1 DEF StartedWith
  <2>4. Listeners' /\ PathKept'
    BY <1>0, <2>1 DEF Listeners, PathKept
  <2>5. OneUser'
    BY <1>0, <2>1 DEF OneUser, Active
  <2> QED
    BY <2>2, <2>3, <2>4, <2>5 DEF DaemonIInv
<1>3. CASE Starts(c, f)
  <2>1. /\ params' = [params EXCEPT ![d] = ps]
        /\ at' = [at EXCEPT ![d] = [n \in DOMAIN ps |-> "clear"]]
        /\ contested' = contested \cup Contests(ps)
        /\ process' = [process EXCEPT ![d] = "up"]
        /\ line' = [line EXCEPT ![d] = c] /\ read' = [read EXCEPT ![d] = f]
    BY <1>3 DEF Launch
  <2>2. DOMAIN ps = ServicesOf(c, load_config(f)) /\ \A n \in DOMAIN ps : ps[n].socket \in AllPaths
    BY <1>3, ResolvedPath DEF resolve_params_multi
  <2>3. /\ params'[d] = ps /\ DOMAIN at'[d] = DOMAIN ps /\ \A n \in DOMAIN ps : at'[d][n] = "clear"
        /\ \A e \in Daemons : e # d => params'[e] = params[e] /\ at'[e] = at[e]
        /\ DOMAIN params' = Daemons /\ DOMAIN at' = Daemons
    BY <1>0, <2>1 DEF DaemonTypes
  <2>4. Contests(ps) \subseteq AllPaths
    BY <2>2 DEF Contests
  <2>5. DaemonTypes'
    <3>1. ASSUME NEW e \in Daemons
          PROVE  /\ DOMAIN at'[e] = DOMAIN params'[e]
                 /\ \A n \in DOMAIN at'[e] :
                     /\ at'[e][n] \in {"clear", "bind", "serve", "no directory", "not bound", "ended"}
                     /\ params'[e][n].socket \in AllPaths
      <4>1. CASE e = d
        BY <2>2, <2>3, <4>1
      <4>2. CASE e # d
        BY <1>0, <2>3, <4>2 DEF DaemonTypes
      <4> QED
        BY <4>1, <4>2
    <3>2. /\ process' \in [Daemons -> {"off", "refused", "up", "stopping", "down"}]
          /\ line' \in [Daemons -> CommandLines] /\ read' \in [Daemons -> ConfigFiles \cup {Unread}]
      BY <1>0, <2>1 DEF DaemonTypes
    <3> QED
      BY <1>0, <1>1, <2>1, <2>3, <2>4, <3>1, <3>2 DEF DaemonTypes
  <2>6. StartedWith'
    <3> SUFFICES ASSUME NEW e \in Daemons
                 PROVE  IF process'[e] \in {"off", "refused"} THEN DOMAIN at'[e] = {}
                        ELSE /\ read'[e] \in ConfigFiles /\ Starts(line'[e], read'[e])
                             /\ params'[e] = resolve_params_multi(line'[e], read'[e])
      BY DEF StartedWith
    <3>1. CASE e = d
      <4>1. process'[d] = "up" /\ line'[d] = c /\ read'[d] = f
        BY <1>0, <2>1 DEF DaemonTypes
      <4> QED
        BY <1>3, <2>3, <3>1, <4>1
    <3>2. CASE e # d
      <4>1. process'[e] = process[e] /\ line'[e] = line[e] /\ read'[e] = read[e]
        BY <1>0, <2>1, <3>2 DEF DaemonTypes
      <4> QED
        BY <1>0, <2>3, <3>2, <4>1 DEF StartedWith
    <3> QED
      BY <3>1, <3>2
  <2>7. Listeners'
    <3> SUFFICES ASSUME NEW q \in AllPaths, paths[q] \notin {Nobody, Stale}
                 PROVE  \E e \in Daemons : \E m \in DOMAIN at'[e] :
                            paths[q] = <<e, m>> /\ params'[e][m].socket = q
      BY <1>1 DEF Listeners
    <3>1. PICK e \in Daemons : \E m \in DOMAIN at[e] : paths[q] = <<e, m>> /\ params[e][m].socket = q
      BY <1>0 DEF Listeners
    <3>2. e # d
      BY <1>1, <3>1
    <3> QED
      BY <2>3, <3>1, <3>2
  <2>8. OneUser'
    <3> SUFFICES ASSUME NEW e \in Daemons, NEW g \in Daemons,
                        NEW m \in DOMAIN at'[e], NEW k \in DOMAIN at'[g],
                        Active(e, m)', Active(g, k)',
                        params'[e][m].socket = params'[g][k].socket,
                        params'[e][m].socket \notin contested'
                 PROVE  e = g /\ m = k
      BY DEF OneUser
    <3>1. ASSUME NEW n \in DOMAIN ps, ps[n].socket \notin contested'
          PROVE  /\ \A h \in Daemons \ {d} : \A j \in DOMAIN at[h] :
                       Active(h, j) => params[h][j].socket # ps[n].socket
                 /\ \A j \in DOMAIN ps : ps[j].socket = ps[n].socket => j = n
      <4>1. ps[n].socket \notin Contests(ps)
        BY <2>1, <3>1
      <4>2. ps[n].socket \notin ActivePaths /\ ~\E j \in DOMAIN ps \ {n} : ps[j].socket = ps[n].socket
        BY <4>1 DEF Contests
      <4>3. \A h \in Daemons : \A j \in DOMAIN at[h] : Active(h, j) => params[h][j].socket \in ActivePaths
        BY DEF ActivePaths
      <4> QED
        BY <4>2, <4>3
    <3>2. \A h \in Daemons \ {d} : \A j \in DOMAIN at[h] : Active(h, j)' => Active(h, j)
      BY <2>3 DEF Active
    <3>3. CASE e = d /\ g = d
      BY <2>3, <3>1, <3>3
    <3>4. CASE e = d /\ g # d
      BY <2>3, <3>1, <3>2, <3>4
    <3>5. CASE e # d /\ g = d
      BY <2>3, <3>1, <3>2, <3>5
    <3>6. CASE e # d /\ g # d
      <4>1. /\ m \in DOMAIN at[e] /\ k \in DOMAIN at[g] /\ Active(e, m) /\ Active(g, k)
            /\ params[e][m].socket = params[g][k].socket /\ params[e][m].socket \notin contested
        BY <2>1, <2>3, <3>2, <3>6
      <4> QED
        BY <1>0, <4>1 DEF OneUser
    <3> QED
      BY <3>3, <3>4, <3>5, <3>6
  <2>9. PathKept'
    <3> SUFFICES ASSUME NEW e \in Daemons, NEW m \in DOMAIN at'[e],
                        params'[e][m].socket \notin contested'
                 PROVE  /\ at'[e][m] # "not bound"
                        /\ at'[e][m] = "bind" => paths'[params'[e][m].socket] = Nobody
                        /\ at'[e][m] = "serve" => paths'[params'[e][m].socket] = <<e, m>>
      BY DEF PathKept
    <3>1. CASE e = d
      BY <2>3, <3>1
    <3>2. CASE e # d
      <4>1. m \in DOMAIN at[e] /\ at'[e][m] = at[e][m] /\ params'[e][m] = params[e][m]
            /\ params[e][m].socket \notin contested
        BY <2>1, <2>3, <3>2
      <4> QED
        BY <1>0, <1>1, <4>1 DEF PathKept
    <3> QED
      BY <3>1, <3>2
  <2> QED
    BY <2>5, <2>6, <2>7, <2>8, <2>9 DEF DaemonIInv
<1> QED
  BY <1>2, <1>3

\* Who is not there is not a daemon.
LEMMA NoDaemon == \A d \in Daemons : Nobody[1] # d /\ Stale[1] # d
<1>1. Nobody[1] = "nobody" /\ Stale[1] = "stale"
  BY DEF Nobody, Stale
<1>2. {"nobody", "stale"} \cap Daemons = {}
  BY DaemonAssumption
<1>3. "nobody" \notin Daemons /\ "stale" \notin Daemons
  BY <1>2
<1> QED
  BY <1>1, <1>3

\* A daemon that is told to stop, and one that is killed: what it listened at is
\* stale, and every other path is as it was.
LEMMA StepEnds ==
  ASSUME DaemonIInv, NEW d \in Daemons, Stop(d) \/ Kill(d)
  PROVE  DaemonIInv'
<1>0. DaemonTypes /\ StartedWith /\ Listeners /\ OneUser /\ PathKept
  BY DEF DaemonIInv
<1>1. CASE Stop(d)
  <2>1. UNCHANGED <<line, read, params, at, contested, paths>>
        /\ process[d] = "up" /\ process' = [process EXCEPT ![d] = "stopping"]
    BY <1>1 DEF Stop
  <2>2. DaemonTypes'
    BY <1>0, <2>1 DEF DaemonTypes
  <2>3. StartedWith'
    <3>1. \A e \in Daemons : process'[e] = process[e] \/ (e = d /\ process'[e] = "stopping")
      BY <1>0, <2>1 DEF DaemonTypes
    <3> QED
      BY <1>0, <2>1, <3>1 DEF StartedWith
  <2>4. Listeners' /\ PathKept'
    BY <1>0, <2>1 DEF Listeners, PathKept
  <2>5. OneUser'
    BY <1>0, <2>1 DEF OneUser, Active
  <2> QED
    BY <2>2, <2>3, <2>4, <2>5 DEF DaemonIInv
<1>2. CASE Kill(d)
  <2>1. /\ process[d] \in {"up", "stopping"} /\ process' = [process EXCEPT ![d] = "down"]
        /\ at' = [at EXCEPT ![d] = [n \in DOMAIN at[d] |-> "ended"]]
        /\ paths' = [q \in AllPaths |-> IF paths[q][1] = d THEN Stale ELSE paths[q]]
        /\ UNCHANGED <<line, read, params, contested>>
    BY <1>2 DEF Kill
  <2>2. /\ DOMAIN at' = Daemons /\ DOMAIN paths' = AllPaths
        /\ \A e \in Daemons : DOMAIN at'[e] = DOMAIN at[e]
        /\ \A n \in DOMAIN at[d] : at'[d][n] = "ended"
        /\ \A e \in Daemons : e # d => at'[e] = at[e]
    BY <1>0, <2>1 DEF DaemonTypes
  <2>3. \A q \in AllPaths : /\ paths[q][1] = d => paths'[q] = Stale
                            /\ paths[q][1] # d => paths'[q] = paths[q]
    BY <2>1
  <2>4. DaemonTypes'
    <3>1. ASSUME NEW e \in Daemons, NEW n \in DOMAIN at'[e]
          PROVE  at'[e][n] \in {"clear", "bind", "serve", "no directory", "not bound", "ended"}
      <4>1. CASE e = d
        BY <2>2, <3>1, <4>1
      <4>2. CASE e # d
        <5>1. at'[e] = at[e]
          BY <2>2, <4>2
        <5> QED
          BY <1>0, <3>1, <5>1 DEF DaemonTypes
      <4> QED
        BY <4>1, <4>2
    <3>2. process' \in [Daemons -> {"off", "refused", "up", "stopping", "down"}]
      BY <1>0, <2>1 DEF DaemonTypes
    <3> QED
      BY <1>0, <2>1, <2>2, <3>1, <3>2 DEF DaemonTypes
  <2>5. StartedWith'
    <3>1. \A e \in Daemons : process'[e] = process[e] \/ (e = d /\ process'[e] = "down")
      BY <1>0, <2>1 DEF DaemonTypes
    <3> QED
      BY <1>0, <2>1, <2>2, <3>1 DEF StartedWith
  <2>6. Listeners'
    <3> SUFFICES ASSUME NEW q \in AllPaths, paths'[q] \notin {Nobody, Stale}
                 PROVE  \E e \in Daemons : \E m \in DOMAIN at'[e] :
                            paths'[q] = <<e, m>> /\ params'[e][m].socket = q
      BY DEF Listeners
    <3>1. paths'[q] = paths[q]
      BY <2>3
    <3>2. PICK e \in Daemons : \E m \in DOMAIN at[e] : paths[q] = <<e, m>> /\ params[e][m].socket = q
      BY <1>0, <3>1 DEF Listeners
    <3> QED
      BY <2>1, <2>2, <3>1, <3>2
  <2>7. \A e \in Daemons : \A m \in DOMAIN at[e] : Active(e, m)' => e # d /\ Active(e, m)
    BY <2>2 DEF Active
  <2>8. OneUser'
    BY <1>0, <2>1, <2>2, <2>7 DEF OneUser
  <2>9. PathKept'
    <3> SUFFICES ASSUME NEW e \in Daemons, NEW m \in DOMAIN at'[e],
                        params'[e][m].socket \notin contested'
                 PROVE  /\ at'[e][m] # "not bound"
                        /\ at'[e][m] = "bind" => paths'[params'[e][m].socket] = Nobody
                        /\ at'[e][m] = "serve" => paths'[params'[e][m].socket] = <<e, m>>
      BY DEF PathKept
    <3>1. CASE e = d
      BY <2>2, <3>1
    <3>2. CASE e # d
      <4>1. m \in DOMAIN at[e] /\ at'[e][m] = at[e][m] /\ params'[e][m] = params[e][m]
            /\ params[e][m].socket \notin contested /\ params[e][m].socket \in AllPaths
        BY <1>0, <2>1, <2>2, <3>2 DEF DaemonTypes
      <4> DEFINE q == params[e][m].socket
      <4>2. CASE at[e][m] = "bind"
        <5>1. paths[q] = Nobody
          BY <1>0, <4>1, <4>2 DEF PathKept
        <5>2. paths[q][1] # d
          BY <5>1, NoDaemon
        <5>3. paths'[q] = paths[q]
          BY <2>3, <4>1, <5>2
        <5> QED
          BY <4>1, <4>2, <5>1, <5>3
      <4>3. CASE at[e][m] = "serve"
        <5>1. paths[q] = <<e, m>>
          BY <1>0, <4>1, <4>3 DEF PathKept
        <5>2. paths[q][1] # d
          BY <3>2, <5>1
        <5>3. paths'[q] = paths[q]
          BY <2>3, <4>1, <5>2
        <5> QED
          BY <4>1, <4>3, <5>1, <5>3
      <4>4. at[e][m] # "not bound"
        BY <1>0, <4>1 DEF PathKept
      <4> QED
        BY <4>1, <4>2, <4>3, <4>4
    <3> QED
      BY <3>1, <3>2
  <2> QED
    BY <2>4, <2>5, <2>6, <2>8, <2>9 DEF DaemonIInv
<1> QED
  BY <1>1, <1>2

\* Nothing runs, and nobody listens, at first.
LEMMA DaemonStarts == DaemonInit => DaemonIInv
<1> SUFFICES ASSUME DaemonInit PROVE DaemonIInv
  OBVIOUS
<1>1. /\ process = [d \in Daemons |-> "off"] /\ read = [d \in Daemons |-> Unread]
      /\ line = [d \in Daemons |-> CHOOSE c \in CommandLines : TRUE]
      /\ params = [d \in Daemons |-> <<>>] /\ at = [d \in Daemons |-> <<>>]
      /\ paths = [p \in AllPaths |-> Nobody] /\ contested = {}
  BY DEF DaemonInit
<1>2. DOMAIN <<>> = {}
  OBVIOUS
<1>3. \A d \in Daemons : DOMAIN at[d] = {} /\ DOMAIN params[d] = {} /\ process[d] = "off"
  BY <1>1, <1>2
<1>4. (CHOOSE c \in CommandLines : TRUE) \in CommandLines
  BY DaemonAssumption
<1>5. line \in [Daemons -> CommandLines]
  BY <1>1, <1>4
<1>6. process \in [Daemons -> {"off", "refused", "up", "stopping", "down"}]
      /\ read \in [Daemons -> ConfigFiles \cup {Unread}]
  BY <1>1
<1>7. DOMAIN params = Daemons /\ DOMAIN at = Daemons
      /\ DOMAIN paths = AllPaths /\ contested \subseteq AllPaths
  BY <1>1
<1>8. DaemonTypes
  BY <1>3, <1>5, <1>6, <1>7 DEF DaemonTypes
<1>9. Listeners
  BY <1>1 DEF Listeners
<1>10. StartedWith /\ OneUser /\ PathKept
  BY <1>3 DEF StartedWith, OneUser, PathKept
<1> QED
  BY <1>8, <1>9, <1>10 DEF DaemonIInv

\* The inductive invariant: a path that two tasks have not used at one time is
\* free for the one that will bind it and stays with the one that has, and a
\* daemon runs what its command line and its file come to
\* (run_mux_internal_with_status, async_main).
THEOREM DaemonCorrect == DaemonSpec => []DaemonIInv
<1>1. ASSUME DaemonIInv, UNCHANGED daemonVars PROVE DaemonIInv'
  <2>0. DaemonTypes /\ StartedWith /\ Listeners /\ OneUser /\ PathKept
    BY <1>1 DEF DaemonIInv
  <2>1. UNCHANGED <<process, line, read, params, at, paths, contested>>
    BY <1>1 DEF daemonVars
  <2>2. DaemonTypes'
    BY <2>0, <2>1 DEF DaemonTypes
  <2>3. StartedWith'
    BY <2>0, <2>1 DEF StartedWith
  <2>4. Listeners' /\ PathKept'
    BY <2>0, <2>1 DEF Listeners, PathKept
  <2>5. OneUser'
    BY <2>0, <2>1 DEF OneUser, Active
  <2> QED
    BY <2>2, <2>3, <2>4, <2>5 DEF DaemonIInv
<1>2. DaemonIInv /\ [DaemonNext]_daemonVars => DaemonIInv'
  BY <1>1, DaemonCases, StepLaunch, StepTasks, StepEnds
<1> QED
  BY <1>2, DaemonStarts, PTL DEF DaemonSpec

\* Every daemon is in a known state, and every task has a path of the
\* configuration (DaemonTypeOK).
THEOREM DaemonsTyped == DaemonSpec => []DaemonTypeOK
<1>1. DaemonIInv => DaemonTypeOK
  <2> SUFFICES ASSUME DaemonIInv PROVE DaemonTypeOK
    OBVIOUS
  <2>1. \A p \in AllPaths : paths[p] \in {Nobody, Stale} \/ paths[p][2] \in DOMAIN at[paths[p][1]]
    BY DEF DaemonIInv, Listeners
  <2> QED
    BY <2>1 DEF DaemonIInv, DaemonTypes, DaemonTypeOK
<1> QED
  BY <1>1, DaemonCorrect, PTL

\* Whatever the daemons, the command lines and the files, a service whose path
\* no other task has used at the same time gets it and is the one clients reach
\* there (ServiceReachable): what a killed daemon left is removed before the bind,
\* and nobody else unlinks it (run_mux_internal_with_status of runtime/mod.rs).
THEOREM ServicesReached == DaemonSpec => []ServiceReachable
<1>1. DaemonIInv => ServiceReachable
  BY DEF DaemonIInv, PathKept, ServiceReachable
<1> QED
  BY <1>1, DaemonCorrect, PTL

\* Whatever the file and the command line without --socket and --cmd, whoever
\* listens at the socket that one entry of the file has runs that entry's command,
\* and the filters let it, or --service names it (ConfiguredReached): what a daemon
\* runs is resolve_params_multi of what it read (async_main, config.rs).
THEOREM EntriesReached == DaemonSpec => []ConfiguredReached
<1>1. DaemonIInv => ConfiguredReached
  <2> SUFFICES ASSUME DaemonIInv, NEW d \in Daemons, line[d].socket = Unset, line[d].cmd = Unset,
                      NEW m \in DOMAIN read[d].servers,
                      read[d].servers[m].socket \in AllPaths,
                      paths[read[d].servers[m].socket][1] = d,
                      \A k \in DOMAIN read[d].servers \ {m} :
                          read[d].servers[k].socket # read[d].servers[m].socket
               PROVE  /\ params[d][paths[read[d].servers[m].socket][2]].cmd = read[d].servers[m].cmd
                      /\ \/ line[d].service = m
                         \/ /\ line[d].service = Unset
                            /\ \A names \in line[d].only : m \in names
                            /\ \A names \in line[d].except : m \notin names
    BY DEF ConfiguredReached
  <2> DEFINE q == read[d].servers[m].socket
  <2>1. paths[q] \notin {Nobody, Stale}
    BY NoDaemon
  <2>2. PICK e \in Daemons : \E n \in DOMAIN at[e] : paths[q] = <<e, n>> /\ params[e][n].socket = q
    BY <2>1 DEF DaemonIInv, Listeners
  <2>3. PICK n \in DOMAIN at[d] : paths[q][2] = n /\ params[d][n].socket = q
    BY <2>2
  <2>4. /\ read[d] \in ConfigFiles /\ Starts(line[d], read[d])
        /\ params[d] = resolve_params_multi(line[d], read[d])
    BY <2>3 DEF DaemonIInv, StartedWith
  <2>5. line[d] \in CommandLines /\ n \in ServicesOf(line[d], load_config(read[d]))
    BY <2>3, <2>4 DEF DaemonIInv, DaemonTypes, resolve_params_multi
  <2>6. /\ n \in DOMAIN read[d].servers
        /\ params[d][n].socket = read[d].servers[n].socket
        /\ params[d][n].cmd = read[d].servers[n].cmd
        /\ \/ line[d].service = n
           \/ /\ line[d].service = Unset
              /\ \A names \in line[d].only : n \in names
              /\ \A names \in line[d].except : n \notin names
    BY <2>4, <2>5, ResolvedEntry
  <2>7. n = m
    BY <2>3, <2>6
  <2> QED
    BY <2>3, <2>6, <2>7
<1> QED
  BY <1>1, DaemonCorrect, PTL

(***************************************************************************)
(* The instance: a behaviour of it is one of each part.                    *)
(***************************************************************************)

\* The proxy counts no more requests than the client may send (ProxyTypeOK):
\* pending_requests is incremented once for each request read (run_proxy).
THEOREM ProxyTyped == ProxySpec => []ProxyTypeOK
<1>1. ProxyIInv => ProxyTypeOK
  <2> SUFFICES ASSUME ProxyIInv PROVE ProxyTypeOK
    OBVIOUS
  <2>1. pending_requests \in Nat /\ asked \in 0..MaxRequests
        /\ pending_requests + Cardinality(NotRead) <= asked
    BY DEF ProxyIInv, ProxyTypes, PendingRead
  <2>2. NotRead \in SUBSET (1..MaxRequests)
    BY DEF NotRead
  <2>3. Cardinality(NotRead) \in Nat
    BY <2>2, NumbersFinite
  <2>4. pending_requests \in 0..MaxRequests
    BY <2>1, <2>3, ProxyAssumption
  <2> QED
    BY <2>4 DEF ProxyIInv, ProxyTypes, ProxyFlags, ProxyTypeOK
<1> QED
  BY <1>1, ProxyCorrect, PTL

\* Every behaviour of the instance is, seen from each part, a behaviour of that
\* part, so what is proved of the parts holds of the instance, whatever its
\* constants (ControlSocket, StdioProxy, DaemonStart).
THEOREM PartsOfTheInstance == MCSpec => ControlSpec /\ ProxySpec /\ DaemonSpec
<1>1. MCInit => PublishInit /\ ControlInit /\ ProxyInit /\ DaemonInit
  BY DEF MCInit
<1>2. [MCNext]_allVars => /\ [ControlNext]_<<publishVars, controlVars>>
                          /\ [ProxyNext]_proxyVars /\ [DaemonNext]_daemonVars
  <2>1. CASE InControl(ControlNext)
    BY <2>1 DEF InControl
  <2>2. CASE InProxy(ProxyNext)
    BY <2>2 DEF InProxy
  <2>3. CASE InDaemons(DaemonNext)
    BY <2>3 DEF InDaemons
  <2>4. CASE UNCHANGED allVars
    BY <2>4 DEF allVars
  <2> QED
    BY <2>1, <2>2, <2>3, <2>4 DEF MCNext
<1> QED
  BY <1>1, <1>2, PTL DEF MCSpec, ControlSpec, ProxySpec, DaemonSpec

\* Every state of the instance is typed, and no service serves more connections
\* than MAX_CONCURRENT (TypeOK): the accept loop of run_server (ipc/server.rs) takes
\* a permit before it serves.
THEOREM InstanceTyped == MCSpec => []TypeOK
  BY PartsOfTheInstance, ControlTypes, ProxyTyped, DaemonsTyped, PTL DEF TypeOK

=============================================================================
