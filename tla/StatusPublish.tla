--------------------------- MODULE StatusPublish ----------------------------
(***************************************************************************)
(* How one service of the mux tells the world its state: publish_status    *)
(* (mux-agent/src/state.rs), the watch channel, the broadcast channel and  *)
(* the task that keeps the status file (runtime/status.rs).  Many tasks    *)
(* change the state and publish it; a snapshot is the number of the state  *)
(* it was taken of.                                                        *)
(***************************************************************************)
EXTENDS Naturals, Sequences, FiniteSets

CONSTANTS
    Tasks,        \* the tasks of the service that publish
    MaxVersions   \* bound: changes of the state

ASSUME PublishAssumption == IsFiniteSet(Tasks) /\ MaxVersions \in Nat

VARIABLES
    version,    \* the state, as the number of changes made to it
    task,       \* where each task is
    snap,       \* the snapshot each task took
    log,        \* what was sent into the broadcast channel, oldest first
    watched,    \* the value of the watch channel
    unseen,     \* the file writer has not looked at it
    writer,     \* where the file writer is
    current,    \* the snapshot it is writing
    file,       \* the snapshot in the status file
    failed,     \* its last write failed
    newest      \* the newest snapshot sent into the watch channel (history)

publishVars == <<version, task, snap, log, watched, unseen, writer, current,
                 file, failed, newest>>
writerVars  == <<writer, current, file, failed>>

None == MaxVersions + 1

\* The writer starts by writing the initial snapshot.
PublishInit ==
    /\ version = 0 /\ task = [t \in Tasks |-> "idle"] /\ snap = [t \in Tasks |-> 0]
    /\ log = <<>> /\ watched = 0 /\ unseen = FALSE /\ newest = 0
    /\ writer = "tmp" /\ current = 0 /\ file = None /\ failed = FALSE

\* The daemon ends, killed or stopped, and another starts.  Only the file stays.
PublishRestart ==
    /\ version' = 0 /\ task' = [t \in Tasks |-> "idle"] /\ snap' = [t \in Tasks |-> 0]
    /\ log' = <<>> /\ watched' = 0 /\ unseen' = FALSE /\ newest' = 0
    /\ writer' = "tmp" /\ current' = 0 /\ failed' = FALSE
    /\ UNCHANGED file

\* A task changes the state in a critical section and will publish it.
ChangeState(t) ==
    /\ task[t] = "idle" /\ version < MaxVersions
    /\ version' = version + 1
    /\ task' = [task EXCEPT ![t] = "publish"]
    /\ UNCHANGED <<snap, log, watched, unseen, newest>> /\ UNCHANGED writerVars

\* publish_status, under the lock: the snapshot is taken and the event sent.
Snapshot(t) ==
    /\ task[t] = "publish"
    /\ snap' = [snap EXCEPT ![t] = version]
    /\ log' = Append(log, version)
    /\ task' = [task EXCEPT ![t] = "send"]
    /\ UNCHANGED <<version, watched, unseen, newest>> /\ UNCHANGED writerVars

\* publish_status, after the lock: the snapshot goes into the watch channel.
Send(t) ==
    /\ task[t] = "send"
    /\ watched' = snap[t] /\ unseen' = TRUE /\ newest' = IF snap[t] > newest THEN snap[t] ELSE newest
    /\ task' = [task EXCEPT ![t] = "idle"]
    /\ UNCHANGED <<version, snap, log>> /\ UNCHANGED writerVars

\* spawn_status_writer: changed() marks the value seen, then it is borrowed.
WriterTakes ==
    /\ writer = "idle" /\ unseen
    /\ current' = watched /\ unseen' = FALSE /\ writer' = "tmp"
    /\ UNCHANGED <<version, task, snap, log, watched, file, failed, newest>>

\* write_status_file: the temporary file, which nobody reads.
WriteTmp ==
    /\ writer = "tmp" /\ writer' = "rename"
    /\ UNCHANGED <<version, task, snap, log, watched, unseen, current, file, failed, newest>>

\* Faulty variant: the value is marked seen when it has been written.
RenameMarks ==
    /\ writer = "rename" /\ file' = current /\ failed' = FALSE /\ unseen' = FALSE
    /\ writer' = "idle"
    /\ UNCHANGED <<version, task, snap, log, watched, current, newest>>

\* The temporary file replaces the status file.
Rename ==
    /\ writer = "rename" /\ file' = current /\ failed' = FALSE /\ writer' = "idle"
    /\ UNCHANGED <<version, task, snap, log, watched, unseen, current, newest>>

\* Either step may fail; the snapshot is lost, the next change is written.
WriteFails ==
    /\ writer \in {"tmp", "rename"} /\ failed' = TRUE /\ writer' = "idle"
    /\ UNCHANGED <<version, task, snap, log, watched, unseen, current, file, newest>>

\* Faulty variant: the event is sent after the lock too.
PublishUnlocked(t) ==
    /\ \/ /\ task[t] = "publish" /\ task' = [task EXCEPT ![t] = "send"]
          /\ snap' = [snap EXCEPT ![t] = version] /\ UNCHANGED <<log, watched, unseen, newest>>
       \/ /\ task[t] = "send" /\ task' = [task EXCEPT ![t] = "idle"]
          /\ log' = Append(log, snap[t]) /\ watched' = snap[t] /\ unseen' = TRUE
          /\ UNCHANGED <<snap, newest>>
    /\ UNCHANGED version /\ UNCHANGED writerVars

Publish(t) == Snapshot(t) \/ Send(t)

WriteStatus == WriterTakes \/ WriteTmp \/ Rename

PublishNext ==
    \/ \E t \in Tasks : ChangeState(t) \/ Publish(t)
    \/ WriteStatus \/ WriteFails

PublishTypeOK ==
    /\ version \in 0..MaxVersions
    /\ task \in [Tasks -> {"idle", "publish", "send"}]
    /\ snap \in [Tasks -> 0..MaxVersions]
    /\ log \in Seq(0..MaxVersions)
    /\ watched \in 0..MaxVersions /\ current \in 0..MaxVersions /\ file \in 0..None
    /\ writer \in {"idle", "tmp", "rename"}
    /\ unseen \in BOOLEAN /\ failed \in BOOLEAN /\ newest \in 0..MaxVersions

AtRest == (\A t \in Tasks : task[t] = "idle") /\ writer = "idle" /\ ~unseen

\* When no task publishes and the writer has nothing to do, the status file has
\* the state as it is, unless the last write failed or the last snapshot was
\* overtaken by a newer one on its way into the watch channel, for which
\* nothing makes up before the next change (spawn_status_writer, publish_status).
FileFresh == AtRest /\ ~failed /\ watched = newest => file = version

\* The events reach the broadcast channel in the order of the states they tell
\* of, since they are sent under the lock, and the last one is of the state as
\* it is once every task has published: a subscriber is not left with an old
\* state, as a reader of the watch channel may be.
EventsInOrder ==
    /\ \A i \in 1..Len(log) - 1 : log[i] <= log[i + 1]
    /\ (\A t \in Tasks : task[t] = "idle") /\ version > 0 => log # <<>> /\ log[Len(log)] = version

=============================================================================
