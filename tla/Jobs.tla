-------------------------------- MODULE Jobs --------------------------------
(***************************************************************************)
(* The administrative job registry of aede-server (jobs.rs), the workers   *)
(* that run accepted jobs, the bodyless synchronous scan that shares their *)
(* admission (admin.rs), cancellation, forced stop and the shutdown drain  *)
(* (runtime.rs).                                                           *)
(*                                                                         *)
(* One action is one critical section of the registry's mutex, or one      *)
(* stretch of a worker between two awaits.  What a command does is outside *)
(* src/aede-server: it returns any exit code, an error, or panics.         *)
(***************************************************************************)
EXTENDS Integers, FiniteSets, Sequences

CONSTANTS
  Handler,      \* HTTP handlers that can submit a job at the same time
  ScanWorker,   \* bodyless scan requests that can be in flight
  Requested,    \* the kinds of job that clients submit
  HasControl,   \* the server was started with a DesktopControl
  MaxTaskId,    \* bound of this model: task ids handed out
  MaxFiles,     \* bound of this model: files of an album check
  MaxActive,    \* MAX_ACTIVE
  MaxRetained   \* MAX_RETAINED

TaskId == 1..MaxTaskId

Generation == "library_generation"   \* any kind that starts with this prefix
Mood       == "mood_features"
Check      == "album_decode_test"
Scan       == "scan"
Fetch      == "identification"       \* analysis and spectrum behave alike
Kind == {Generation, Mood, Check, Scan, Fetch}

ASSUME JobsAssumption ==
  /\ Requested \subseteq Kind
  /\ HasControl \in BOOLEAN
  /\ MaxTaskId \in Nat
  /\ MaxFiles \in Nat
  /\ MaxActive \in Nat \ {0}
  /\ MaxRetained \in Nat
  /\ MaxActive <= MaxRetained
  /\ IsFiniteSet(ScanWorker)
  /\ ScanWorker \cap TaskId = {}

\* How a command ends: exit code 0, another code, 130, or an Err (also a panic).
Outcome == {"success", "failure", "interrupted", "error"}

VARIABLES
  tasks,         \* RegistryData.tasks; status "absent" where there is no record
  active,        \* RegistryData.active
  nextTaskId,    \* ApiState.next_task_id
  handler,       \* the id and kind a handler holds between fetch_add and insert
  worker,        \* per task id, the run_job (or mood) future
  scan,          \* per bodyless scan: its blocking worker, its waiter, its id
  scanActivity,  \* ScanActivity
  events,        \* per task id, the lifecycle notifications broadcast so far
  phase,         \* the server: serving, draining, then the wait_for_jobs loop
  notified,      \* the Notified future that wait_for_jobs holds has been woken
  closed,        \* the owner asked for a stop (signal, end of lease, control)
  forced         \* DesktopControl.forced

vars == <<tasks, active, nextTaskId, handler, worker, scan, scanActivity,
          events, phase, notified, closed, forced>>
-----------------------------------------------------------------------------
Absent == [status |-> "absent", kind |-> "none", cancel |-> FALSE,
           progress |-> 0, partial |-> 0, result |-> "none", error |-> "none"]

\* The record RegistryData keeps; cancel is both cancel_requested and the
\* cancellation flag, which are only ever set together, under the mutex.
Task == [status : {"absent", "queued", "running", "completed", "failed", "cancelled"},
         kind : Kind \cup {"none"},
         cancel : BOOLEAN,
         progress : 0..MaxFiles,
         partial : 0..MaxFiles,
         result : (Outcome \ {"error"}) \cup {"none"},
         error : {"none", "task_cancelled", "command_failed"}]

NoRequest == [id |-> 0, kind |-> "none"]
Request   == [id : TaskId, kind : Kind]

Idle == [at |-> "none", kind |-> "none", outcome |-> "none", guard |-> FALSE]

\* at: queued by tokio::spawn; announced as started; inside the command; back
\* from it; catalog refreshed; record final but not announced; ended.
Worker == [at : {"none", "spawned", "started", "command", "returned",
                 "refreshed", "announcing", "done"},
           kind : Kind \cup {"none"},
           outcome : Outcome \cup {"none", "completed", "failed", "cancelled"},
           guard : BOOLEAN]

NoScan == [at |-> "idle", waiter |-> FALSE, id |-> 0]
ScanState == [at : {"idle", "reserved", "scanning", "publishing"},
              waiter : BOOLEAN, id : TaskId \cup {0}]

Terminal(status) == status \in {"completed", "failed", "cancelled"}
Live(id)         == tasks[id].status \in {"queued", "running"}
Retained         == {id \in TaskId : tasks[id].status # "absent"}
Finished         == {id \in TaskId : Terminal(tasks[id].status)}
LiveTasks        == {id \in TaskId : Live(id)}
Reserved         == {s \in ScanWorker : scan[s].at # "idle"}
Holders          == LiveTasks \cup Reserved

\* Mutated form: generation asks the records, where a bodyless scan has none.
Admissible_ByRecords(kind) ==
  /\ kind = Generation => LiveTasks = {}
  /\ \A id \in TaskId : tasks[id].kind = Generation => ~Live(id)
  /\ kind = Mood => \A id \in TaskId : tasks[id].kind = Mood => ~Live(id)
  /\ active < MaxActive

\* RegistryData::admit, the guard; the caller adds one to active.
Admissible(kind) ==
  /\ kind = Generation => active = 0
  /\ \A id \in TaskId : tasks[id].kind = Generation => ~Live(id)
  /\ kind = Mood => \A id \in TaskId : tasks[id].kind = Mood => ~Live(id)
  /\ active < MaxActive

\* Mutated form: only a future that is being awaited is woken.
NotifyWaiters_Parked == notified' = (notified \/ phase = "parked")

\* Notify::notify_waiters wakes the Notified futures that exist, polled or not.
NotifyWaiters == notified' = (notified \/ phase \in {"checking", "counted", "parked"})

\* Mutated forms: an admission released twice, and one never released.
Release_Twice == active' = active - 2 /\ NotifyWaiters
Release_Never == active' = active /\ NotifyWaiters

Release == active' = active - 1 /\ NotifyWaiters

Announce(id, event) == events' = [events EXCEPT ![id] = Append(@, event)]
-----------------------------------------------------------------------------
Init ==
  /\ tasks = [id \in TaskId |-> Absent]
  /\ active = 0
  /\ nextTaskId = 1
  /\ handler = [h \in Handler |-> NoRequest]
  /\ worker = [id \in TaskId |-> Idle]
  /\ scan = [s \in ScanWorker |-> NoScan]
  /\ scanActivity = 0
  /\ events = [id \in TaskId |-> <<>>]
  /\ phase = "serving"
  /\ notified = FALSE
  /\ closed = FALSE
  /\ forced = FALSE

(***************************************************************************)
(* Submission: next_task_id.fetch_add is not under the registry's mutex,   *)
(* so ids may be inserted out of order, and a refusal burns its id.        *)
(***************************************************************************)
TakeTaskId(h, kind) ==
  /\ phase = "serving"
  /\ handler[h] = NoRequest
  /\ nextTaskId <= MaxTaskId
  /\ handler' = [handler EXCEPT ![h] = [id |-> nextTaskId, kind |-> kind]]
  /\ nextTaskId' = nextTaskId + 1
  /\ UNCHANGED <<tasks, active, worker, scan, scanActivity, events, phase,
                 notified, closed, forced>>

\* Mutated form: room is made at the cost of the oldest record, finished or not.
Evicted_AnyRecord ==
  IF Cardinality(Retained) >= MaxRetained
  THEN {id \in Retained : \A other \in Retained : id <= other}
  ELSE {}

\* The oldest finished record, once the registry is full.
Evicted ==
  IF Cardinality(Retained) >= MaxRetained
  THEN {id \in Finished : \A other \in Finished : id <= other}
  ELSE {}

Queued(kind) == [Absent EXCEPT !.status = "queued", !.kind = kind]

Insert(h) ==
  /\ handler[h] # NoRequest
  /\ Admissible(handler[h].kind)
  /\ active' = active + 1
  /\ tasks' = [id \in TaskId |-> IF id = handler[h].id THEN Queued(handler[h].kind)
                                 ELSE IF id \in Evicted THEN Absent
                                 ELSE tasks[id]]
  /\ worker' = [worker EXCEPT ![handler[h].id] =
                  [Idle EXCEPT !.at = "spawned", !.kind = handler[h].kind]]
  /\ handler' = [handler EXCEPT ![h] = NoRequest]
  /\ UNCHANGED <<nextTaskId, scan, scanActivity, events, phase, notified,
                 closed, forced>>

Refuse(h) ==
  /\ handler[h] # NoRequest
  /\ ~Admissible(handler[h].kind)
  /\ handler' = [handler EXCEPT ![h] = NoRequest]
  /\ UNCHANGED <<tasks, active, nextTaskId, worker, scan, scanActivity, events,
                 phase, notified, closed, forced>>

\* POST /tasks/:id/cancel; 404 and 409 answers change nothing.
Cancel(id) ==
  /\ phase \in {"serving", "draining"}
  /\ Live(id)
  /\ tasks' = [tasks EXCEPT ![id].cancel = TRUE]
  /\ UNCHANGED <<active, nextTaskId, handler, worker, scan, scanActivity,
                 events, phase, notified, closed, forced>>
-----------------------------------------------------------------------------
(***************************************************************************)
(* The worker of an accepted job.                                          *)
(***************************************************************************)
MarkRunning(id) ==
  tasks' = IF id \in Retained THEN [tasks EXCEPT ![id].status = "running"]
                              ELSE tasks

StartJob(id) ==
  /\ worker[id].at = "spawned"
  /\ worker[id].kind # Mood
  /\ MarkRunning(id)
  /\ worker' = [worker EXCEPT ![id].at = "started"]
  /\ Announce(id, "started")
  /\ UNCHANGED <<active, nextTaskId, handler, scan, scanActivity, phase,
                 notified, closed, forced>>

\* The blocking closure: the scan guard, then the cancellation flag, then the
\* command, which is skipped when cancellation came first.
BeginCommand(id) ==
  /\ worker[id].at = "started"
  /\ LET isScan == worker[id].kind = Scan IN
     /\ scanActivity' = IF isScan THEN scanActivity + 1 ELSE scanActivity
     /\ worker' = [worker EXCEPT
          ![id].guard = isScan,
          ![id].at = IF tasks[id].cancel THEN "returned" ELSE "command",
          ![id].outcome = IF tasks[id].cancel THEN "interrupted" ELSE @]
  /\ UNCHANGED <<tasks, active, nextTaskId, handler, scan, events, phase,
                 notified, closed, forced>>

\* enqueue_background runs everything in the blocking thread and has no flag
\* check of its own: the extraction looks at it.
StartMood(id) ==
  /\ worker[id].at = "spawned"
  /\ worker[id].kind = Mood
  /\ MarkRunning(id)
  /\ worker' = [worker EXCEPT ![id].at = "command"]
  /\ Announce(id, "started")
  /\ UNCHANGED <<active, nextTaskId, handler, scan, scanActivity, phase,
                 notified, closed, forced>>

\* jobs::progress: one more file; without its record the extraction fails.
MoodProgress(id) ==
  /\ worker[id].at = "command"
  /\ worker[id].kind = Mood
  /\ IF id \in Retained
     THEN /\ tasks[id].progress < MaxFiles
          /\ tasks' = [tasks EXCEPT ![id].progress = @ + 1]
          /\ worker' = worker
     ELSE /\ worker' = [worker EXCEPT ![id].at = "refreshed", ![id].outcome = "error"]
          /\ tasks' = tasks
  /\ UNCHANGED <<active, nextTaskId, handler, scan, scanActivity, events,
                 phase, notified, closed, forced>>

\* Mutated form: a late snapshot is accepted whatever the status.
SnapshotAccepted_Late(id, files) ==
  tasks[id].kind = Check /\ files > tasks[id].partial

SnapshotAccepted(id, files) ==
  /\ tasks[id].status = "running"
  /\ tasks[id].kind = Check
  /\ files > tasks[id].partial

\* CheckRequest::report: the reader thread of a check publishes a snapshot of
\* the files decoded so far; it may run late, after the command returned.
ReportSnapshot(id, files) ==
  /\ worker[id].kind = Check
  /\ worker[id].at \in {"command", "returned", "refreshed", "announcing", "done"}
  /\ SnapshotAccepted(id, files)
  /\ tasks' = [tasks EXCEPT ![id].partial = files]
  /\ UNCHANGED <<active, nextTaskId, handler, worker, scan, scanActivity,
                 events, phase, notified, closed, forced>>

\* A mood worker has no catalog to refresh and goes straight to finish.  A
\* command that panics loses its scan guard while unwinding.
ReturnCommand(id, outcome) ==
  /\ worker[id].at = "command"
  /\ \E panicked \in (IF outcome = "error" THEN BOOLEAN ELSE {FALSE}) :
       LET unguard == panicked /\ worker[id].guard IN
       /\ scanActivity' = IF unguard THEN scanActivity - 1 ELSE scanActivity
       /\ worker' = [worker EXCEPT
            ![id].at = IF worker[id].kind = Mood THEN "refreshed" ELSE "returned",
            ![id].outcome = outcome,
            ![id].guard = @ /\ ~unguard]
  /\ UNCHANGED <<tasks, active, nextTaskId, handler, scan, events, phase,
                 notified, closed, forced>>

\* Mutated form: publication waits until this is the only admitted work.
Refreshed_Alone(id) ==
  /\ worker[id].at = "returned"
  /\ active = 1
  /\ worker' = [worker EXCEPT ![id].at = "refreshed"]
  /\ UNCHANGED <<tasks, active, nextTaskId, handler, scan, scanActivity,
                 events, phase, notified, closed, forced>>

\* The refreshing phase awaits refresh_catalog (module CatalogReload).
Refreshed(id) ==
  /\ worker[id].at = "returned"
  /\ worker' = [worker EXCEPT ![id].at = "refreshed"]
  /\ UNCHANGED <<tasks, active, nextTaskId, handler, scan, scanActivity,
                 events, phase, notified, closed, forced>>

FinalStatus(outcome, cancel) ==
  CASE outcome = "interrupted" /\ cancel -> "cancelled"
    [] outcome = "success" -> "completed"
    [] OTHER -> "failed"

FinalRecord(task, outcome) ==
  LET status == FinalStatus(outcome, task.cancel) IN
  [task EXCEPT
     !.status = status,
     !.result = IF outcome = "error" THEN @ ELSE outcome,
     !.partial = IF outcome = "error" \/ status = "cancelled" THEN @ ELSE 0,
     !.error = IF status = "completed" THEN @
               ELSE IF status = "cancelled" THEN "task_cancelled"
               ELSE "command_failed"]

\* Mutated form: the guard is released by kind, although a panic released it.
GuardDropped_ByKind(id) ==
  IF worker[id].kind = Scan THEN scanActivity - 1 ELSE scanActivity

\* run_job ends and drops the scan guard it still holds.
GuardDropped(id) ==
  IF worker[id].guard THEN scanActivity - 1 ELSE scanActivity

\* JobRegistry::finish; without a record it fails before releasing anything.
Finish(id) ==
  /\ worker[id].at = "refreshed"
  /\ IF id \in Retained
     THEN LET final == FinalRecord(tasks[id], worker[id].outcome) IN
          /\ tasks' = [tasks EXCEPT ![id] = final]
          /\ worker' = [worker EXCEPT ![id].at = "announcing",
                                      ![id].outcome = final.status]
          /\ Release
          /\ UNCHANGED scanActivity
     ELSE /\ worker' = [worker EXCEPT ![id].at = "done", ![id].guard = FALSE]
          /\ scanActivity' = GuardDropped(id)
          /\ UNCHANGED <<tasks, active, notified>>
  /\ UNCHANGED <<nextTaskId, handler, scan, events, phase, closed, forced>>

\* Mutated form: the record is read again instead of the clone.
EndEvent_Reread(id) == IF tasks[id].status = "completed" THEN "completed" ELSE "failed"

\* finish returned a clone of the record, which the registry may have evicted.
EndEvent(id) == IF worker[id].outcome = "completed" THEN "completed" ELSE "failed"

\* The end of run_job: the terminal notification, then the scan guard drops.
AnnounceEnd(id) ==
  /\ worker[id].at = "announcing"
  /\ Announce(id, EndEvent(id))
  /\ scanActivity' = GuardDropped(id)
  /\ worker' = [worker EXCEPT ![id].at = "done", ![id].guard = FALSE]
  /\ UNCHANGED <<tasks, active, nextTaskId, handler, scan, phase, notified,
                 closed, forced>>
-----------------------------------------------------------------------------
(***************************************************************************)
(* The bodyless scan: admission is reserved by the request, moved into the *)
(* blocking worker, and handed back to the waiter with the result.         *)
(***************************************************************************)
ReserveScan(s) ==
  /\ phase = "serving"
  /\ scan[s].at = "idle"
  /\ nextTaskId <= MaxTaskId
  /\ Admissible(Scan)
  /\ active' = active + 1
  /\ scan' = [scan EXCEPT ![s] = [at |-> "reserved", waiter |-> TRUE, id |-> nextTaskId]]
  /\ nextTaskId' = nextTaskId + 1
  /\ UNCHANGED <<tasks, handler, worker, scanActivity, events, phase, notified,
                 closed, forced>>

DropScan(s) == scan' = [scan EXCEPT ![s] = NoScan] /\ Release

\* StoreLock::try_acquire refused: 409 store_busy before anything is announced.
ScanBusy(s) ==
  /\ scan[s].at = "reserved"
  /\ DropScan(s)
  /\ UNCHANGED <<tasks, nextTaskId, handler, worker, scanActivity, events,
                 phase, closed, forced>>

BeginScan(s) ==
  /\ scan[s].at = "reserved"
  /\ scan' = [scan EXCEPT ![s].at = "scanning"]
  /\ scanActivity' = scanActivity + 1
  /\ Announce(scan[s].id, "started")
  /\ UNCHANGED <<tasks, active, nextTaskId, handler, worker, phase, notified,
                 closed, forced>>

\* An error is announced by the worker, a panic by the waiter if there is one.
FailScan(s) ==
  /\ scan[s].at = "scanning"
  /\ \E announced \in {TRUE, scan[s].waiter} :
       events' = IF announced THEN [events EXCEPT ![scan[s].id] = Append(@, "failed")]
                              ELSE events
  /\ DropScan(s)
  /\ scanActivity' = scanActivity - 1
  /\ UNCHANGED <<tasks, nextTaskId, handler, worker, phase, closed, forced>>

\* The result goes to the waiter with the guards, or is dropped with them.
ReturnScan(s) ==
  /\ scan[s].at = "scanning"
  /\ IF scan[s].waiter
     THEN /\ scan' = [scan EXCEPT ![s].at = "publishing"]
          /\ UNCHANGED <<active, notified, scanActivity>>
     ELSE /\ DropScan(s)
          /\ scanActivity' = scanActivity - 1
  /\ UNCHANGED <<tasks, nextTaskId, handler, worker, events, phase, closed,
                 forced>>

PublishScan(s) ==
  /\ scan[s].at = "publishing"
  /\ Announce(scan[s].id, "completed")
  /\ DropScan(s)
  /\ scanActivity' = scanActivity - 1
  /\ UNCHANGED <<tasks, nextTaskId, handler, worker, phase, closed, forced>>

\* The client disconnects, or the HTTPS drain aborts the handler.
AbandonScan(s) ==
  /\ phase \in {"serving", "draining"}
  /\ scan[s].waiter
  /\ IF scan[s].at = "publishing"
     THEN DropScan(s) /\ scanActivity' = scanActivity - 1
     ELSE /\ scan' = [scan EXCEPT ![s].waiter = FALSE]
          /\ UNCHANGED <<active, notified, scanActivity>>
  /\ UNCHANGED <<tasks, nextTaskId, handler, worker, events, phase, closed,
                 forced>>
-----------------------------------------------------------------------------
(***************************************************************************)
(* Shutdown: stop accepting, drain the handlers, then wait_for_jobs.       *)
(***************************************************************************)
CloseOwner ==
  /\ ~closed
  /\ closed' = TRUE
  /\ UNCHANGED <<tasks, active, nextTaskId, handler, worker, scan,
                 scanActivity, events, phase, notified, forced>>

ForceStop ==
  /\ HasControl
  /\ ~forced
  /\ phase # "stopped"
  /\ forced' = TRUE
  /\ closed' = TRUE
  /\ UNCHANGED <<tasks, active, nextTaskId, handler, worker, scan,
                 scanActivity, events, phase, notified>>

\* The monitor repeats JobRegistry::force_stop until the server has stopped.
MonitorForce ==
  /\ forced
  /\ phase # "stopped"
  /\ tasks' = [id \in TaskId |-> IF Live(id) THEN [tasks[id] EXCEPT !.cancel = TRUE]
                                 ELSE tasks[id]]
  /\ UNCHANGED <<active, nextTaskId, handler, worker, scan, scanActivity,
                 events, phase, notified, closed, forced>>

BeginShutdown ==
  /\ closed
  /\ phase = "serving"
  /\ phase' = "draining"
  /\ UNCHANGED <<tasks, active, nextTaskId, handler, worker, scan,
                 scanActivity, events, notified, closed, forced>>

\* Mutated form: handlers in flight are not awaited.
Drained_Early ==
  /\ phase = "draining"
  /\ phase' = "waiting"
  /\ UNCHANGED <<tasks, active, nextTaskId, handler, worker, scan,
                 scanActivity, events, notified, closed, forced>>

Drained ==
  /\ phase = "draining"
  /\ \A h \in Handler : handler[h] = NoRequest
  /\ \A s \in ScanWorker : ~scan[s].waiter
  /\ phase' = "waiting"
  /\ UNCHANGED <<tasks, active, nextTaskId, handler, worker, scan,
                 scanActivity, events, notified, closed, forced>>

\* wait_for_jobs takes the Notified future before it looks at active.
ArmWait ==
  /\ phase = "waiting"
  /\ phase' = "checking"
  /\ notified' = FALSE
  /\ UNCHANGED <<tasks, active, nextTaskId, handler, worker, scan,
                 scanActivity, events, closed, forced>>

CheckActive ==
  /\ phase = "checking"
  /\ phase' = IF active = 0 THEN "stopped" ELSE "counted"
  /\ UNCHANGED <<tasks, active, nextTaskId, handler, worker, scan,
                 scanActivity, events, notified, closed, forced>>

\* The lock is given back before the Notified future is awaited.
Await ==
  /\ phase = "counted"
  /\ phase' = "parked"
  /\ UNCHANGED <<tasks, active, nextTaskId, handler, worker, scan,
                 scanActivity, events, notified, closed, forced>>

WakeWait ==
  /\ phase = "parked"
  /\ notified
  /\ phase' = "waiting"
  /\ UNCHANGED <<tasks, active, nextTaskId, handler, worker, scan,
                 scanActivity, events, notified, closed, forced>>

\* Nothing is left to do: the process ends.
Exit ==
  /\ phase = "stopped"
  /\ \A id \in TaskId : worker[id].at \in {"none", "done"}
  /\ UNCHANGED vars
-----------------------------------------------------------------------------
JobStep(id) ==
  \/ StartJob(id)
  \/ BeginCommand(id)
  \/ StartMood(id)
  \/ Refreshed(id)
  \/ Finish(id)
  \/ AnnounceEnd(id)

ScanStep(s) ==
  \/ ScanBusy(s)
  \/ BeginScan(s)
  \/ FailScan(s)
  \/ ReturnScan(s)
  \/ PublishScan(s)

ServerStep ==
  \/ BeginShutdown
  \/ Drained
  \/ ArmWait
  \/ CheckActive
  \/ Await
  \/ WakeWait

Next ==
  \/ \E h \in Handler :
       \/ \E kind \in Requested : TakeTaskId(h, kind)
       \/ Insert(h)
       \/ Refuse(h)
  \/ \E id \in TaskId :
       \/ JobStep(id)
       \/ Cancel(id)
       \/ MoodProgress(id)
       \/ \E files \in 1..MaxFiles : ReportSnapshot(id, files)
       \/ \E outcome \in Outcome : ReturnCommand(id, outcome)
  \/ \E s \in ScanWorker :
       \/ ReserveScan(s)
       \/ ScanStep(s)
       \/ AbandonScan(s)
  \/ CloseOwner
  \/ ForceStop
  \/ MonitorForce
  \/ ServerStep
  \/ Exit

Spec == Init /\ [][Next]_vars

(***************************************************************************)
(* Fairness.  The runtime polls every spawned future, the registry's mutex *)
(* is held for a bounded time, and the monitor loop repeats.  Clients owe  *)
(* nothing.  A synchronous scan is finite work.                            *)
(***************************************************************************)
Progress ==
  /\ \A h \in Handler : WF_vars(Insert(h) \/ Refuse(h))
  /\ \A id \in TaskId : WF_vars(JobStep(id))
  /\ \A s \in ScanWorker : WF_vars(ScanStep(s))
  /\ WF_vars(MonitorForce)
  /\ WF_vars(ServerStep)

Return(id) == \E outcome \in Outcome : ReturnCommand(id, outcome)

\* A command may run for ever, unless it has been cancelled.
FairSpec ==
  Spec /\ Progress /\ \A id \in TaskId : WF_vars(tasks[id].cancel /\ Return(id))
-----------------------------------------------------------------------------
TypeOK ==
  /\ tasks \in [TaskId -> Task]
  /\ active \in Nat
  /\ nextTaskId \in 1..(MaxTaskId + 1)
  /\ handler \in [Handler -> Request \cup {NoRequest}]
  /\ worker \in [TaskId -> Worker]
  /\ scan \in [ScanWorker -> ScanState]
  /\ scanActivity \in Int
  /\ events \in [TaskId -> Seq({"started", "completed", "failed"})]
  /\ phase \in {"serving", "draining", "waiting", "checking", "counted", "parked",
               "stopped"}
  /\ notified \in BOOLEAN
  /\ closed \in BOOLEAN
  /\ forced \in BOOLEAN

\* The active counter, which admission and shutdown trust, counts exactly the
\* unfinished tasks and the bodyless scans whose worker still exists, whatever
\* the order of refusals, panics, abandoned waiters and evictions.
AdmissionAccounted == active = Cardinality(Holders)

\* "Generation ... refuses concurrent administrative work": while a generation
\* is unfinished, no other task is, and no bodyless scan has a worker.
GenerationExclusive ==
  \A id \in LiveTasks : tasks[id].kind = Generation => Holders = {id}

\* "At most four HTTP jobs are active and 64 records retained", although a
\* record is only evicted when it is finished.
RegistryBounded == active <= MaxActive /\ Cardinality(Retained) <= MaxRetained

\* A worker that has not finished finds its record unfinished in the registry:
\* finish cannot fail and leak an admission, and nobody else ends the task.
WorkerKeepsRecord ==
  \A id \in TaskId :
    Live(id) <=> worker[id].at \in {"spawned", "started", "command", "returned", "refreshed"}

\* The guards of scan activity are balanced: the indicator shows a scan exactly
\* while a scan worker or its publication is under way.
ScanActivityBalanced ==
  scanActivity = Cardinality({id \in TaskId : worker[id].guard})
               + Cardinality({s \in ScanWorker : scan[s].at \in {"scanning", "publishing"}})

\* A finished record never changes again (a late decode snapshot, a cancellation
\* or a second finish would change it); it can only be evicted, and an unfinished
\* one cannot.
RecordsOnlySettle ==
  \A id \in TaskId :
    /\ Terminal(tasks[id].status) => tasks'[id] \in {tasks[id], Absent}
    /\ Live(id) => tasks'[id].status # "absent"

TerminalIsFinal == [][RecordsOnlySettle]_vars

\* What a subscriber of /activity sees of one id: nothing for a refused request,
\* otherwise one start and at most one end, and the end agrees with the record
\* even when that was evicted before the announcement.
EventProtocol ==
  \A id \in TaskId :
    /\ events[id] \in {<<>>, <<"started">>, <<"started", "completed">>,
                       <<"started", "failed">>}
    /\ worker[id].at = "done" =>
         events[id] = <<"started", IF worker[id].outcome = "completed"
                                   THEN "completed" ELSE "failed">>
    /\ worker[id].at = "done" /\ id \in Retained =>
         tasks[id].status = worker[id].outcome

\* "Graceful shutdown waits for accepted jobs": once wait_for_jobs returns, no
\* request can still be admitted and no command or scan is running.
StoppedIsQuiet ==
  phase = "stopped" =>
    /\ \A h \in Handler : handler[h] = NoRequest
    /\ \A s \in ScanWorker : scan[s].at = "idle"
    /\ \A id \in TaskId : worker[id].at \in {"none", "announcing", "done"}

\* Every command returns, cancelled or not.
CommandsEnd == \A id \in TaskId : WF_vars(Return(id))

\* If every command ends, every accepted job gets a terminal status.
TasksTerminate == CommandsEnd => \A id \in TaskId : Live(id) ~> ~Live(id)

\* If every command ends, a requested shutdown completes: the wakeup of the last
\* finish is not missed.  "Stop admission and cancel every worker owned by this
\* engine": a forced stop completes although uncancelled commands may run for
\* ever, also when a job is admitted after the stop was forced.
StopCompletes ==
  /\ CommandsEnd => (closed ~> phase = "stopped")
  /\ forced ~> phase = "stopped"

(***************************************************************************)
(* The registry implements the abstract admission.                         *)
(***************************************************************************)
Admitted == [o \in Holders |-> IF o \in ScanWorker THEN Scan ELSE tasks[o].kind]

Abstract == INSTANCE Admission WITH
              Owner <- TaskId \cup ScanWorker, WorkKind <- Kind,
              Exclusive <- {Generation}, Singleton <- {Mood},
              Capacity <- MaxActive, held <- Admitted

AdmissionSpec == Abstract!Spec
=============================================================================
