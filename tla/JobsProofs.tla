----------------------------- MODULE JobsProofs -----------------------------
(***************************************************************************)
(* Proofs about module Jobs, for every number of handlers, scans and tasks *)
(* and every MAX_ACTIVE <= MAX_RETAINED.                                   *)
(***************************************************************************)
EXTENDS Jobs, FiniteSetTheorems, SequenceTheorems, WellFoundedInduction, TLAPS

InFlight == {"spawned", "started", "command", "returned", "refreshed"}

\* An id between fetch_add and insert is new, and held by one handler.
RequestsFresh ==
  \A h \in Handler : handler[h] # NoRequest =>
    /\ handler[h].id < nextTaskId
    /\ worker[handler[h].id].at = "none"
    /\ \A g \in Handler : handler[g].id = handler[h].id => g = h

\* Ids that were never inserted have left no trace.
UnusedIdsBlank ==
  \A id \in TaskId :
    /\ id >= nextTaskId => worker[id].at = "none"
    /\ worker[id].at = "none" => tasks[id].status = "absent"

\* At most one unfinished acoustic extraction.
MoodAlone ==
  \A i, j \in LiveTasks : tasks[i].kind = Mood /\ tasks[j].kind = Mood => i = j

\* Nothing can be submitted once the handlers have been drained.
DrainedIsClosed ==
  phase \notin {"serving", "draining"} =>
    \A h \in Handler : handler[h] = NoRequest

StoppedIsIdle == phase = "stopped" => active = 0

\* finish is only reached with what the command returned.
OutcomeKnown ==
  \A id \in TaskId :
    worker[id].at \in {"returned", "refreshed"} => worker[id].outcome \in Outcome

IInv ==
  /\ TypeOK
  /\ AdmissionAccounted
  /\ GenerationExclusive
  /\ MoodAlone
  /\ RegistryBounded
  /\ WorkerKeepsRecord
  /\ RequestsFresh
  /\ UnusedIdsBlank
  /\ OutcomeKnown
  /\ DrainedIsClosed
  /\ StoppedIsIdle
-----------------------------------------------------------------------------
(***************************************************************************)
(* What a step may do to the set of admissions.                            *)
(***************************************************************************)
KindOf(o) == IF o \in ScanWorker THEN Scan ELSE tasks[o].kind

Keeps ==
  /\ active' = active
  /\ Holders' = Holders
  /\ \A o \in Holders : KindOf(o)' = KindOf(o)

Enters(o, kind) ==
  /\ o \notin Holders
  /\ Admissible(kind)
  /\ active' = active + 1
  /\ Holders' = Holders \cup {o}
  /\ \A p \in Holders : KindOf(p)' = KindOf(p)
  /\ KindOf(o)' = kind

Leaves(o) ==
  /\ o \in Holders
  /\ active' = active - 1
  /\ Holders' = Holders \ {o}
  /\ \A p \in Holders \ {o} : KindOf(p)' = KindOf(p)
-----------------------------------------------------------------------------
\* The sets that the registry counts are finite.
LEMMA SetsFinite ==
  /\ IsFiniteSet(TaskId)
  /\ IsFiniteSet(Holders) /\ Cardinality(Holders) \in Nat
  /\ IsFiniteSet(Retained) /\ Cardinality(Retained) \in Nat
<1>1. IsFiniteSet(TaskId)
  BY JobsAssumption, FS_Interval DEF TaskId
<1>2. IsFiniteSet(ScanWorker)
  BY JobsAssumption
<1>3. IsFiniteSet(LiveTasks) /\ IsFiniteSet(Retained)
  BY <1>1, FS_Subset DEF LiveTasks, Retained
<1>4. IsFiniteSet(Reserved)
  BY <1>2, FS_Subset DEF Reserved
<1>5. IsFiniteSet(Holders)
  BY <1>3, <1>4, FS_Union DEF Holders
<1> QED
  BY <1>1, <1>3, <1>5, FS_CardinalityType

\* Task ids and bodyless scans are different holders.
LEMMA HoldersDisjoint == \A id \in TaskId : id \notin ScanWorker
BY JobsAssumption

\* Steps that touch neither the records nor the reservations.
LEMMA UntouchedKeeps ==
  ASSUME UNCHANGED <<tasks, active, scan>>
  PROVE  Keeps
BY DEF Keeps, Holders, LiveTasks, Reserved, Live, KindOf

\* Steps that change a record without changing its kind or its being unfinished.
LEMMA RecordKeeps ==
  ASSUME UNCHANGED <<active, scan>>,
         \A id \in TaskId : Live(id)' = Live(id),
         \A id \in TaskId : Live(id) => tasks'[id].kind = tasks[id].kind
  PROVE  Keeps
<1>1. LiveTasks' = LiveTasks /\ Reserved' = Reserved
  BY DEF LiveTasks, Reserved
<1>2. Holders' = Holders
  BY <1>1 DEF Holders
<1>3. \A o \in Holders : KindOf(o)' = KindOf(o)
  BY HoldersDisjoint DEF KindOf, Holders, LiveTasks, Reserved
<1> QED
  BY <1>2, <1>3 DEF Keeps

\* A handler's id has no record yet.
LEMMA RequestIsNew ==
  ASSUME IInv, NEW h \in Handler, handler[h] # NoRequest
  PROVE  /\ handler[h].id \in TaskId /\ handler[h].kind \in Kind
         /\ tasks[handler[h].id].status = "absent"
<1>1. handler[h] \in Request
  BY DEF IInv, TypeOK
<1>2. handler[h].id \in TaskId /\ handler[h].kind \in Kind
  BY <1>1 DEF Request
<1>3. worker[handler[h].id].at = "none"
  BY DEF IInv, RequestsFresh
<1> QED
  BY <1>2, <1>3 DEF IInv, UnusedIdsBlank

\* Only finished records are evicted.
LEMMA EvictedFinished == Evicted \subseteq Finished /\ Evicted \cap Holders \cap TaskId = {}
BY HoldersDisjoint
   DEF Evicted, Finished, Holders, LiveTasks, Live, Reserved, Terminal

LEMMA InsertEnters ==
  ASSUME IInv, NEW h \in Handler, Insert(h),
         NEW id, NEW kind, id = handler[h].id, kind = handler[h].kind
  PROVE  Enters(id, kind)
<1>1. id \in TaskId /\ kind \in Kind /\ tasks[id].status = "absent"
  BY RequestIsNew DEF Insert
<1>2. \A i \in TaskId :
        tasks'[i] = IF i = id THEN Queued(kind) ELSE IF i \in Evicted THEN Absent ELSE tasks[i]
  BY DEF Insert
<1>3. Queued(kind).status = "queued" /\ Queued(kind).kind = kind /\ Absent.status = "absent"
  BY DEF Queued, Absent
<1>4. \A i \in TaskId : i # id => (Live(i)' <=> Live(i)) /\ (Live(i) => tasks'[i] = tasks[i])
  BY <1>2, <1>3, EvictedFinished DEF Live, Finished, Terminal
<1>5. LiveTasks' = LiveTasks \cup {id} /\ id \notin LiveTasks
  BY <1>1, <1>2, <1>3, <1>4 DEF LiveTasks, Live
<1>6. scan' = scan /\ active' = active + 1 /\ Admissible(kind)
  BY DEF Insert
<1>7. Holders' = Holders \cup {id} /\ id \notin Holders
  BY <1>1, <1>5, <1>6, HoldersDisjoint DEF Holders, Reserved
<1>8. \A p \in Holders : KindOf(p)' = KindOf(p)
  BY <1>4, <1>5 DEF KindOf, Holders, LiveTasks, Reserved
<1>9. KindOf(id)' = kind
  BY <1>1, <1>2, <1>3, HoldersDisjoint DEF KindOf
<1> QED
  BY <1>6, <1>7, <1>8, <1>9 DEF Enters

LEMMA ReserveScanEnters ==
  ASSUME IInv, NEW s \in ScanWorker, ReserveScan(s)
  PROVE  Enters(s, Scan)
<1>1. scan \in [ScanWorker -> ScanState]
  BY DEF IInv, TypeOK
<1>2. Reserved' = Reserved \cup {s} /\ s \notin Reserved
  BY <1>1 DEF ReserveScan, Reserved
<1>3. tasks' = tasks /\ active' = active + 1 /\ Admissible(Scan)
  BY DEF ReserveScan
<1>4. LiveTasks' = LiveTasks /\ s \notin LiveTasks
  BY <1>3, HoldersDisjoint DEF LiveTasks, Live
<1>5. \A p \in Holders : KindOf(p)' = KindOf(p)
  BY <1>3 DEF KindOf
<1> QED
  BY <1>2, <1>3, <1>4, <1>5 DEF Enters, Holders, KindOf

\* Whatever ends a bodyless scan gives its admission back.
LEMMA DropScanLeaves ==
  ASSUME IInv, NEW s \in ScanWorker, scan[s].at # "idle", DropScan(s), tasks' = tasks
  PROVE  Leaves(s)
<1>1. scan \in [ScanWorker -> ScanState]
  BY DEF IInv, TypeOK
<1>2. Reserved' = Reserved \ {s} /\ s \in Reserved
  BY <1>1 DEF DropScan, Reserved, NoScan
<1>3. active' = active - 1
  BY DEF DropScan, Release
<1>4. LiveTasks' = LiveTasks /\ s \notin LiveTasks
  BY HoldersDisjoint DEF LiveTasks, Live
<1>5. \A p \in Holders : KindOf(p)' = KindOf(p)
  BY DEF KindOf
<1> QED
  BY <1>2, <1>3, <1>4, <1>5 DEF Leaves, Holders

\* A scan that changes its stage without ending keeps its admission.
LEMMA ScanKeeps ==
  ASSUME IInv, UNCHANGED <<tasks, active>>,
         \A s \in ScanWorker : scan'[s].at = "idle" <=> scan[s].at = "idle"
  PROVE  Keeps
<1>1. LiveTasks' = LiveTasks /\ Reserved' = Reserved
  BY DEF LiveTasks, Live, Reserved
<1> QED
  BY <1>1 DEF Keeps, Holders, KindOf

\* finish writes a terminal status, whatever the outcome, and keeps the kind.
LEMMA FinalRecordTerminal ==
  ASSUME NEW task \in Task, NEW outcome
  PROVE  LET final == FinalRecord(task, outcome) IN
         /\ final.status = FinalStatus(outcome, task.cancel)
         /\ Terminal(final.status)
         /\ final.kind = task.kind
<1>1. FinalStatus(outcome, task.cancel) \in {"completed", "failed", "cancelled"}
  BY DEF FinalStatus
<1>2. FinalRecord(task, outcome).status = FinalStatus(outcome, task.cancel)
  BY DEF FinalRecord, Task
<1>3. FinalRecord(task, outcome).kind = task.kind
  BY DEF FinalRecord, Task
<1> QED
  BY <1>1, <1>2, <1>3 DEF Terminal

LEMMA FinishLeaves ==
  ASSUME IInv, NEW id \in TaskId, Finish(id)
  PROVE  Leaves(id)
<1> DEFINE final == FinalRecord(tasks[id], worker[id].outcome)
<1>1. tasks \in [TaskId -> Task] /\ tasks[id] \in Task
  BY DEF IInv, TypeOK
<1>2. Live(id) /\ id \in Retained
  BY DEF Finish, IInv, WorkerKeepsRecord, Live, Retained
<1>3. /\ tasks' = [tasks EXCEPT ![id] = final]
      /\ active' = active - 1
      /\ scan' = scan
  BY <1>2 DEF Finish, Release
<1>4. Terminal(final.status)
  BY <1>1, FinalRecordTerminal
<1>5. ~Live(id)'
  BY <1>1, <1>3, <1>4 DEF Live, Terminal
<1>6. \A i \in TaskId : i # id => tasks'[i] = tasks[i]
  BY <1>1, <1>3
<1>7. LiveTasks' = LiveTasks \ {id} /\ id \in LiveTasks
  BY <1>2, <1>5, <1>6 DEF LiveTasks, Live
<1>8. Holders' = Holders \ {id} /\ id \in Holders
  BY <1>3, <1>7, HoldersDisjoint DEF Holders, Reserved
<1>9. \A p \in Holders \ {id} : KindOf(p)' = KindOf(p)
  BY <1>6 DEF KindOf, Holders, LiveTasks, Reserved
<1> QED
  BY <1>3, <1>8, <1>9 DEF Leaves

\* Writing one record so that it stays unfinished, or finished, or absent.
LEMMA OneRecordKeeps ==
  ASSUME IInv, UNCHANGED <<active, scan>>, NEW id \in TaskId, NEW record,
         tasks' = [tasks EXCEPT ![id] = record],
         record.status \in {"queued", "running"} <=> Live(id),
         record.kind = tasks[id].kind
  PROVE  Keeps
<1>1. tasks \in [TaskId -> Task]
  BY DEF IInv, TypeOK
<1>2. \A i \in TaskId : tasks'[i] = IF i = id THEN record ELSE tasks[i]
  BY <1>1
<1>3. \A i \in TaskId : Live(i)' = Live(i)
  BY <1>2 DEF Live
<1>4. \A i \in TaskId : tasks'[i].kind = tasks[i].kind
  BY <1>2
<1> QED
  BY <1>3, <1>4, RecordKeeps

LEMMA MarkRunningKeeps ==
  ASSUME IInv, UNCHANGED <<active, scan>>, NEW id \in TaskId, MarkRunning(id),
         worker[id].at = "spawned"
  PROVE  Keeps
<1>1. tasks \in [TaskId -> Task] /\ tasks[id] \in Task
  BY DEF IInv, TypeOK
<1>2. Live(id) /\ id \in Retained
  BY DEF IInv, WorkerKeepsRecord, Live, Retained
<1>3. tasks' = [tasks EXCEPT ![id] = [tasks[id] EXCEPT !.status = "running"]]
  BY <1>2 DEF MarkRunning
<1>4. [tasks[id] EXCEPT !.status = "running"].status = "running"
  BY <1>1 DEF Task
<1>5. [tasks[id] EXCEPT !.status = "running"].kind = tasks[id].kind
  BY <1>1 DEF Task
<1> QED
  BY <1>2, <1>3, <1>4, <1>5, OneRecordKeeps

LEMMA CancelKeeps ==
  ASSUME IInv, NEW id \in TaskId, Cancel(id)
  PROVE  Keeps
<1>1. tasks \in [TaskId -> Task] /\ tasks[id] \in Task
  BY DEF IInv, TypeOK
<1>2. tasks' = [tasks EXCEPT ![id] = [tasks[id] EXCEPT !.cancel = TRUE]]
  BY DEF Cancel
<1>3. [tasks[id] EXCEPT !.cancel = TRUE].status = tasks[id].status
  BY <1>1 DEF Task
<1>4. [tasks[id] EXCEPT !.cancel = TRUE].kind = tasks[id].kind
  BY <1>1 DEF Task
<1> QED
  BY <1>2, <1>3, <1>4, OneRecordKeeps DEF Cancel, Live

LEMMA MoodProgressKeeps ==
  ASSUME IInv, NEW id \in TaskId, MoodProgress(id)
  PROVE  /\ Keeps
         /\ tasks[id].progress < MaxFiles
         /\ tasks' = [tasks EXCEPT ![id].progress = @ + 1]
         /\ worker' = worker
<1>1. tasks \in [TaskId -> Task] /\ tasks[id] \in Task
  BY DEF IInv, TypeOK
<1>2. Live(id) /\ id \in Retained
  BY DEF MoodProgress, IInv, WorkerKeepsRecord, Live, Retained
<1>3. /\ tasks[id].progress < MaxFiles
      /\ tasks' = [tasks EXCEPT ![id].progress = @ + 1]
      /\ worker' = worker
  BY <1>2 DEF MoodProgress
<1> DEFINE record == [tasks[id] EXCEPT !.progress = @ + 1]
<1>4. tasks' = [tasks EXCEPT ![id] = record]
  BY <1>3
<1>5. record.status = tasks[id].status /\ record.kind = tasks[id].kind
  BY <1>1 DEF Task
<1>6. Keeps
  <2> HIDE DEF record
  <2> QED BY <1>4, <1>5, OneRecordKeeps DEF MoodProgress, Live
<1> QED
  BY <1>3, <1>6

LEMMA ReportSnapshotKeeps ==
  ASSUME IInv, NEW id \in TaskId, NEW files \in 1..MaxFiles, ReportSnapshot(id, files)
  PROVE  Keeps
<1>1. tasks \in [TaskId -> Task] /\ tasks[id] \in Task
  BY DEF IInv, TypeOK
<1> DEFINE record == [tasks[id] EXCEPT !.partial = files]
<1>2. tasks' = [tasks EXCEPT ![id] = record]
  BY DEF ReportSnapshot
<1>3. record.status = tasks[id].status /\ record.kind = tasks[id].kind
  BY <1>1 DEF Task
<1> HIDE DEF record
<1> QED
  BY <1>2, <1>3, OneRecordKeeps DEF ReportSnapshot, Live

LEMMA MonitorForceKeeps ==
  ASSUME IInv, MonitorForce
  PROVE  Keeps
<1>1. tasks \in [TaskId -> Task]
  BY DEF IInv, TypeOK
<1>2. \A id \in TaskId : /\ tasks'[id].status = tasks[id].status
                         /\ tasks'[id].kind = tasks[id].kind
  BY <1>1 DEF MonitorForce, Task
<1>3. \A id \in TaskId : Live(id)' = Live(id)
  BY <1>2 DEF Live
<1> QED
  BY <1>2, <1>3, RecordKeeps DEF MonitorForce

\* Every step keeps the admissions, or makes one, or ends one.
LEMMA RegistryStep ==
  ASSUME IInv, [Next]_vars
  PROVE  \/ Keeps
         \/ \E o \in TaskId \cup ScanWorker :
              Leaves(o) \/ \E kind \in Kind : Enters(o, kind)
<1> DEFINE Goal == \/ Keeps
                   \/ \E o \in TaskId \cup ScanWorker :
                        Leaves(o) \/ \E kind \in Kind : Enters(o, kind)
<1>1. ASSUME NEW h \in Handler, NEW kind \in Requested, TakeTaskId(h, kind) PROVE Goal
  BY <1>1, UntouchedKeeps DEF TakeTaskId
<1>2. ASSUME NEW h \in Handler, Insert(h) PROVE Goal
  <2>1. PICK id, kind : id = handler[h].id /\ kind = handler[h].kind
    OBVIOUS
  <2>2. id \in TaskId /\ kind \in Kind
    BY <1>2, <2>1, RequestIsNew DEF Insert
  <2>3. Enters(id, kind)
    BY <1>2, <2>1, InsertEnters
  <2> QED BY <2>2, <2>3
<1>3. ASSUME NEW h \in Handler, Refuse(h) PROVE Goal
  BY <1>3, UntouchedKeeps DEF Refuse
<1>4. ASSUME NEW id \in TaskId, JobStep(id) PROVE Goal
  <2>1. CASE StartJob(id)
    BY <2>1, MarkRunningKeeps DEF StartJob
  <2>2. CASE BeginCommand(id)
    BY <2>2, UntouchedKeeps DEF BeginCommand
  <2>3. CASE StartMood(id)
    BY <2>3, MarkRunningKeeps DEF StartMood
  <2>4. CASE Refreshed(id)
    BY <2>4, UntouchedKeeps DEF Refreshed
  <2>5. CASE Finish(id)
    BY <2>5, FinishLeaves
  <2>6. CASE AnnounceEnd(id)
    BY <2>6, UntouchedKeeps DEF AnnounceEnd
  <2> QED BY <1>4, <2>1, <2>2, <2>3, <2>4, <2>5, <2>6 DEF JobStep
<1>5. ASSUME NEW id \in TaskId, Cancel(id) PROVE Goal
  BY <1>5, CancelKeeps
<1>6. ASSUME NEW id \in TaskId, MoodProgress(id) PROVE Goal
  BY <1>6, MoodProgressKeeps
<1>7. ASSUME NEW id \in TaskId, NEW files \in 1..MaxFiles, ReportSnapshot(id, files) PROVE Goal
  BY <1>7, ReportSnapshotKeeps
<1>8. ASSUME NEW id \in TaskId, NEW outcome \in Outcome, ReturnCommand(id, outcome) PROVE Goal
  BY <1>8, UntouchedKeeps DEF ReturnCommand
<1>9. ASSUME NEW s \in ScanWorker, ReserveScan(s) PROVE Goal
  BY <1>9, ReserveScanEnters DEF Kind
<1>10. ASSUME NEW s \in ScanWorker, ScanStep(s) PROVE Goal
  <2>0. scan \in [ScanWorker -> ScanState]
    BY DEF IInv, TypeOK
  <2>1. CASE ScanBusy(s)
    BY <2>1, DropScanLeaves DEF ScanBusy
  <2>2. CASE BeginScan(s)
    BY <2>0, <2>2, ScanKeeps DEF BeginScan
  <2>3. CASE FailScan(s)
    BY <2>3, DropScanLeaves DEF FailScan
  <2>4. CASE ReturnScan(s)
    <3>1. CASE scan[s].waiter
      <4>1. UNCHANGED <<tasks, active>> /\ scan' = [scan EXCEPT ![s].at = "publishing"]
        BY <2>4, <3>1 DEF ReturnScan
      <4>2. \A t \in ScanWorker : scan'[t].at = "idle" <=> scan[t].at = "idle"
        BY <2>0, <2>4, <4>1 DEF ReturnScan, ScanState
      <4> QED BY <4>1, <4>2, ScanKeeps
    <3>2. CASE ~scan[s].waiter
      BY <2>4, <3>2, DropScanLeaves DEF ReturnScan
    <3> QED BY <3>1, <3>2
  <2>5. CASE PublishScan(s)
    BY <2>5, DropScanLeaves DEF PublishScan
  <2> QED BY <1>10, <2>1, <2>2, <2>3, <2>4, <2>5 DEF ScanStep
<1>11. ASSUME NEW s \in ScanWorker, AbandonScan(s) PROVE Goal
  <2>0. scan \in [ScanWorker -> ScanState]
    BY DEF IInv, TypeOK
  <2>1. CASE scan[s].at = "publishing"
    BY <1>11, <2>1, DropScanLeaves DEF AbandonScan
  <2>2. CASE scan[s].at # "publishing"
    <3>1. UNCHANGED <<tasks, active>> /\ scan' = [scan EXCEPT ![s].waiter = FALSE]
      BY <1>11, <2>2 DEF AbandonScan
    <3>2. \A t \in ScanWorker : scan'[t].at = "idle" <=> scan[t].at = "idle"
      BY <2>0, <3>1 DEF ScanState
    <3> QED BY <3>1, <3>2, ScanKeeps
  <2> QED BY <2>1, <2>2
<1>12. CASE CloseOwner \/ ForceStop
  BY <1>12, UntouchedKeeps DEF CloseOwner, ForceStop
<1>13. CASE MonitorForce
  BY <1>13, MonitorForceKeeps
<1>14. CASE ServerStep
  BY <1>14, UntouchedKeeps
     DEF ServerStep, BeginShutdown, Drained, ArmWait, CheckActive, Await, WakeWait
<1>15. CASE Exit \/ UNCHANGED vars
  BY <1>15, UntouchedKeeps DEF Exit, vars
<1> QED
  BY <1>1, <1>2, <1>3, <1>4, <1>5, <1>6, <1>7, <1>8, <1>9, <1>10, <1>11,
     <1>12, <1>13, <1>14, <1>15 DEF Next
-----------------------------------------------------------------------------
(***************************************************************************)
(* The admissions after a step.                                            *)
(***************************************************************************)

\* GenerationExclusive and MoodAlone, said of holders.
LEMMA ExclusionOfHolders ==
  /\ GenerationExclusive <=> \A o \in Holders : KindOf(o) = Generation => Holders = {o}
  /\ MoodAlone <=> \A i, j \in Holders : KindOf(i) = Mood /\ KindOf(j) = Mood => i = j
<1>1. \A o \in LiveTasks : KindOf(o) = tasks[o].kind
  BY HoldersDisjoint DEF KindOf, LiveTasks
<1>2. \A o \in Reserved : KindOf(o) = Scan
  BY DEF KindOf, Reserved
<1>3. Scan # Generation /\ Scan # Mood
  BY DEF Scan, Generation, Mood
<1> QED
  BY <1>1, <1>2, <1>3 DEF GenerationExclusive, MoodAlone, Holders

\* What admit checks, said of holders.
LEMMA AdmissibleHolders ==
  ASSUME AdmissionAccounted, NEW kind, Admissible(kind)
  PROVE  /\ Cardinality(Holders) < MaxActive
         /\ \A o \in Holders : KindOf(o) # Generation
         /\ kind = Generation => Holders = {}
         /\ kind = Mood => \A o \in Holders : KindOf(o) # Mood
<1>1. \A o \in LiveTasks : KindOf(o) = tasks[o].kind
  BY HoldersDisjoint DEF KindOf, LiveTasks
<1>2. \A o \in Reserved : KindOf(o) = Scan
  BY DEF KindOf, Reserved
<1>3. Scan # Generation /\ Scan # Mood
  BY DEF Scan, Generation, Mood
<1>4. kind = Generation => Holders = {}
  BY SetsFinite, FS_EmptySet DEF Admissible, AdmissionAccounted
<1> QED
  BY <1>1, <1>2, <1>3, <1>4 DEF Admissible, AdmissionAccounted, Holders, LiveTasks, Live

LEMMA AdmissionStep ==
  ASSUME IInv, [Next]_vars
  PROVE  /\ active' \in Nat
         /\ active' <= MaxActive
         /\ AdmissionAccounted'
         /\ GenerationExclusive'
         /\ MoodAlone'
<1> DEFINE Goal == /\ active' \in Nat /\ active' <= MaxActive
                   /\ active' = Cardinality(Holders')
                   /\ \A o \in Holders' : KindOf(o)' = Generation => Holders' = {o}
                   /\ \A i, j \in Holders' : KindOf(i)' = Mood /\ KindOf(j)' = Mood => i = j
<1>0. /\ active \in Nat /\ active <= MaxActive /\ active = Cardinality(Holders)
      /\ \A o \in Holders : KindOf(o) = Generation => Holders = {o}
      /\ \A i, j \in Holders : KindOf(i) = Mood /\ KindOf(j) = Mood => i = j
      /\ IsFiniteSet(Holders) /\ MaxActive \in Nat
  BY ExclusionOfHolders, SetsFinite, JobsAssumption
     DEF IInv, TypeOK, RegistryBounded, AdmissionAccounted
<1>1. ASSUME Keeps PROVE Goal
  BY <1>0, <1>1 DEF Keeps
<1>2. ASSUME NEW o \in TaskId \cup ScanWorker, Leaves(o) PROVE Goal
  <2>1. Cardinality(Holders') = active - 1 /\ active' = active - 1 /\ o \in Holders
    BY <1>0, <1>2, FS_RemoveElement DEF Leaves
  <2>2. active # 0
    BY <1>0, <2>1, FS_EmptySet
  <2> QED BY <1>0, <1>2, <2>1, <2>2 DEF Leaves
<1>3. ASSUME NEW o \in TaskId \cup ScanWorker, NEW kind \in Kind, Enters(o, kind) PROVE Goal
  <2>1. Cardinality(Holders') = active + 1 /\ active' = active + 1
    BY <1>0, <1>3, FS_AddElement DEF Enters
  <2>2. /\ active < MaxActive
        /\ \A p \in Holders : KindOf(p) # Generation
        /\ kind = Generation => Holders = {}
        /\ kind = Mood => \A p \in Holders : KindOf(p) # Mood
    BY <1>0, <1>3, AdmissibleHolders DEF Enters, AdmissionAccounted
  <2> QED BY <1>0, <1>3, <2>1, <2>2 DEF Enters
<1>4. Goal
  BY <1>1, <1>2, <1>3, RegistryStep
<1>5. /\ GenerationExclusive' <=> \A o \in Holders' : KindOf(o)' = Generation => Holders' = {o}
      /\ MoodAlone' <=> \A i, j \in Holders' : KindOf(i)' = Mood /\ KindOf(j)' = Mood => i = j
  <2>1. \A o \in LiveTasks' : KindOf(o)' = tasks'[o].kind
    BY HoldersDisjoint DEF KindOf, LiveTasks
  <2>2. \A o \in Reserved' : KindOf(o)' = Scan
    BY DEF KindOf, Reserved
  <2>3. Scan # Generation /\ Scan # Mood
    BY DEF Scan, Generation, Mood
  <2> QED BY <2>1, <2>2, <2>3 DEF GenerationExclusive, MoodAlone, Holders
<1> QED
  BY <1>4, <1>5 DEF AdmissionAccounted
-----------------------------------------------------------------------------
(***************************************************************************)
(* Records and workers after a step.                                       *)
(***************************************************************************)
RecordsOK ==
  /\ tasks \in [TaskId -> Task]
  /\ worker \in [TaskId -> Worker]
  /\ WorkerKeepsRecord
  /\ UnusedIdsBlank
  /\ OutcomeKnown

\* Steps that leave records and workers alone, ids handed out or not.
LEMMA RecordsUntouched ==
  ASSUME IInv, UNCHANGED <<tasks, worker>>, nextTaskId' \in {nextTaskId, nextTaskId + 1}
  PROVE  RecordsOK' /\ Retained' = Retained
<1>1. /\ tasks' \in [TaskId -> Task]
      /\ worker' \in [TaskId -> Worker]
      /\ WorkerKeepsRecord'
      /\ OutcomeKnown'
  BY DEF IInv, TypeOK, WorkerKeepsRecord, Live, OutcomeKnown
<1>2. UnusedIdsBlank'
  BY DEF IInv, TypeOK, UnusedIdsBlank, TaskId
<1> QED
  BY <1>1, <1>2 DEF RecordsOK, Retained

\* Steps of one worker that keep its record in the registry.
LEMMA OneWorkerStep ==
  ASSUME IInv, NEW id \in TaskId, NEW record \in Task, NEW w \in Worker,
         tasks' = [tasks EXCEPT ![id] = record],
         worker' = [worker EXCEPT ![id] = w],
         nextTaskId' = nextTaskId,
         worker[id].at # "none", w.at # "none",
         record.status \in {"queued", "running"} <=> w.at \in InFlight,
         record.status = "absent" <=> tasks[id].status = "absent",
         w.at \in {"returned", "refreshed"} => w.outcome \in Outcome
  PROVE  RecordsOK' /\ Retained' = Retained
<1>1. tasks \in [TaskId -> Task] /\ worker \in [TaskId -> Worker]
  BY DEF IInv, TypeOK
<1>2. tasks' \in [TaskId -> Task] /\ worker' \in [TaskId -> Worker]
  BY <1>1
<1>3. \A i \in TaskId : /\ tasks'[i] = IF i = id THEN record ELSE tasks[i]
                        /\ worker'[i] = IF i = id THEN w ELSE worker[i]
  BY <1>1
<1>4. WorkerKeepsRecord'
  BY <1>3 DEF IInv, WorkerKeepsRecord, Live, InFlight
<1>5. UnusedIdsBlank'
  BY <1>3 DEF IInv, UnusedIdsBlank
<1>6. OutcomeKnown'
  BY <1>3 DEF IInv, OutcomeKnown
<1>7. Retained' = Retained
  BY <1>3 DEF Retained
<1> QED
  BY <1>2, <1>4, <1>5, <1>6, <1>7 DEF RecordsOK

\* What a worker in flight finds.
LEMMA WorkerFacts ==
  ASSUME IInv, NEW id \in TaskId
  PROVE  /\ tasks[id] \in Task /\ worker[id] \in Worker
         /\ tasks = [tasks EXCEPT ![id] = tasks[id]]
         /\ worker = [worker EXCEPT ![id] = worker[id]]
         /\ tasks[id].status \in {"queued", "running"} <=> worker[id].at \in InFlight
         /\ worker[id].at \in InFlight => id \in Retained
BY DEF IInv, TypeOK, WorkerKeepsRecord, Live, Retained, InFlight

LEMMA MarkRunningRecords ==
  ASSUME IInv, NEW id \in TaskId, worker[id].at = "spawned", MarkRunning(id),
         NEW at \in {"started", "command"},
         worker' = [worker EXCEPT ![id].at = at], nextTaskId' = nextTaskId
  PROVE  RecordsOK' /\ Retained' = Retained
<1> DEFINE record == [tasks[id] EXCEPT !.status = "running"]
           w == [worker[id] EXCEPT !.at = at]
<1>1. /\ tasks[id] \in Task /\ worker[id] \in Worker
      /\ tasks[id].status \in {"queued", "running"} /\ id \in Retained
  BY WorkerFacts DEF InFlight
<1>2. tasks' = [tasks EXCEPT ![id] = record] /\ worker' = [worker EXCEPT ![id] = w]
  BY <1>1 DEF MarkRunning
<1>3. record \in Task /\ record.status = "running"
  BY <1>1 DEF Task
<1>4. w \in Worker /\ w.at = at
  BY <1>1 DEF Worker
<1> HIDE DEF record, w
<1> QED
  BY <1>1, <1>2, <1>3, <1>4, OneWorkerStep DEF InFlight

LEMMA BeginCommandRecords ==
  ASSUME IInv, NEW id \in TaskId, BeginCommand(id)
  PROVE  RecordsOK' /\ Retained' = Retained
<1> DEFINE w == [worker[id] EXCEPT
                   !.guard = worker[id].kind = Scan,
                   !.at = IF tasks[id].cancel THEN "returned" ELSE "command",
                   !.outcome = IF tasks[id].cancel THEN "interrupted" ELSE worker[id].outcome]
<1>1. /\ tasks[id] \in Task /\ worker[id] \in Worker
      /\ tasks[id].status \in {"queued", "running"}
      /\ worker[id].at = "started"
  BY WorkerFacts DEF BeginCommand, InFlight
<1>2. /\ tasks' = [tasks EXCEPT ![id] = tasks[id]]
      /\ worker' = [worker EXCEPT ![id] = w]
      /\ nextTaskId' = nextTaskId
  BY WorkerFacts DEF BeginCommand
<1>3. /\ w \in Worker /\ w.at \in {"returned", "command"}
      /\ w.at = "returned" => w.outcome = "interrupted"
  BY <1>1 DEF Worker, Outcome
<1> HIDE DEF w
<1> QED
  BY <1>1, <1>2, <1>3, OneWorkerStep DEF InFlight, Outcome

LEMMA ReturnCommandRecords ==
  ASSUME IInv, NEW id \in TaskId, NEW outcome \in Outcome, ReturnCommand(id, outcome)
  PROVE  RecordsOK' /\ Retained' = Retained
<1>1. /\ tasks[id] \in Task /\ worker[id] \in Worker
      /\ tasks[id].status \in {"queued", "running"}
      /\ worker[id].at = "command"
  BY WorkerFacts DEF ReturnCommand, InFlight
<1>2. PICK guard \in BOOLEAN :
        worker' = [worker EXCEPT
            ![id].at = IF worker[id].kind = Mood THEN "refreshed" ELSE "returned",
            ![id].outcome = outcome,
            ![id].guard = guard]
  BY <1>1 DEF ReturnCommand, Worker
<1> DEFINE w == [worker[id] EXCEPT
                   !.at = IF worker[id].kind = Mood THEN "refreshed" ELSE "returned",
                   !.outcome = outcome,
                   !.guard = guard]
<1>3. /\ tasks' = [tasks EXCEPT ![id] = tasks[id]]
      /\ worker' = [worker EXCEPT ![id] = w]
      /\ nextTaskId' = nextTaskId
  BY <1>2, WorkerFacts, ZenonT(60) DEF ReturnCommand
<1>4. w \in Worker /\ w.at \in {"returned", "refreshed"} /\ w.outcome = outcome
  BY <1>1 DEF Worker
<1> HIDE DEF w
<1> QED
  BY <1>1, <1>3, <1>4, OneWorkerStep DEF InFlight

LEMMA RefreshedRecords ==
  ASSUME IInv, NEW id \in TaskId, Refreshed(id)
  PROVE  RecordsOK' /\ Retained' = Retained
<1> DEFINE w == [worker[id] EXCEPT !.at = "refreshed"]
<1>1. /\ tasks[id] \in Task /\ worker[id] \in Worker
      /\ tasks[id].status \in {"queued", "running"}
      /\ worker[id].at = "returned" /\ worker[id].outcome \in Outcome
  BY WorkerFacts DEF Refreshed, InFlight, IInv, OutcomeKnown
<1>2. /\ tasks' = [tasks EXCEPT ![id] = tasks[id]]
      /\ worker' = [worker EXCEPT ![id] = w]
      /\ nextTaskId' = nextTaskId
  BY WorkerFacts DEF Refreshed
<1>3. w \in Worker /\ w.at = "refreshed" /\ w.outcome = worker[id].outcome
  BY <1>1 DEF Worker
<1> HIDE DEF w
<1> QED
  BY <1>1, <1>2, <1>3, OneWorkerStep DEF InFlight

\* finish writes a well-formed record.
LEMMA FinalRecordType ==
  ASSUME NEW task \in Task, NEW outcome \in Outcome
  PROVE  FinalRecord(task, outcome) \in Task
<1> DEFINE status == FinalStatus(outcome, task.cancel)
           result == IF outcome = "error" THEN task.result ELSE outcome
           partial == IF outcome = "error" \/ status = "cancelled" THEN task.partial ELSE 0
           error == IF status = "completed" THEN task.error
                    ELSE IF status = "cancelled" THEN "task_cancelled" ELSE "command_failed"
<1>1. status \in {"completed", "failed", "cancelled"}
  BY DEF FinalStatus
<1>2. result \in (Outcome \ {"error"}) \cup {"none"}
  BY DEF Task
<1>3. partial \in 0..MaxFiles
  BY JobsAssumption DEF Task
<1>4. error \in {"none", "task_cancelled", "command_failed"}
  BY DEF Task
<1>5. FinalRecord(task, outcome) =
        [task EXCEPT !.status = status, !.result = result, !.partial = partial, !.error = error]
  BY DEF FinalRecord
<1> HIDE DEF status, result, partial, error
<1> QED
  BY <1>1, <1>2, <1>3, <1>4, <1>5 DEF Task

LEMMA FinishRecords ==
  ASSUME IInv, NEW id \in TaskId, Finish(id)
  PROVE  /\ RecordsOK' /\ Retained' = Retained
         /\ tasks' = [tasks EXCEPT ![id] = FinalRecord(tasks[id], worker[id].outcome)]
<1> DEFINE final == FinalRecord(tasks[id], worker[id].outcome)
           w == [worker[id] EXCEPT !.at = "announcing", !.outcome = final.status]
<1>1. /\ tasks[id] \in Task /\ worker[id] \in Worker
      /\ tasks[id].status \in {"queued", "running"} /\ id \in Retained
      /\ worker[id].at = "refreshed" /\ worker[id].outcome \in Outcome
  BY WorkerFacts DEF Finish, InFlight, IInv, OutcomeKnown
<1>2. /\ tasks' = [tasks EXCEPT ![id] = final]
      /\ worker' = [worker EXCEPT ![id] = w]
      /\ nextTaskId' = nextTaskId
  BY <1>1 DEF Finish
<1>3. final \in Task /\ final.status \in {"completed", "failed", "cancelled"}
  BY <1>1, FinalRecordType, FinalRecordTerminal DEF Terminal
<1> HIDE DEF final
<1>4. w \in Worker /\ w.at = "announcing"
  BY <1>1, <1>3 DEF Worker
<1> HIDE DEF w
<1>5. RecordsOK' /\ Retained' = Retained
  BY <1>1, <1>2, <1>3, <1>4, OneWorkerStep DEF InFlight
<1> QED
  BY <1>2, <1>5 DEF final

LEMMA AnnounceEndRecords ==
  ASSUME IInv, NEW id \in TaskId, AnnounceEnd(id)
  PROVE  RecordsOK' /\ Retained' = Retained
<1> DEFINE w == [worker[id] EXCEPT !.at = "done", !.guard = FALSE]
<1>1. /\ tasks[id] \in Task /\ worker[id] \in Worker
      /\ tasks[id].status \notin {"queued", "running"}
      /\ worker[id].at = "announcing"
  BY WorkerFacts DEF AnnounceEnd, InFlight
<1>2. /\ tasks' = [tasks EXCEPT ![id] = tasks[id]]
      /\ worker' = [worker EXCEPT ![id] = w]
      /\ nextTaskId' = nextTaskId
  BY WorkerFacts DEF AnnounceEnd
<1>3. w \in Worker /\ w.at = "done"
  BY <1>1 DEF Worker
<1> HIDE DEF w
<1> QED
  BY <1>1, <1>2, <1>3, OneWorkerStep DEF InFlight

\* Steps that write a field of one record other than status and kind.
LEMMA OneRecordStep ==
  ASSUME IInv, NEW id \in TaskId, NEW record \in Task,
         tasks' = [tasks EXCEPT ![id] = record], worker' = worker,
         nextTaskId' = nextTaskId, record.status = tasks[id].status,
         tasks[id].status # "absent"
  PROVE  RecordsOK' /\ Retained' = Retained
<1>1. /\ tasks[id] \in Task /\ worker[id] \in Worker
      /\ worker' = [worker EXCEPT ![id] = worker[id]]
      /\ tasks[id].status \in {"queued", "running"} <=> worker[id].at \in InFlight
  BY WorkerFacts
<1>2. worker[id].at # "none"
  BY DEF IInv, UnusedIdsBlank
<1>3. worker[id].at \in {"returned", "refreshed"} => worker[id].outcome \in Outcome
  BY DEF IInv, OutcomeKnown
<1> QED
  BY <1>1, <1>2, <1>3, OneWorkerStep

LEMMA CancelRecords ==
  ASSUME IInv, NEW id \in TaskId, Cancel(id)
  PROVE  RecordsOK' /\ Retained' = Retained
<1> DEFINE record == [tasks[id] EXCEPT !.cancel = TRUE]
<1>1. tasks[id] \in Task /\ tasks[id].status # "absent"
  BY WorkerFacts DEF Cancel, Live
<1>2. record \in Task /\ record.status = tasks[id].status
  BY <1>1 DEF Task
<1>3. tasks' = [tasks EXCEPT ![id] = record]
  BY DEF Cancel
<1> HIDE DEF record
<1> QED
  BY <1>1, <1>2, <1>3, OneRecordStep DEF Cancel

LEMMA MoodProgressRecords ==
  ASSUME IInv, NEW id \in TaskId, MoodProgress(id)
  PROVE  RecordsOK' /\ Retained' = Retained
<1> DEFINE record == [tasks[id] EXCEPT !.progress = @ + 1]
<1>1. tasks[id] \in Task /\ tasks[id].status # "absent"
  BY WorkerFacts DEF MoodProgress, InFlight
<1>2. tasks[id].progress < MaxFiles /\ worker' = worker
      /\ tasks' = [tasks EXCEPT ![id] = record]
  BY MoodProgressKeeps
<1>3. record \in Task /\ record.status = tasks[id].status
  BY <1>1, <1>2, JobsAssumption DEF Task
<1> HIDE DEF record
<1> QED
  BY <1>1, <1>2, <1>3, OneRecordStep DEF MoodProgress

LEMMA ReportSnapshotRecords ==
  ASSUME IInv, NEW id \in TaskId, NEW files \in 1..MaxFiles, ReportSnapshot(id, files)
  PROVE  RecordsOK' /\ Retained' = Retained
<1> DEFINE record == [tasks[id] EXCEPT !.partial = files]
<1>1. tasks[id] \in Task /\ tasks[id].status # "absent"
  BY WorkerFacts DEF ReportSnapshot, SnapshotAccepted
<1>2. tasks' = [tasks EXCEPT ![id] = record]
  BY DEF ReportSnapshot
<1>3. record \in Task /\ record.status = tasks[id].status
  BY <1>1, JobsAssumption DEF Task
<1> HIDE DEF record
<1> QED
  BY <1>1, <1>2, <1>3, OneRecordStep DEF ReportSnapshot

LEMMA MonitorForceRecords ==
  ASSUME IInv, MonitorForce
  PROVE  RecordsOK' /\ Retained' = Retained
<1>1. tasks \in [TaskId -> Task] /\ worker \in [TaskId -> Worker]
  BY DEF IInv, TypeOK
<1>2. \A id \in TaskId : /\ [tasks[id] EXCEPT !.cancel = TRUE] \in Task
                         /\ [tasks[id] EXCEPT !.cancel = TRUE].status = tasks[id].status
  BY <1>1 DEF Task
<1>3. \A id \in TaskId : tasks'[id] \in Task /\ tasks'[id].status = tasks[id].status
  BY <1>1, <1>2 DEF MonitorForce
<1>4. tasks' \in [TaskId -> Task]
  BY <1>3 DEF MonitorForce
<1>5. worker' = worker /\ nextTaskId' = nextTaskId
  BY DEF MonitorForce
<1>6. WorkerKeepsRecord' /\ UnusedIdsBlank' /\ OutcomeKnown'
  BY <1>3, <1>5 DEF IInv, WorkerKeepsRecord, Live, UnusedIdsBlank, OutcomeKnown
<1> QED
  BY <1>1, <1>3, <1>4, <1>5, <1>6 DEF RecordsOK, Retained
-----------------------------------------------------------------------------
(***************************************************************************)
(* Insertion and eviction.                                                 *)
(***************************************************************************)

\* A set of natural numbers has a smallest member.
LEMMA SmallestExists ==
  ASSUME NEW T, T \subseteq Nat, T # {}
  PROVE  \E least \in T : \A other \in T : least <= other
<1>1. PICK least \in T : \A other \in T : ~(<<other, least>> \in OpToRel(<, Nat))
  BY NatLessThanWellFounded, WFMin
<1>2. \A other \in T : ~(other < least)
  BY <1>1 DEF OpToRel
<1> QED
  BY <1>2

\* A full registry has a finished record to evict when admission allows another:
\* the unfinished ones are fewer than MAX_ACTIVE.
LEMMA FullRegistryEvicts ==
  ASSUME IInv, active < MaxActive, Cardinality(Retained) >= MaxRetained
  PROVE  \E id \in Retained : id \in Evicted
<1>1. Finished # {}
  <2> SUFFICES ASSUME Finished = {} PROVE FALSE
    OBVIOUS
  <2>1. Retained \subseteq Holders
    <3> SUFFICES ASSUME NEW id \in Retained PROVE Live(id)
      BY DEF Retained, Holders, LiveTasks
    <3>1. tasks[id] \in Task /\ id \in TaskId /\ tasks[id].status # "absent"
      BY DEF IInv, TypeOK, Retained
    <3>2. ~Terminal(tasks[id].status)
      BY <3>1 DEF Finished
    <3>3. tasks[id].status \in {"absent", "queued", "running", "completed", "failed", "cancelled"}
      BY <3>1 DEF Task
    <3> QED BY <3>1, <3>2, <3>3 DEF Terminal, Live
  <2>2. Cardinality(Retained) <= Cardinality(Holders)
    BY <2>1, SetsFinite, FS_Subset
  <2> QED
    BY <2>2, SetsFinite, JobsAssumption DEF IInv, AdmissionAccounted
<1>2. Finished \subseteq Nat /\ Finished \subseteq Retained
  BY JobsAssumption DEF Finished, TaskId, Retained, Terminal
<1>3. PICK oldest \in Finished : \A other \in Finished : oldest <= other
  BY <1>1, <1>2, SmallestExists
<1>4. oldest \in Evicted
  BY <1>3 DEF Evicted
<1> QED
  BY <1>2, <1>4

LEMMA InsertRecords ==
  ASSUME IInv, NEW h \in Handler, Insert(h)
  PROVE  RecordsOK' /\ Cardinality(Retained') <= MaxRetained
<1>1. PICK id, kind : id = handler[h].id /\ kind = handler[h].kind
  OBVIOUS
<1>2. /\ id \in TaskId /\ kind \in Kind /\ tasks[id].status = "absent"
      /\ worker[id].at = "none" /\ id < nextTaskId
  BY <1>1, RequestIsNew DEF Insert, IInv, RequestsFresh
<1> DEFINE w == [Idle EXCEPT !.at = "spawned", !.kind = kind]
<1>3. /\ Queued(kind) \in Task /\ Queued(kind).status = "queued"
      /\ Absent \in Task /\ Absent.status = "absent"
  <2>1. Absent \in Task /\ Absent.status = "absent"
    BY JobsAssumption DEF Absent, Task
  <2> QED BY <1>2, <2>1 DEF Queued, Task
<1>4. w \in Worker /\ w.at = "spawned"
  BY <1>2 DEF Idle, Worker
<1>5. tasks \in [TaskId -> Task] /\ worker \in [TaskId -> Worker] /\ nextTaskId' = nextTaskId
  BY DEF IInv, TypeOK, Insert
<1>6. tasks' = [i \in TaskId |-> IF i = id THEN Queued(kind)
                                 ELSE IF i \in Evicted THEN Absent ELSE tasks[i]]
  BY <1>1 DEF Insert
<1>7. worker' = [worker EXCEPT ![id] = w]
  BY <1>1 DEF Insert
<1> HIDE DEF w
<1>8. tasks' \in [TaskId -> Task] /\ worker' \in [TaskId -> Worker]
  BY <1>2, <1>3, <1>4, <1>5, <1>6, <1>7
<1>9. \A i \in TaskId :
        /\ tasks'[i] = IF i = id THEN Queued(kind) ELSE IF i \in Evicted THEN Absent ELSE tasks[i]
        /\ worker'[i] = IF i = id THEN w ELSE worker[i]
  BY <1>5, <1>6, <1>7
<1>10. \A i \in Evicted : tasks[i].status \notin {"queued", "running"}
  BY EvictedFinished DEF Finished, Terminal
<1>11. WorkerKeepsRecord'
  BY <1>3, <1>4, <1>9, <1>10 DEF IInv, WorkerKeepsRecord, Live
<1>12. UnusedIdsBlank'
  <2> SUFFICES ASSUME NEW i \in TaskId
               PROVE  /\ i >= nextTaskId => worker'[i].at = "none"
                      /\ worker'[i].at = "none" => tasks'[i].status = "absent"
    BY <1>5 DEF UnusedIdsBlank
  <2>1. i \in Int /\ nextTaskId \in Int
    BY JobsAssumption DEF TaskId, IInv, TypeOK
  <2>2. CASE i = id
    BY <1>2, <1>4, <1>9, <2>1, <2>2
  <2>3. CASE i # id
    BY <1>3, <1>9, <2>3 DEF IInv, UnusedIdsBlank
  <2> QED BY <2>2, <2>3
<1>13. OutcomeKnown'
  BY <1>4, <1>9 DEF IInv, OutcomeKnown
<1>14. Cardinality(Retained') <= MaxRetained
  <2>1. id \notin Retained
    BY <1>2 DEF Retained
  <2>2. active < MaxActive /\ Cardinality(Retained) <= MaxRetained
    BY DEF Insert, Admissible, IInv, RegistryBounded
  <2>3. Retained' \subseteq (Retained \ Evicted) \cup {id}
    BY <1>3, <1>9 DEF Retained
  <2>4. CASE Cardinality(Retained) < MaxRetained
    <3>1. /\ IsFiniteSet(Retained \cup {id})
          /\ Cardinality(Retained \cup {id}) = Cardinality(Retained) + 1
      BY <2>1, SetsFinite, FS_AddElement
    <3>2. Cardinality(Retained') <= Cardinality(Retained \cup {id})
      BY <2>3, <3>1, FS_Subset
    <3>3. IsFiniteSet(Retained') /\ Cardinality(Retained') \in Nat
      BY <2>3, <3>1, FS_Subset, FS_CardinalityType
    <3> QED BY <2>4, <3>1, <3>2, <3>3, SetsFinite, JobsAssumption
  <2>5. CASE Cardinality(Retained) >= MaxRetained
    <3>1. PICK old \in Retained : old \in Evicted
      BY <2>2, <2>5, FullRegistryEvicts
    <3>2. IsFiniteSet(Retained \ {old}) /\ Cardinality(Retained \ {old}) = Cardinality(Retained) - 1
      BY SetsFinite, FS_RemoveElement
    <3>3. /\ IsFiniteSet((Retained \ {old}) \cup {id})
          /\ Cardinality((Retained \ {old}) \cup {id}) = Cardinality(Retained)
      <4>1. id \notin Retained \ {old}
        BY <2>1
      <4>2. Cardinality((Retained \ {old}) \cup {id}) = Cardinality(Retained \ {old}) + 1
            /\ IsFiniteSet((Retained \ {old}) \cup {id})
        BY <3>2, <4>1, FS_AddElement
      <4> QED BY <3>2, <4>2, SetsFinite
    <3>4. Cardinality(Retained') <= Cardinality((Retained \ {old}) \cup {id})
      BY <2>3, <3>1, <3>3, FS_Subset
    <3>5. Cardinality(Retained') \in Nat
      BY <2>3, <3>1, <3>3, FS_Subset, FS_CardinalityType
    <3> QED BY <2>2, <3>3, <3>4, <3>5, SetsFinite, JobsAssumption
  <2> QED BY <2>4, <2>5, SetsFinite, JobsAssumption
<1> QED
  BY <1>8, <1>11, <1>12, <1>13, <1>14 DEF RecordsOK

LEMMA RecordsStep ==
  ASSUME IInv, [Next]_vars
  PROVE  /\ RecordsOK' /\ Cardinality(Retained') <= MaxRetained
         /\ Retained' = Retained \/ \E h \in Handler : Insert(h)
<1> DEFINE Goal == /\ RecordsOK' /\ Cardinality(Retained') <= MaxRetained
                   /\ Retained' = Retained \/ \E h \in Handler : Insert(h)
<1>0. ASSUME RecordsOK', Retained' = Retained PROVE Goal
  BY <1>0 DEF IInv, RegistryBounded
<1>1. ASSUME NEW h \in Handler, NEW kind \in Requested, TakeTaskId(h, kind) PROVE Goal
  BY <1>0, <1>1, RecordsUntouched DEF TakeTaskId
<1>2. ASSUME NEW h \in Handler, Insert(h) PROVE Goal
  BY <1>2, InsertRecords
<1>3. ASSUME NEW h \in Handler, Refuse(h) PROVE Goal
  BY <1>0, <1>3, RecordsUntouched DEF Refuse
<1>4. ASSUME NEW id \in TaskId, JobStep(id) PROVE Goal
  <2>1. CASE StartJob(id)
    BY <1>0, <2>1, MarkRunningRecords DEF StartJob
  <2>2. CASE BeginCommand(id)
    BY <1>0, <2>2, BeginCommandRecords
  <2>3. CASE StartMood(id)
    BY <1>0, <2>3, MarkRunningRecords DEF StartMood
  <2>4. CASE Refreshed(id)
    BY <1>0, <2>4, RefreshedRecords
  <2>5. CASE Finish(id)
    BY <1>0, <2>5, FinishRecords
  <2>6. CASE AnnounceEnd(id)
    BY <1>0, <2>6, AnnounceEndRecords
  <2> QED BY <1>4, <2>1, <2>2, <2>3, <2>4, <2>5, <2>6 DEF JobStep
<1>5. ASSUME NEW id \in TaskId, Cancel(id) PROVE Goal
  BY <1>0, <1>5, CancelRecords
<1>6. ASSUME NEW id \in TaskId, MoodProgress(id) PROVE Goal
  BY <1>0, <1>6, MoodProgressRecords
<1>7. ASSUME NEW id \in TaskId, NEW files \in 1..MaxFiles, ReportSnapshot(id, files) PROVE Goal
  BY <1>0, <1>7, ReportSnapshotRecords
<1>8. ASSUME NEW id \in TaskId, NEW outcome \in Outcome, ReturnCommand(id, outcome) PROVE Goal
  BY <1>0, <1>8, ReturnCommandRecords
<1>9. ASSUME NEW s \in ScanWorker, ReserveScan(s) PROVE Goal
  BY <1>0, <1>9, RecordsUntouched DEF ReserveScan
<1>10. ASSUME NEW s \in ScanWorker, ScanStep(s) PROVE Goal
  BY <1>0, <1>10, RecordsUntouched
     DEF ScanStep, ScanBusy, BeginScan, FailScan, ReturnScan, PublishScan
<1>11. ASSUME NEW s \in ScanWorker, AbandonScan(s) PROVE Goal
  BY <1>0, <1>11, RecordsUntouched DEF AbandonScan
<1>12. CASE CloseOwner \/ ForceStop
  BY <1>0, <1>12, RecordsUntouched DEF CloseOwner, ForceStop
<1>13. CASE MonitorForce
  BY <1>0, <1>13, MonitorForceRecords
<1>14. CASE ServerStep
  BY <1>0, <1>14, RecordsUntouched
     DEF ServerStep, BeginShutdown, Drained, ArmWait, CheckActive, Await, WakeWait
<1>15. CASE Exit \/ UNCHANGED vars
  BY <1>0, <1>15, RecordsUntouched DEF Exit, vars
<1> QED
  BY <1>1, <1>2, <1>3, <1>4, <1>5, <1>6, <1>7, <1>8, <1>9, <1>10, <1>11,
     <1>12, <1>13, <1>14, <1>15 DEF Next
-----------------------------------------------------------------------------
(***************************************************************************)
(* Requests in flight, the server's phase and the remaining types.         *)
(***************************************************************************)

\* No step but an insertion touches an id that was never inserted.
LEMMA UnusedStaysUnused ==
  ASSUME IInv, [Next]_vars, NEW i \in TaskId, worker[i].at = "none",
         \A h \in Handler : ~Insert(h)
  PROVE  worker'[i].at = "none"
<1>0. worker \in [TaskId -> Worker]
  BY DEF IInv, TypeOK
<1> DEFINE Goal == worker'[i].at = "none"
<1>1. ASSUME NEW id \in TaskId, JobStep(id) PROVE Goal
  <2>1. CASE StartJob(id) \/ StartMood(id)
    BY <1>0, <2>1 DEF StartJob, StartMood
  <2>2. CASE BeginCommand(id)
    BY <1>0, <2>2 DEF BeginCommand
  <2>3. CASE Refreshed(id) \/ AnnounceEnd(id)
    BY <1>0, <2>3 DEF Refreshed, AnnounceEnd
  <2>4. CASE Finish(id)
    BY <1>0, <2>4 DEF Finish
  <2> QED BY <1>1, <2>1, <2>2, <2>3, <2>4 DEF JobStep
<1>2. ASSUME NEW id \in TaskId, MoodProgress(id) PROVE Goal
  BY <1>2, MoodProgressKeeps
<1>3. ASSUME NEW id \in TaskId, NEW outcome \in Outcome, ReturnCommand(id, outcome) PROVE Goal
  BY <1>0, <1>3 DEF ReturnCommand
<1>4. CASE worker' = worker
  BY <1>4
<1> QED
  BY <1>1, <1>2, <1>3, <1>4
     DEF Next, TakeTaskId, Refuse, Cancel, ReportSnapshot, ReserveScan, ScanStep,
         ScanBusy, BeginScan, FailScan, ReturnScan, PublishScan, AbandonScan,
         CloseOwner, ForceStop, MonitorForce, ServerStep, BeginShutdown, Drained,
         ArmWait, CheckActive, Await, WakeWait, Exit, vars

\* Ids are only ever handed out, one at a time.
LEMMA NextTaskIdStep ==
  ASSUME IInv, [Next]_vars
  PROVE  /\ nextTaskId' \in {nextTaskId, nextTaskId + 1}
         /\ nextTaskId' # nextTaskId => nextTaskId <= MaxTaskId
BY DEF Next, TakeTaskId, Insert, Refuse, Cancel, MoodProgress, ReportSnapshot,
       ReturnCommand, ReserveScan, ScanStep, ScanBusy, BeginScan, FailScan,
       ReturnScan, PublishScan, AbandonScan, CloseOwner, ForceStop, MonitorForce,
       ServerStep, BeginShutdown, Drained, ArmWait, CheckActive, Await, WakeWait, Exit,
       JobStep, StartJob, StartMood, BeginCommand, Refreshed, Finish, AnnounceEnd, vars

\* What a step does to the handlers.
LEMMA HandlerStep ==
  ASSUME IInv, [Next]_vars
  PROVE  \/ handler' = handler /\ \A h \in Handler : ~Insert(h)
         \/ \E h \in Handler, kind \in Requested : TakeTaskId(h, kind)
         \/ \E h \in Handler : Insert(h) \/ Refuse(h)
BY DEF Next, Cancel, MoodProgress, ReportSnapshot,
       ReturnCommand, ReserveScan, ScanStep, ScanBusy, BeginScan, FailScan,
       ReturnScan, PublishScan, AbandonScan, CloseOwner, ForceStop, MonitorForce,
       ServerStep, BeginShutdown, Drained, ArmWait, CheckActive, Await, WakeWait, Exit,
       JobStep, StartJob, StartMood, BeginCommand, Refreshed, Finish, AnnounceEnd, vars

LEMMA RequestsStep ==
  ASSUME IInv, [Next]_vars
  PROVE  /\ handler' \in [Handler -> Request \cup {NoRequest}]
         /\ nextTaskId' \in 1..(MaxTaskId + 1)
         /\ RequestsFresh'
<1>0. /\ handler \in [Handler -> Request \cup {NoRequest}]
      /\ nextTaskId \in 1..(MaxTaskId + 1) /\ MaxTaskId \in Nat
      /\ RequestsFresh
      /\ \A h \in Handler : handler[h] # NoRequest => handler[h].id \in TaskId
  BY JobsAssumption DEF IInv, TypeOK, Request
<1>1. /\ nextTaskId' \in {nextTaskId, nextTaskId + 1}
      /\ nextTaskId' \in 1..(MaxTaskId + 1)
  BY <1>0, NextTaskIdStep
<1>2. ASSUME handler' = handler, \A h \in Handler : ~Insert(h)
      PROVE  RequestsFresh'
  <2>1. \A h \in Handler : handler[h] # NoRequest => worker'[handler[h].id].at = "none"
    BY <1>0, <1>2, UnusedStaysUnused DEF RequestsFresh
  <2> QED BY <1>0, <1>1, <1>2, <2>1 DEF RequestsFresh, TaskId
<1>3. ASSUME NEW h \in Handler, NEW kind \in Requested, TakeTaskId(h, kind)
      PROVE  RequestsFresh' /\ handler' \in [Handler -> Request \cup {NoRequest}]
  <2>1. /\ handler' = [handler EXCEPT ![h] = [id |-> nextTaskId, kind |-> kind]]
        /\ nextTaskId' = nextTaskId + 1 /\ nextTaskId \in TaskId /\ worker' = worker
    BY <1>0, <1>3 DEF TakeTaskId, TaskId
  <2>2. [id |-> nextTaskId, kind |-> kind] \in Request
    BY <2>1, JobsAssumption DEF Request
  <2>3. \A g \in Handler : g # h => handler'[g] = handler[g] /\ handler[g].id # nextTaskId
    BY <1>0, <2>1 DEF RequestsFresh, NoRequest, TaskId
  <2>4. handler'[h].id = nextTaskId /\ worker[nextTaskId].at = "none"
    BY <1>0, <2>1 DEF IInv, UnusedIdsBlank, TaskId
  <2>5. RequestsFresh'
    BY <1>0, <2>1, <2>3, <2>4 DEF RequestsFresh, TaskId
  <2> QED BY <1>0, <2>1, <2>2, <2>5
<1>4. ASSUME NEW h \in Handler, Insert(h) \/ Refuse(h)
      PROVE  RequestsFresh' /\ handler' \in [Handler -> Request \cup {NoRequest}]
  <2>1. handler' = [handler EXCEPT ![h] = NoRequest] /\ handler[h] # NoRequest
    BY <1>4 DEF Insert, Refuse
  <2>2. worker \in [TaskId -> Worker]
    BY DEF IInv, TypeOK
  <2>3. \A i \in TaskId : i # handler[h].id => worker'[i] = worker[i]
    BY <1>4, <2>2 DEF Insert, Refuse
  <2>4. \A g \in Handler : handler'[g] # NoRequest =>
          /\ g # h /\ handler'[g] = handler[g] /\ handler[g].id # handler[h].id
    BY <1>0, <2>1 DEF RequestsFresh
  <2>5. \A g \in Handler : handler'[g] # NoRequest => worker'[handler'[g].id].at = "none"
    BY <1>0, <2>3, <2>4 DEF RequestsFresh
  <2>6. \A g \in Handler : handler'[g] # NoRequest => handler'[g].id < nextTaskId'
    BY <1>0, <1>1, <2>4 DEF RequestsFresh, TaskId
  <2>7. \A g, f \in Handler :
          handler'[g] # NoRequest /\ handler'[f].id = handler'[g].id => f = g
    BY <1>0, <2>1, <2>4 DEF RequestsFresh, NoRequest, TaskId
  <2>8. RequestsFresh'
    BY <2>5, <2>6, <2>7 DEF RequestsFresh
  <2> QED BY <1>0, <2>1, <2>8
<1> QED
  BY <1>0, <1>1, <1>2, <1>3, <1>4, HandlerStep

\* The bodyless scans and the counters of their guards.
LEMMA ScanTypesStep ==
  ASSUME IInv, [Next]_vars
  PROVE  scan' \in [ScanWorker -> ScanState] /\ scanActivity' \in Int
<1> DEFINE Goal == scan' \in [ScanWorker -> ScanState] /\ scanActivity' \in Int
<1>0. /\ scan \in [ScanWorker -> ScanState] /\ scanActivity \in Int
      /\ nextTaskId \in 1..(MaxTaskId + 1) /\ MaxTaskId \in Nat
  BY JobsAssumption DEF IInv, TypeOK
<1>1. ASSUME NEW s \in ScanWorker, DropScan(s) PROVE scan' \in [ScanWorker -> ScanState]
  <2>1. NoScan \in ScanState
    BY DEF NoScan, ScanState
  <2> QED BY <1>0, <1>1, <2>1 DEF DropScan
<1>2. ASSUME NEW s \in ScanWorker, ReserveScan(s) PROVE Goal
  <2>1. [at |-> "reserved", waiter |-> TRUE, id |-> nextTaskId] \in ScanState
    BY <1>0, <1>2 DEF ReserveScan, ScanState, TaskId
  <2> QED BY <1>0, <1>2, <2>1 DEF ReserveScan
<1>3. ASSUME NEW s \in ScanWorker, ScanStep(s) \/ AbandonScan(s) PROVE Goal
  <2>1. \A at \in {"scanning", "publishing"} : [scan[s] EXCEPT !.at = at] \in ScanState
    BY <1>0 DEF ScanState
  <2>2. [scan[s] EXCEPT !.waiter = FALSE] \in ScanState
    BY <1>0 DEF ScanState
  <2>3. CASE ScanBusy(s) \/ FailScan(s) \/ PublishScan(s)
    BY <1>0, <1>1, <2>3 DEF ScanBusy, FailScan, PublishScan
  <2>4. CASE BeginScan(s)
    BY <1>0, <2>1, <2>4 DEF BeginScan
  <2>5. CASE ReturnScan(s)
    BY <1>0, <1>1, <2>1, <2>5 DEF ReturnScan
  <2>6. CASE AbandonScan(s)
    <3>1. scanActivity' \in {scanActivity, scanActivity - 1}
      BY <2>6 DEF AbandonScan
    <3>2. DropScan(s) \/ \E state \in ScanState : scan' = [scan EXCEPT ![s] = state]
      BY <2>2, <2>6 DEF AbandonScan
    <3>3. scan' \in [ScanWorker -> ScanState]
      BY <1>0, <1>1, <3>2
    <3> QED BY <1>0, <3>1, <3>3
  <2> QED BY <1>3, <2>3, <2>4, <2>5, <2>6 DEF ScanStep
<1>4. ASSUME scan' = scan,
             scanActivity' \in {scanActivity, scanActivity + 1, scanActivity - 1}
      PROVE  Goal
  BY <1>0, <1>4
<1>5. ASSUME NEW id \in TaskId, JobStep(id) PROVE Goal
  BY <1>4, <1>5 DEF JobStep, StartJob, StartMood, BeginCommand, Refreshed, Finish,
                    AnnounceEnd, GuardDropped
<1>6. ASSUME NEW id \in TaskId, NEW outcome \in Outcome, ReturnCommand(id, outcome) PROVE Goal
  BY <1>4, <1>6 DEF ReturnCommand
<1> QED
  BY <1>2, <1>3, <1>4, <1>5, <1>6
     DEF Next, TakeTaskId, Insert, Refuse, Cancel, MoodProgress, ReportSnapshot,
         CloseOwner, ForceStop, MonitorForce, ServerStep, BeginShutdown, Drained,
         ArmWait, CheckActive, Await, WakeWait, Exit, vars

\* A worker that still announces something has an id that scans and workers use.
LEMMA EventsStep ==
  ASSUME IInv, [Next]_vars
  PROVE  events' \in [TaskId -> Seq({"started", "completed", "failed"})]
<1> DEFINE Event == {"started", "completed", "failed"}
<1>0. events \in [TaskId -> Seq(Event)]
  BY DEF IInv, TypeOK
<1>1. ASSUME NEW i, NEW event \in Event, Announce(i, event) PROVE events' \in [TaskId -> Seq(Event)]
  <2> HIDE DEF Event
  <2>1. \A j \in TaskId : Append(events[j], event) \in Seq(Event)
    BY <1>0
  <2>2. events' = [events EXCEPT ![i] = Append(events[i], event)]
    BY <1>1 DEF Announce
  <2>3. \A j \in TaskId : events'[j] \in Seq(Event)
    BY <1>0, <2>1, <2>2
  <2> QED BY <1>0, <2>2, <2>3
<1>2. ASSUME NEW id \in TaskId, JobStep(id) PROVE events' \in [TaskId -> Seq(Event)]
  BY <1>0, <1>1, <1>2 DEF JobStep, StartJob, StartMood, BeginCommand, Refreshed, Finish,
                          AnnounceEnd, EndEvent
<1>3. ASSUME NEW s \in ScanWorker, ScanStep(s) PROVE events' \in [TaskId -> Seq(Event)]
  BY <1>0, <1>1, <1>3 DEF ScanStep, ScanBusy, BeginScan, FailScan, ReturnScan, PublishScan, Announce
<1> QED
  BY <1>0, <1>2, <1>3
     DEF Next, TakeTaskId, Insert, Refuse, Cancel, MoodProgress, ReportSnapshot,
         ReturnCommand, ReserveScan, AbandonScan, CloseOwner, ForceStop, MonitorForce,
         ServerStep, BeginShutdown, Drained, ArmWait, CheckActive, Await, WakeWait, Exit, vars

\* What a step does to the server's phase.
LEMMA PhaseStep ==
  ASSUME IInv, [Next]_vars
  PROVE  phase' = phase \/ ServerStep
BY DEF Next, TakeTaskId, Insert, Refuse, Cancel, MoodProgress, ReportSnapshot,
       ReturnCommand, ReserveScan, ScanStep, ScanBusy, BeginScan, FailScan,
       ReturnScan, PublishScan, AbandonScan, CloseOwner, ForceStop, MonitorForce,
       Exit, JobStep, StartJob, StartMood, BeginCommand, Refreshed, Finish, AnnounceEnd, vars

LEMMA ServerTypesStep ==
  ASSUME IInv, [Next]_vars
  PROVE  /\ phase' \in {"serving", "draining", "waiting", "checking", "counted", "parked", "stopped"}
         /\ notified' \in BOOLEAN /\ closed' \in BOOLEAN /\ forced' \in BOOLEAN
<1>0. /\ phase \in {"serving", "draining", "waiting", "checking", "counted", "parked", "stopped"}
      /\ notified \in BOOLEAN /\ closed \in BOOLEAN /\ forced \in BOOLEAN
  BY DEF IInv, TypeOK
<1>1. phase' \in {"serving", "draining", "waiting", "checking", "counted", "parked", "stopped"}
  BY <1>0, PhaseStep
     DEF ServerStep, BeginShutdown, Drained, ArmWait, CheckActive, Await, WakeWait
<1>2. UNCHANGED <<closed, forced>> \/ CloseOwner \/ ForceStop
  BY ZenonT(60) DEF Next, TakeTaskId, Insert, Refuse, Cancel, MoodProgress, ReportSnapshot,
       ReturnCommand, ReserveScan, ScanStep, ScanBusy, BeginScan, FailScan,
       ReturnScan, PublishScan, AbandonScan, MonitorForce,
       ServerStep, BeginShutdown, Drained, ArmWait, CheckActive, Await, WakeWait, Exit,
       JobStep, StartJob, StartMood, BeginCommand, Refreshed, Finish, AnnounceEnd, vars
<1>3. CloseOwner \/ ForceStop => closed' \in BOOLEAN /\ forced' \in BOOLEAN
  BY <1>0, Zenon DEF CloseOwner, ForceStop
<1>4. closed' \in BOOLEAN /\ forced' \in BOOLEAN
  BY <1>0, <1>2, <1>3
<1>5. notified' \in {notified, FALSE} \/ NotifyWaiters
  <2>1. ASSUME NEW id \in TaskId, JobStep(id) PROVE notified' = notified \/ NotifyWaiters
    BY <2>1 DEF JobStep, StartJob, StartMood, BeginCommand, Refreshed, Finish,
                AnnounceEnd, Release
  <2>2. ASSUME NEW s \in ScanWorker, ScanStep(s) \/ AbandonScan(s)
        PROVE  notified' = notified \/ NotifyWaiters
    BY <2>2 DEF ScanStep, ScanBusy, BeginScan, FailScan, ReturnScan, PublishScan,
                AbandonScan, DropScan, Release
  <2>3. CASE ServerStep
    BY <2>3 DEF ServerStep, BeginShutdown, Drained, ArmWait, CheckActive, Await, WakeWait
  <2>4. CASE UNCHANGED notified
    BY <2>4
  <2> QED
    BY <2>1, <2>2, <2>3, <2>4
       DEF Next, TakeTaskId, Insert, Refuse, Cancel, MoodProgress, ReportSnapshot,
           ReturnCommand, ReserveScan, CloseOwner, ForceStop, MonitorForce, Exit, vars
<1>6. NotifyWaiters => notified' \in BOOLEAN
  BY <1>0, Zenon DEF NotifyWaiters
<1>7. notified' \in BOOLEAN
  BY <1>0, <1>5, <1>6
<1> QED
  BY <1>1, <1>4, <1>7

\* Only an insertion or a reservation raises the counter.
LEMMA ActiveStep ==
  ASSUME IInv, [Next]_vars
  PROVE  \/ active' \in {active, active - 1}
         \/ \E h \in Handler : Insert(h)
         \/ \E s \in ScanWorker : ReserveScan(s)
<1>1. ASSUME NEW s \in ScanWorker, ScanStep(s) \/ AbandonScan(s)
      PROVE  active' \in {active, active - 1}
  BY <1>1 DEF ScanStep, ScanBusy, BeginScan, FailScan, ReturnScan, PublishScan,
              AbandonScan, DropScan, Release
<1>2. ASSUME NEW id \in TaskId, JobStep(id)
      PROVE  active' \in {active, active - 1}
  BY <1>2 DEF JobStep, StartJob, StartMood, BeginCommand, Refreshed, Finish,
              AnnounceEnd, Release
<1> QED
  BY <1>1, <1>2
     DEF Next, TakeTaskId, Refuse, Cancel, MoodProgress, ReportSnapshot,
         ReturnCommand, CloseOwner, ForceStop, MonitorForce, ServerStep,
         BeginShutdown, Drained, ArmWait, CheckActive, Await, WakeWait, Exit, vars

LEMMA ShutdownStep ==
  ASSUME IInv, [Next]_vars
  PROVE  DrainedIsClosed' /\ StoppedIsIdle'
<1>0. DrainedIsClosed /\ StoppedIsIdle /\ active \in Nat /\ active' \in Nat
  BY AdmissionStep DEF IInv, TypeOK
<1>1. CASE phase' = phase
  <2>1. DrainedIsClosed'
    <3>1. CASE phase \in {"serving", "draining"}
      BY <1>1, <3>1 DEF DrainedIsClosed
    <3>2. CASE phase \notin {"serving", "draining"}
      BY <1>0, <1>1, <3>2, HandlerStep DEF DrainedIsClosed, TakeTaskId, Insert, Refuse
    <3> QED BY <3>1, <3>2
  <2>2. StoppedIsIdle'
    <3> SUFFICES ASSUME phase = "stopped" PROVE active' = 0
      BY <1>1 DEF StoppedIsIdle
    <3>1. active = 0 /\ \A h \in Handler : handler[h] = NoRequest
      BY <1>0 DEF StoppedIsIdle, DrainedIsClosed
    <3>2. active' \in {active, active - 1}
      BY <3>1, ActiveStep DEF Insert, ReserveScan
    <3> QED BY <1>0, <3>1, <3>2
  <2> QED BY <2>1, <2>2
<1>2. CASE ServerStep
  <2>1. CASE BeginShutdown
    BY <2>1 DEF BeginShutdown, DrainedIsClosed, StoppedIsIdle
  <2>2. CASE Drained
    BY <2>2 DEF Drained, DrainedIsClosed, StoppedIsIdle
  <2>3. CASE ArmWait
    BY <1>0, <2>3 DEF ArmWait, DrainedIsClosed, StoppedIsIdle
  <2>4. CASE CheckActive
    BY <1>0, <2>4 DEF CheckActive, DrainedIsClosed, StoppedIsIdle
  <2>5. CASE Await
    BY <1>0, <2>5 DEF Await, DrainedIsClosed, StoppedIsIdle
  <2>6. CASE WakeWait
    BY <1>0, <2>6 DEF WakeWait, DrainedIsClosed, StoppedIsIdle
  <2> QED BY <1>2, <2>1, <2>2, <2>3, <2>4, <2>5, <2>6 DEF ServerStep
<1> QED
  BY <1>1, <1>2, PhaseStep
-----------------------------------------------------------------------------
(***************************************************************************)
(* The theorems.                                                           *)
(***************************************************************************)

\* The inductive invariant of the registry.
THEOREM RegistryInvariant == Spec => []IInv
<1>1. Init => IInv
  <2> SUFFICES ASSUME Init PROVE IInv
    OBVIOUS
  <2>1. Holders = {} /\ Retained = {} /\ LiveTasks = {}
    BY DEF Init, Holders, LiveTasks, Live, Reserved, Retained, Absent, NoScan
  <2>2. Cardinality(Holders) = 0 /\ Cardinality(Retained) = 0
    BY <2>1, FS_EmptySet
  <2>3. Absent \in Task /\ Idle \in Worker /\ NoScan \in ScanState
    <3>1. Absent \in Task
      BY JobsAssumption DEF Absent, Task
    <3>2. Idle \in Worker
      BY DEF Idle, Worker
    <3>3. NoScan \in ScanState
      BY DEF NoScan, ScanState
    <3> QED BY <3>1, <3>2, <3>3
  <2>4. TypeOK
    <3>1. nextTaskId \in 1..(MaxTaskId + 1)
      BY JobsAssumption DEF Init
    <3>2. tasks \in [TaskId -> Task] /\ worker \in [TaskId -> Worker]
      BY <2>3 DEF Init
    <3>3. scan \in [ScanWorker -> ScanState]
      BY <2>3 DEF Init
    <3>4. handler \in [Handler -> Request \cup {NoRequest}]
      BY DEF Init
    <3>5. events \in [TaskId -> Seq({"started", "completed", "failed"})]
      BY DEF Init
    <3>6. /\ active \in Nat /\ scanActivity \in Int
          /\ phase \in {"serving", "draining", "waiting", "checking", "counted", "parked", "stopped"}
      BY DEF Init
    <3>7. notified \in BOOLEAN /\ closed \in BOOLEAN /\ forced \in BOOLEAN
      BY DEF Init
    <3> QED BY <3>1, <3>2, <3>3, <3>4, <3>5, <3>6, <3>7 DEF TypeOK
  <2>5. AdmissionAccounted /\ RegistryBounded
    BY <2>2, JobsAssumption DEF Init, AdmissionAccounted, RegistryBounded
  <2>6. GenerationExclusive /\ MoodAlone
    BY <2>1 DEF GenerationExclusive, MoodAlone
  <2>7. WorkerKeepsRecord /\ UnusedIdsBlank /\ OutcomeKnown
    BY DEF Init, WorkerKeepsRecord, UnusedIdsBlank, OutcomeKnown, Live, Absent, Idle
  <2>8. RequestsFresh /\ DrainedIsClosed /\ StoppedIsIdle
    BY DEF Init, RequestsFresh, DrainedIsClosed, StoppedIsIdle
  <2> QED BY <2>4, <2>5, <2>6, <2>7, <2>8 DEF IInv
<1>2. IInv /\ [Next]_vars => IInv'
  <2> SUFFICES ASSUME IInv, [Next]_vars PROVE IInv'
    OBVIOUS
  <2>1. /\ active' \in Nat /\ active' <= MaxActive
        /\ AdmissionAccounted' /\ GenerationExclusive' /\ MoodAlone'
    BY AdmissionStep
  <2>2. RecordsOK' /\ Cardinality(Retained') <= MaxRetained
    BY RecordsStep
  <2>3. TypeOK'
    BY <2>1, <2>2, RequestsStep, ScanTypesStep, EventsStep, ServerTypesStep DEF TypeOK, RecordsOK
  <2> QED
    BY <2>1, <2>2, <2>3, RequestsStep, ShutdownStep DEF IInv, RecordsOK, RegistryBounded
<1> QED
  BY <1>1, <1>2, PTL DEF Spec

\* Every record, worker, counter and notification of the server stays well formed,
\* and the unsigned active counter never wraps below zero.
THEOREM TypeCorrect == Spec => []TypeOK
<1>1. IInv => TypeOK
  BY DEF IInv
<1> QED BY <1>1, RegistryInvariant, PTL

\* jobs.rs counts admissions exactly: admission and shutdown may trust active.
THEOREM AdmissionIsAccounted == Spec => []AdmissionAccounted
<1>1. IInv => AdmissionAccounted
  BY DEF IInv
<1> QED BY <1>1, RegistryInvariant, PTL

\* RegistryData::admit keeps whole-library generation alone.
THEOREM GenerationIsExclusive == Spec => []GenerationExclusive
<1>1. IInv => GenerationExclusive
  BY DEF IInv
<1> QED BY <1>1, RegistryInvariant, PTL

\* MAX_ACTIVE and MAX_RETAINED hold, whatever they are: insert always finds a
\* finished record to evict from a full registry.
THEOREM RegistryIsBounded == Spec => []RegistryBounded
<1>1. IInv => RegistryBounded
  BY DEF IInv
<1> QED BY <1>1, RegistryInvariant, PTL

\* finish always finds the record of its worker, so it never leaks an admission.
THEOREM WorkersKeepRecords == Spec => []WorkerKeepsRecord
<1>1. IInv => WorkerKeepsRecord
  BY DEF IInv
<1> QED BY <1>1, RegistryInvariant, PTL

\* When wait_for_jobs returns, nothing admitted is left and nothing can be.
THEOREM StoppedServerIsQuiet == Spec => []StoppedIsQuiet
<1>1. IInv => StoppedIsQuiet
  <2> SUFFICES ASSUME IInv, phase = "stopped"
               PROVE  /\ \A h \in Handler : handler[h] = NoRequest
                      /\ \A s \in ScanWorker : scan[s].at = "idle"
                      /\ \A id \in TaskId : worker[id].at \in {"none", "announcing", "done"}
    BY DEF StoppedIsQuiet
  <2>1. \A h \in Handler : handler[h] = NoRequest
    BY DEF IInv, DrainedIsClosed
  <2>2. Holders = {}
    BY SetsFinite, FS_EmptySet DEF IInv, StoppedIsIdle, AdmissionAccounted
  <2>3. \A s \in ScanWorker : scan[s].at = "idle"
    BY <2>2 DEF Holders, Reserved
  <2>4. \A id \in TaskId : worker[id].at \notin InFlight
    BY <2>2 DEF Holders, LiveTasks, IInv, WorkerKeepsRecord, InFlight
  <2>5. \A id \in TaskId : worker[id] \in Worker
    BY DEF IInv, TypeOK
  <2> QED BY <2>1, <2>3, <2>4, <2>5 DEF Worker, InFlight
<1> QED BY <1>1, RegistryInvariant, PTL

\* The registry implements the abstract admission: what is admitted changes only
\* by entering when admission allows it, or by leaving.
THEOREM AdmissionImplemented == Spec => AdmissionSpec
<1>1. Init => Abstract!Init
  <2> SUFFICES ASSUME Init PROVE Admitted = [o \in {} |-> {}]
    BY DEF Abstract!Init
  <2>1. Holders = {}
    BY DEF Init, Holders, LiveTasks, Live, Reserved, Absent, NoScan
  <2> QED BY <2>1 DEF Admitted
<1>2. IInv /\ [Next]_vars => [Abstract!Next]_Admitted
  <2> SUFFICES ASSUME IInv, [Next]_vars PROVE [Abstract!Next]_Admitted
    OBVIOUS
  <2>1. /\ Admitted = [o \in Holders |-> KindOf(o)]
        /\ Admitted' = [o \in Holders' |-> KindOf(o)']
    BY DEF Admitted, KindOf
  <2>2. ASSUME Keeps PROVE UNCHANGED Admitted
    BY <2>1, <2>2 DEF Keeps
  <2>3. ASSUME NEW o \in TaskId \cup ScanWorker, Leaves(o) PROVE Abstract!Leave(o)
    BY <2>1, <2>3 DEF Leaves, Abstract!Leave, Abstract!Held
  <2>4. ASSUME NEW o \in TaskId \cup ScanWorker, NEW kind \in Kind, Enters(o, kind)
        PROVE  Abstract!Enter(o, kind)
    <3>0. Abstract!Cardinality(Holders) = Cardinality(Holders)
      BY DEF Abstract!Cardinality, Cardinality, Abstract!IsFiniteSet, IsFiniteSet
    <3>1. Abstract!Allowed(kind)
      BY <2>1, <2>4, <3>0, AdmissibleHolders
         DEF Enters, IInv, Abstract!Allowed, Abstract!Held
    <3>2. Admitted' = [p \in DOMAIN Admitted \cup {o} |-> IF p = o THEN kind ELSE Admitted[p]]
      BY <2>1, <2>4 DEF Enters
    <3> QED BY <2>1, <2>4, <3>1, <3>2 DEF Enters, Abstract!Enter, Abstract!Held
  <2> QED BY <2>2, <2>3, <2>4, RegistryStep DEF Abstract!Next
<1> QED
  BY <1>1, <1>2, RegistryInvariant, PTL DEF Spec, AdmissionSpec, Abstract!Spec

\* Steps that write one record, and only while it is unfinished.
LEMMA UnfinishedRecordSettles ==
  ASSUME IInv, NEW id \in TaskId, NEW record, Live(id),
         tasks' = [tasks EXCEPT ![id] = record], Retained' = Retained
  PROVE  RecordsOnlySettle
<1>1. \A i \in TaskId : tasks'[i] = IF i = id THEN record ELSE tasks[i]
  BY DEF IInv, TypeOK
<1> QED
  BY <1>1 DEF RecordsOnlySettle, Live, Terminal, Retained

LEMMA MarkRunningSettles ==
  ASSUME IInv, NEW id \in TaskId, worker[id].at = "spawned", MarkRunning(id), Retained' = Retained
  PROVE  RecordsOnlySettle
<1>1. Live(id) /\ id \in Retained
  BY WorkerFacts DEF InFlight, Live
<1>2. tasks' = [tasks EXCEPT ![id] = [tasks[id] EXCEPT !.status = "running"]]
  BY <1>1 DEF MarkRunning
<1> QED
  BY <1>1, <1>2, UnfinishedRecordSettles

LEMMA InsertSettles ==
  ASSUME IInv, NEW h \in Handler, Insert(h)
  PROVE  RecordsOnlySettle
<1>1. /\ handler[h].id \in TaskId
      /\ tasks[handler[h].id].status = "absent"
  BY RequestIsNew DEF Insert
<1>2. \A i \in TaskId :
        tasks'[i] = IF i = handler[h].id THEN Queued(handler[h].kind)
                    ELSE IF i \in Evicted THEN Absent ELSE tasks[i]
  BY DEF Insert
<1>3. \A i \in Evicted : Terminal(tasks[i].status)
  BY DEF Evicted, Finished
<1> QED
  BY <1>1, <1>2, <1>3 DEF RecordsOnlySettle, Live, Terminal

LEMMA SettleStep ==
  ASSUME IInv, [Next]_vars
  PROVE  RecordsOnlySettle
<1>0. ASSUME UNCHANGED tasks PROVE RecordsOnlySettle
  BY <1>0 DEF RecordsOnlySettle, Live
<1>1. ASSUME NEW h \in Handler, Insert(h) PROVE RecordsOnlySettle
  BY <1>1, InsertSettles
<1>2. ASSUME NEW id \in TaskId, JobStep(id) PROVE RecordsOnlySettle
  <2>1. CASE StartJob(id)
    BY <2>1, MarkRunningRecords, MarkRunningSettles DEF StartJob
  <2>2. CASE StartMood(id)
    BY <2>2, MarkRunningRecords, MarkRunningSettles DEF StartMood
  <2>3. CASE Finish(id)
    <3>1. Live(id)
      BY <2>3, WorkerFacts DEF Finish, InFlight, Live
    <3> QED BY <2>3, <3>1, FinishRecords, UnfinishedRecordSettles
  <2>4. CASE BeginCommand(id) \/ Refreshed(id) \/ AnnounceEnd(id)
    BY <1>0, <2>4 DEF BeginCommand, Refreshed, AnnounceEnd
  <2> QED BY <1>2, <2>1, <2>2, <2>3, <2>4 DEF JobStep
<1>3. ASSUME NEW id \in TaskId, Cancel(id) PROVE RecordsOnlySettle
  <2>1. Live(id) /\ tasks' = [tasks EXCEPT ![id] = [tasks[id] EXCEPT !.cancel = TRUE]]
    BY <1>3 DEF Cancel
  <2> QED BY <1>3, <2>1, CancelRecords, UnfinishedRecordSettles
<1>4. ASSUME NEW id \in TaskId, MoodProgress(id) PROVE RecordsOnlySettle
  <2>1. Live(id)
    BY <1>4, WorkerFacts DEF MoodProgress, InFlight, Live
  <2>2. tasks' = [tasks EXCEPT ![id] = [tasks[id] EXCEPT !.progress = @ + 1]]
    BY <1>4, MoodProgressKeeps
  <2> QED BY <1>4, <2>1, <2>2, MoodProgressRecords, UnfinishedRecordSettles
<1>5. ASSUME NEW id \in TaskId, NEW files \in 1..MaxFiles, ReportSnapshot(id, files)
      PROVE  RecordsOnlySettle
  <2>1. Live(id) /\ tasks' = [tasks EXCEPT ![id] = [tasks[id] EXCEPT !.partial = files]]
    BY <1>5 DEF ReportSnapshot, SnapshotAccepted, Live
  <2> QED BY <1>5, <2>1, ReportSnapshotRecords, UnfinishedRecordSettles
<1>6. CASE MonitorForce
  <2>1. \A i \in TaskId : tasks'[i] = IF Live(i) THEN [tasks[i] EXCEPT !.cancel = TRUE] ELSE tasks[i]
    BY <1>6 DEF MonitorForce
  <2>2. \A i \in TaskId : tasks[i].status # "absent" => tasks'[i].status # "absent"
    BY <1>6, MonitorForceRecords DEF Retained
  <2> QED BY <2>1, <2>2 DEF RecordsOnlySettle, Live, Terminal
<1> QED
  BY <1>0, <1>1, <1>2, <1>3, <1>4, <1>5, <1>6
     DEF Next, TakeTaskId, Refuse, ReturnCommand, ReserveScan, ScanStep, ScanBusy,
         BeginScan, FailScan, ReturnScan, PublishScan, AbandonScan, CloseOwner,
         ForceStop, ServerStep, BeginShutdown, Drained, ArmWait, CheckActive, Await,
         WakeWait, Exit, vars

\* A finished record never changes: progress, late decode snapshots, cancellation
\* and a forced stop only write to unfinished ones, and eviction only takes
\* finished ones.
THEOREM FinalRecordsStay == Spec => TerminalIsFinal
<1>1. IInv /\ [Next]_vars => [RecordsOnlySettle]_vars
  BY SettleStep
<1> QED
  BY <1>1, RegistryInvariant, PTL DEF Spec, TerminalIsFinal
-----------------------------------------------------------------------------
(***************************************************************************)
(* What subscribers are told.                                              *)
(***************************************************************************)
Under == {"started", "command", "returned", "refreshed"}

EndOf(outcome) == IF outcome = "completed" THEN "completed" ELSE "failed"

\* The notifications of an id follow its worker, or a bodyless scan if it has none;
\* a finished worker agrees with its record as long as that is retained.
Agrees(id) ==
  /\ worker[id].at = "none" =>
       events[id] \in {<<>>, <<"started">>, <<"started", "completed">>, <<"started", "failed">>}
  /\ worker[id].at = "spawned" => events[id] = <<>>
  /\ worker[id].at \in Under \cup {"announcing"} => events[id] = <<"started">>
  /\ worker[id].at = "done" => events[id] = <<"started", EndOf(worker[id].outcome)>>
  /\ worker[id].at \in {"announcing", "done"} =>
       tasks[id].status \in {worker[id].outcome, "absent"}
  /\ id >= nextTaskId => events[id] = <<>>

RequestsUntold == \A h \in Handler : handler[h] # NoRequest => events[handler[h].id] = <<>>

\* The id of a bodyless scan is nobody else's.
Apart(s) ==
  /\ scan[s].id \in TaskId /\ scan[s].id < nextTaskId
  /\ worker[scan[s].id].at = "none"
  /\ \A h \in Handler : handler[h].id # scan[s].id
  /\ \A t \in ScanWorker : scan[t].at # "idle" /\ scan[t].id = scan[s].id => t = s
  /\ events[scan[s].id] = IF scan[s].at = "reserved" THEN <<>> ELSE <<"started">>

ToldInv ==
  /\ \A id \in TaskId : Agrees(id)
  /\ RequestsUntold
  /\ \A s \in ScanWorker : scan[s].at # "idle" => Apart(s)

Told == {"started", "completed", "failed"}

LEMMA Appended ==
  ASSUME NEW d \in Told, NEW e \in Told
  PROVE  Append(<<>>, e) = <<e>> /\ Append(<<d>>, e) = <<d, e>>
<1>1. Append(<<>>, e) = <<e>>
  OBVIOUS
<1>2. <<d>> \in Seq(Told) /\ Len(<<d>>) = 1 /\ <<d>>[1] = d
  OBVIOUS
<1>3. <<d, e>> \in Seq(Told) /\ Len(<<d, e>>) = 2 /\ <<d, e>>[1] = d /\ <<d, e>>[2] = e
  OBVIOUS
<1>4. PICK s \in Seq(Told) : s = <<d>>
  BY <1>2, Zenon
<1>5. PICK t \in Seq(Told) : t = <<d, e>>
  BY <1>3, Zenon
<1>6. /\ Append(s, e) \in Seq(Told) /\ Len(Append(s, e)) = Len(s) + 1
      /\ \A i \in 1..Len(s) : Append(s, e)[i] = s[i]
      /\ Append(s, e)[Len(s) + 1] = e
  BY AppendProperties
<1>7. PICK r \in Seq(Told) : r = Append(s, e)
  BY <1>6, Zenon
<1>8. Len(s) = 1 /\ s[1] = d
  BY <1>2, <1>4, Zenon
<1>9. Len(t) = 2 /\ t[1] = d /\ t[2] = e
  BY <1>3, <1>5, Zenon
<1>10. Len(r) = 2 /\ r[1] = d /\ r[2] = e
  <2>1. /\ Len(r) = Len(s) + 1 /\ \A i \in 1..Len(s) : r[i] = s[i]
        /\ r[Len(s) + 1] = e
    BY <1>6, <1>7, Zenon
  <2> QED BY <1>8, <2>1
<1>11. r = t
  BY <1>9, <1>10, SeqEqual
<1> QED BY <1>1, <1>4, <1>5, <1>7, <1>11, Zenon

\* A worker that has ended its task agrees with the record that is left of it.
LEMMA SettledStep ==
  ASSUME IInv, [Next]_vars, NEW id \in TaskId, worker[id].at \in {"announcing", "done"}
  PROVE  tasks'[id].status \in {tasks[id].status, "absent"}
<1>1. tasks[id] \in Task /\ ~Live(id)
  BY WorkerFacts DEF InFlight, Live
<1>2. CASE id \in Retained
  <2>1. Terminal(tasks[id].status)
    BY <1>1, <1>2 DEF Task, Live, Retained, Terminal
  <2> QED BY <2>1, SettleStep DEF RecordsOnlySettle, Absent
<1>3. CASE id \notin Retained
  <2>1. ASSUME NEW h \in Handler, Insert(h) PROVE tasks'[id] \in {tasks[id], Absent}
    <3>1. handler[h].id # id
      BY <2>1 DEF Insert, IInv, RequestsFresh
    <3> QED BY <2>1, <3>1 DEF Insert
  <2>2. tasks[id].status = "absent"
    BY <1>3 DEF Retained
  <2> QED BY <1>3, <2>1, <2>2, RecordsStep DEF Retained, Absent
<1> QED BY <1>2, <1>3

\* The same notifications, and a worker that is where it was or still under way.
LEMMA StillAgrees ==
  ASSUME IInv, [Next]_vars, NEW id \in TaskId, Agrees(id), events'[id] = events[id],
         \/ worker'[id].at = worker[id].at /\ worker'[id].outcome = worker[id].outcome
         \/ worker[id].at \in Under /\ worker'[id].at \in Under
  PROVE  Agrees(id)'
<1>1. worker[id].at \in {"announcing", "done"} => tasks'[id].status \in {tasks[id].status, "absent"}
  BY SettledStep
<1>2. id >= nextTaskId' => id >= nextTaskId
  BY NextTaskIdStep DEF TaskId, IInv, TypeOK
<1> QED
  BY <1>1, <1>2 DEF Agrees, Under

\* Steps that tell nothing.
LEMMA SilentStep ==
  ASSUME IInv, ToldInv, [Next]_vars, events' = events, nextTaskId' = nextTaskId,
         \A id \in TaskId :
           \/ worker'[id].at = worker[id].at /\ worker'[id].outcome = worker[id].outcome
           \/ worker[id].at \in Under /\ worker'[id].at \in Under,
         \A h \in Handler : handler'[h] \in {handler[h], NoRequest},
         \A s \in ScanWorker :
           \/ scan'[s].at = "idle"
           \/ /\ scan[s].at # "idle" /\ scan'[s].id = scan[s].id
              /\ scan'[s].at = "reserved" <=> scan[s].at = "reserved"
  PROVE  ToldInv'
<1>1. \A id \in TaskId : Agrees(id)'
  BY StillAgrees DEF ToldInv
<1>2. RequestsUntold'
  BY DEF ToldInv, RequestsUntold
<1>3. ASSUME NEW s \in ScanWorker, scan'[s].at # "idle" PROVE Apart(s)'
  <2>1. Apart(s) /\ scan'[s].id = scan[s].id /\ scan[s].id # 0
    BY <1>3 DEF ToldInv, Apart, TaskId
  <2>2. worker'[scan[s].id].at = "none"
    BY <2>1 DEF Apart, Under
  <2>3. \A h \in Handler : handler'[h].id # scan[s].id
    BY <2>1 DEF Apart, NoRequest
  <2>4. \A t \in ScanWorker : scan'[t].at # "idle" /\ scan'[t].id = scan[s].id => t = s
    BY <2>1 DEF Apart
  <2> QED BY <1>3, <2>1, <2>2, <2>3, <2>4 DEF Apart
<1> QED BY <1>1, <1>2, <1>3 DEF ToldInv

\* A step of one worker, which may tell something of its id.
LEMMA WorkerTells ==
  ASSUME IInv, ToldInv, [Next]_vars, NEW id \in TaskId, NEW w, NEW sequence,
         worker[id].at # "none", w.at # "none",
         worker' = [worker EXCEPT ![id] = w], events' = [events EXCEPT ![id] = sequence],
         UNCHANGED <<handler, scan, nextTaskId>>, Agrees(id)'
  PROVE  ToldInv'
<1>1. \A i \in TaskId : i # id => worker'[i] = worker[i] /\ events'[i] = events[i]
  BY DEF IInv, TypeOK
<1>2. \A i \in TaskId : Agrees(i)'
  BY <1>1, StillAgrees DEF ToldInv
<1>3. \A h \in Handler : handler[h] # NoRequest => handler[h].id \in TaskId /\ handler[h].id # id
  BY RequestIsNew DEF IInv, RequestsFresh
<1>4. RequestsUntold'
  BY <1>1, <1>3 DEF ToldInv, RequestsUntold
<1>5. ASSUME NEW s \in ScanWorker, scan[s].at # "idle" PROVE Apart(s)'
  <2>1. Apart(s) /\ scan[s].id # id
    BY <1>5 DEF ToldInv, Apart
  <2> QED BY <1>1, <2>1 DEF Apart
<1> QED BY <1>2, <1>4, <1>5 DEF ToldInv

\* The worker of an accepted job.
LEMMA JobTells ==
  ASSUME IInv, ToldInv, [Next]_vars, NEW id \in TaskId, JobStep(id)
  PROVE  ToldInv'
<1>0. /\ worker \in [TaskId -> Worker] /\ worker[id] \in Worker /\ Agrees(id)
      /\ events \in [TaskId -> Seq(Told)] /\ tasks[id] \in Task
      /\ ~(id >= nextTaskId)
  <2>1. worker[id].at # "none"
    BY DEF JobStep, StartJob, StartMood, BeginCommand, Refreshed, Finish, AnnounceEnd
  <2>2. ~(id >= nextTaskId)
    BY <2>1 DEF IInv, UnusedIdsBlank
  <2> QED BY <2>2 DEF IInv, TypeOK, Told, ToldInv
<1>1. CASE StartJob(id) \/ StartMood(id)
  <2>1. PICK at \in {"started", "command"} :
          worker' = [worker EXCEPT ![id].at = at] /\ worker[id].at = "spawned"
    BY <1>1 DEF StartJob, StartMood
  <2>2. PICK w : w = [worker[id] EXCEPT !.at = at]
    OBVIOUS
  <2>3. w.at = at
    BY <1>0, <2>2 DEF Worker
  <2>4. worker' = [worker EXCEPT ![id] = w]
    BY <2>1, <2>2
  <2>5. events' = [events EXCEPT ![id] = <<"started">>]
    <3>1. events[id] = <<>>
      BY <1>0, <2>1 DEF Agrees
    <3>2. events' = [events EXCEPT ![id] = Append(events[id], "started")]
      BY <1>1 DEF StartJob, StartMood, Announce
    <3> QED BY <3>1, <3>2, Appended DEF Told
  <2>6. UNCHANGED <<handler, scan, nextTaskId>>
    BY <1>1 DEF StartJob, StartMood
  <2>7. Agrees(id)'
    <3>1. worker'[id] = w /\ events'[id] = <<"started">>
      BY <1>0, <2>4, <2>5
    <3> QED BY <1>0, <2>1, <2>3, <2>6, <3>1 DEF Agrees, Under
  <2> QED BY <2>1, <2>3, <2>4, <2>5, <2>6, <2>7, WorkerTells
<1>2. CASE BeginCommand(id) \/ Refreshed(id)
  <2>1. /\ UNCHANGED <<events, handler, scan, nextTaskId>>
        /\ \A i \in TaskId : i # id => worker'[i] = worker[i]
    BY <1>0, <1>2 DEF BeginCommand, Refreshed
  <2>2. worker[id].at \in Under /\ worker'[id].at \in Under
    BY <1>0, <1>2 DEF BeginCommand, Refreshed, Under, Worker
  <2> QED BY <2>1, <2>2, SilentStep
<1>3. CASE Finish(id)
  <2>1. worker[id].at = "refreshed" /\ id \in Retained
    BY <1>3, WorkerFacts DEF Finish, InFlight
  <2>2. PICK final : final = FinalRecord(tasks[id], worker[id].outcome)
    OBVIOUS
  <2>3. /\ tasks' = [tasks EXCEPT ![id] = final]
        /\ worker' = [worker EXCEPT ![id].at = "announcing", ![id].outcome = final.status]
        /\ UNCHANGED <<handler, scan, nextTaskId, events>>
    BY <1>3, <2>1, <2>2 DEF Finish
  <2>4. PICK w : w = [worker[id] EXCEPT !.at = "announcing", !.outcome = final.status]
    OBVIOUS
  <2>5. w.at = "announcing" /\ w.outcome = final.status
    BY <1>0, <2>4 DEF Worker
  <2>6. worker' = [worker EXCEPT ![id] = w]
    BY <2>3, <2>4
  <2>7. events' = [events EXCEPT ![id] = events[id]] /\ events[id] = <<"started">>
    BY <1>0, <2>1, <2>3 DEF Agrees, Under
  <2>8. tasks'[id] = final
    BY <2>3 DEF IInv, TypeOK
  <2>9. Agrees(id)'
    BY <1>0, <2>3, <2>5, <2>6, <2>7, <2>8 DEF Agrees, Under
  <2> QED BY <2>1, <2>3, <2>5, <2>6, <2>7, <2>9, WorkerTells
<1>4. CASE AnnounceEnd(id)
  <2>1. worker[id].at = "announcing" /\ UNCHANGED <<handler, scan, nextTaskId, tasks>>
    BY <1>4 DEF AnnounceEnd
  <2>2. PICK w : w = [worker[id] EXCEPT !.at = "done", !.guard = FALSE]
    OBVIOUS
  <2>3. w.at = "done" /\ w.outcome = worker[id].outcome
    BY <1>0, <2>2 DEF Worker
  <2>4. worker' = [worker EXCEPT ![id] = w]
    BY <1>4, <2>2 DEF AnnounceEnd
  <2>5. events' = [events EXCEPT ![id] = <<"started", EndOf(worker[id].outcome)>>]
    <3>1. events[id] = <<"started">>
      BY <1>0, <2>1 DEF Agrees
    <3>2. events' = [events EXCEPT ![id] = Append(events[id], EndOf(worker[id].outcome))]
      BY <1>4 DEF AnnounceEnd, Announce, EndEvent, EndOf
    <3>3. EndOf(worker[id].outcome) \in Told /\ "started" \in Told
      BY DEF EndOf, Told
    <3> QED BY <3>1, <3>2, <3>3, Appended
  <2>6. Agrees(id)'
    <3>1. worker'[id] = w /\ events'[id] = <<"started", EndOf(worker[id].outcome)>>
      BY <1>0, <2>4, <2>5
    <3>2. tasks[id].status \in {worker[id].outcome, "absent"}
      BY <1>0, <2>1 DEF Agrees
    <3> QED BY <1>0, <2>1, <2>3, <3>1, <3>2 DEF Agrees, Under
  <2> QED BY <2>1, <2>3, <2>4, <2>5, <2>6, WorkerTells
<1> QED BY <1>1, <1>2, <1>3, <1>4 DEF JobStep

\* A step of one bodyless scan that tells something of its id, and may give it up.
LEMMA ScanAnnounces ==
  ASSUME IInv, ToldInv, [Next]_vars, NEW s \in ScanWorker, scan[s].at # "idle",
         NEW state \in ScanState, NEW event \in Told,
         scan' = [scan EXCEPT ![s] = state], Announce(scan[s].id, event),
         \/ scan[s].at = "reserved" /\ state.at = "scanning" /\ state.id = scan[s].id
            /\ event = "started"
         \/ scan[s].at # "reserved" /\ state.at = "idle" /\ event # "started",
         UNCHANGED <<worker, handler, nextTaskId>>
  PROVE  ToldInv'
<1>0. PICK id : id = scan[s].id
  OBVIOUS
<1>1. /\ Apart(s) /\ id \in TaskId /\ worker[id].at = "none" /\ Agrees(id)
      /\ events \in [TaskId -> Seq(Told)]
  BY <1>0 DEF ToldInv, Apart, IInv, TypeOK, Told
<1>2. ~(id >= nextTaskId)
  BY <1>0, <1>1 DEF Apart, IInv, TypeOK, TaskId
<1>3. \A t \in ScanWorker : scan'[t] = IF t = s THEN state ELSE scan[t]
  BY DEF IInv, TypeOK
<1>4. /\ events'[id] = IF event = "started" THEN <<"started">> ELSE <<"started", event>>
      /\ \A i \in TaskId : i # id => events'[i] = events[i]
  <2>1. events' = [events EXCEPT ![id] = Append(events[id], event)]
    BY <1>0 DEF Announce
  <2>2. events[id] = IF event = "started" THEN <<>> ELSE <<"started">>
    BY <1>0, <1>1 DEF Apart
  <2>3. "started" \in Told
    BY DEF Told
  <2> QED BY <1>1, <2>1, <2>2, <2>3, Appended
<1>5. \A i \in TaskId : Agrees(i)'
  <2>1. \A i \in TaskId : i # id => Agrees(i)'
    BY <1>4, StillAgrees DEF ToldInv
  <2>2. Agrees(id)'
    BY <1>1, <1>2, <1>4 DEF Agrees, Under, Told
  <2> QED BY <2>1, <2>2
<1>6. RequestsUntold'
  <2>1. \A h \in Handler : handler[h] # NoRequest => handler[h].id \in TaskId /\ handler[h].id # id
    BY <1>0, <1>1, RequestIsNew DEF Apart
  <2> QED BY <1>4, <2>1 DEF ToldInv, RequestsUntold
<1>7. ASSUME NEW t \in ScanWorker, scan'[t].at # "idle" PROVE Apart(t)'
  <2>1. scan[t].at # "idle" /\ Apart(t) /\ scan'[t].id = scan[t].id
    BY <1>1, <1>3, <1>7 DEF ToldInv
  <2>2. \A r \in ScanWorker : scan'[r].at # "idle" => scan[r].at # "idle" /\ scan'[r].id = scan[r].id
    BY <1>3
  <2>3. t # s => scan[t].id # id /\ scan'[t] = scan[t]
    BY <1>0, <1>1, <1>3, <2>1 DEF Apart
  <2>4. events'[scan[t].id] = IF scan'[t].at = "reserved" THEN <<>> ELSE <<"started">>
    <3>1. CASE t = s
      BY <1>0, <1>3, <1>4, <1>7, <3>1
    <3>2. CASE t # s
      BY <1>4, <2>1, <2>3, <3>2 DEF Apart
    <3> QED BY <3>1, <3>2
  <2> QED BY <2>1, <2>2, <2>4 DEF Apart
<1> QED BY <1>5, <1>6, <1>7 DEF ToldInv

LEMMA ScansTell ==
  ASSUME IInv, ToldInv, [Next]_vars, NEW s \in ScanWorker, ScanStep(s) \/ AbandonScan(s)
  PROVE  ToldInv'
<1>0. scan \in [ScanWorker -> ScanState] /\ scan[s] \in ScanState /\ NoScan \in ScanState
      /\ NoScan.at = "idle"
  BY DEF IInv, TypeOK, NoScan, ScanState
<1>1. UNCHANGED <<worker, handler, nextTaskId>>
  BY DEF ScanStep, ScanBusy, BeginScan, FailScan, ReturnScan, PublishScan, AbandonScan
<1>2. ScanStep(s) => scan[s].at # "idle"
  BY DEF ScanStep, ScanBusy, BeginScan, FailScan, ReturnScan, PublishScan
<1>3. ASSUME NEW state \in ScanState, scan' = [scan EXCEPT ![s] = state], events' = events,
             \/ state.at = "idle"
             \/ /\ scan[s].at # "idle" /\ state.id = scan[s].id
                /\ state.at = "reserved" <=> scan[s].at = "reserved"
      PROVE  ToldInv'
  <2>1. \A t \in ScanWorker : scan'[t] = IF t = s THEN state ELSE scan[t]
    BY <1>0, <1>3
  <2> QED BY <1>1, <1>3, <2>1, SilentStep
<1>4. CASE ScanBusy(s)
  BY <1>0, <1>3, <1>4 DEF ScanBusy, DropScan
<1>5. CASE BeginScan(s)
  <2>1. PICK state : state = [scan[s] EXCEPT !.at = "scanning"]
    OBVIOUS
  <2>2. state \in ScanState /\ state.at = "scanning" /\ state.id = scan[s].id
    BY <1>0, <2>1 DEF ScanState
  <2>3. /\ scan' = [scan EXCEPT ![s] = state] /\ scan[s].at = "reserved"
        /\ Announce(scan[s].id, "started") /\ "started" \in Told
    BY <1>5, <2>1 DEF BeginScan, Told
  <2> QED BY <1>1, <2>2, <2>3, ScanAnnounces
<1>6. CASE FailScan(s) \/ PublishScan(s)
  <2>1. scan[s].at \notin {"idle", "reserved"} /\ scan' = [scan EXCEPT ![s] = NoScan]
    BY <1>6 DEF FailScan, PublishScan, DropScan
  <2>2. events' = events \/ \E event \in {"completed", "failed"} : Announce(scan[s].id, event)
    BY <1>6 DEF FailScan, PublishScan, Announce
  <2>3. ASSUME NEW event \in {"completed", "failed"}, Announce(scan[s].id, event) PROVE ToldInv'
    BY <1>0, <1>1, <2>1, <2>3, ScanAnnounces DEF Told
  <2> QED BY <1>0, <1>3, <2>1, <2>2, <2>3
<1>7. CASE ReturnScan(s)
  <2>1. PICK state : state = [scan[s] EXCEPT !.at = "publishing"]
    OBVIOUS
  <2>2. state \in ScanState /\ state.at = "publishing" /\ state.id = scan[s].id
    BY <1>0, <2>1 DEF ScanState
  <2>3. /\ events' = events /\ scan[s].at = "scanning"
        /\ scan' = [scan EXCEPT ![s] = state] \/ scan' = [scan EXCEPT ![s] = NoScan]
    BY <1>7, <2>1 DEF ReturnScan, DropScan
  <2> QED BY <1>0, <1>3, <2>2, <2>3
<1>8. CASE AbandonScan(s)
  <2>1. PICK state : state = [scan[s] EXCEPT !.waiter = FALSE]
    OBVIOUS
  <2>2. state \in ScanState /\ state.at = scan[s].at /\ state.id = scan[s].id
    BY <1>0, <2>1 DEF ScanState
  <2>3. /\ events' = events
        /\ scan' = [scan EXCEPT ![s] = state] \/ scan' = [scan EXCEPT ![s] = NoScan]
    BY <1>8, <2>1 DEF AbandonScan, DropScan
  <2> QED BY <1>0, <1>3, <2>2, <2>3
<1> QED BY <1>4, <1>5, <1>6, <1>7, <1>8 DEF ScanStep

\* An id is handed out, to a request or to a bodyless scan.
LEMMA TakeTells ==
  ASSUME IInv, ToldInv, [Next]_vars, nextTaskId' = nextTaskId + 1, nextTaskId <= MaxTaskId,
         UNCHANGED <<worker, events>>,
         \/ /\ scan' = scan
            /\ \E h \in Handler, kind \in Kind :
                 handler' = [handler EXCEPT ![h] = [id |-> nextTaskId, kind |-> kind]]
         \/ /\ handler' = handler
            /\ \E s \in ScanWorker : scan' = [scan EXCEPT ![s] =
                 [at |-> "reserved", waiter |-> TRUE, id |-> nextTaskId]]
  PROVE  ToldInv'
<1>1. PICK id : id = nextTaskId
  OBVIOUS
<1>2. id \in TaskId /\ worker[id].at = "none" /\ events[id] = <<>> /\ id # 0
  <2>1. id \in TaskId /\ id >= nextTaskId /\ id # 0
    BY <1>1, JobsAssumption DEF TaskId, IInv, TypeOK
  <2> QED BY <1>1, <2>1 DEF IInv, UnusedIdsBlank, ToldInv, Agrees
<1>3. \A h \in Handler : handler[h].id # id /\ (handler[h] # NoRequest => handler[h].id < nextTaskId)
  <2>1. ASSUME NEW h \in Handler, handler[h] # NoRequest PROVE handler[h].id < nextTaskId
    BY <2>1 DEF IInv, RequestsFresh
  <2>2. \A h \in Handler : handler[h] # NoRequest => handler[h].id \in TaskId
    BY RequestIsNew
  <2> QED BY <1>1, <1>2, <2>1, <2>2 DEF NoRequest, TaskId
<1>4. \A s \in ScanWorker : scan[s].at # "idle" => Apart(s) /\ scan[s].id < id
  BY <1>1 DEF ToldInv, Apart
<1>5. \A i \in TaskId : Agrees(i)'
  BY StillAgrees DEF ToldInv
<1>6. nextTaskId \in Nat /\ nextTaskId' = nextTaskId + 1
  BY DEF IInv, TypeOK
<1>7. ASSUME NEW h \in Handler, NEW kind \in Kind, scan' = scan,
             handler' = [handler EXCEPT ![h] = [id |-> id, kind |-> kind]]
      PROVE  ToldInv'
  <2>1. /\ handler'[h].id = id
        /\ \A g \in Handler : g # h => handler'[g] = handler[g]
    BY <1>7 DEF IInv, TypeOK
  <2>2. RequestsUntold'
    BY <1>2, <2>1 DEF ToldInv, RequestsUntold
  <2>3. ASSUME NEW s \in ScanWorker, scan[s].at # "idle" PROVE Apart(s)'
    <3>1. Apart(s) /\ scan[s].id < id /\ scan[s].id \in Nat /\ id \in Nat
      BY <1>1, <1>4, <1>6, <2>3 DEF Apart, TaskId
    <3>2. \A g \in Handler : handler'[g].id # scan[s].id
      BY <2>1, <3>1 DEF Apart
    <3> QED BY <1>1, <1>6, <1>7, <3>1, <3>2 DEF Apart
  <2> QED BY <1>5, <1>7, <2>2, <2>3 DEF ToldInv
<1>8. ASSUME NEW s \in ScanWorker, handler' = handler,
             scan' = [scan EXCEPT ![s] = [at |-> "reserved", waiter |-> TRUE, id |-> id]]
      PROVE  ToldInv'
  <2>1. /\ scan'[s].id = id /\ scan'[s].at = "reserved"
        /\ \A t \in ScanWorker : t # s => scan'[t] = scan[t]
    BY <1>8 DEF IInv, TypeOK
  <2>2. RequestsUntold'
    BY <1>8 DEF ToldInv, RequestsUntold
  <2>3. ASSUME NEW t \in ScanWorker, scan'[t].at # "idle" PROVE Apart(t)'
    <3>1. CASE t = s
      <4>1. \A r \in ScanWorker : scan'[r].at # "idle" /\ scan'[r].id = id => r = s
        BY <1>1, <1>4, <1>6, <2>1
      <4> QED BY <1>1, <1>2, <1>3, <1>6, <1>8, <2>1, <3>1, <4>1 DEF Apart
    <3>2. CASE t # s
      <4>1. Apart(t) /\ scan'[t] = scan[t] /\ scan[t].id < id /\ scan[t].id \in Nat /\ id \in Nat
        BY <1>1, <1>4, <1>6, <2>1, <2>3, <3>2 DEF Apart, TaskId
      <4>2. \A r \in ScanWorker : scan'[r].at # "idle" /\ scan'[r].id = scan[t].id => r = t
        BY <2>1, <4>1 DEF Apart
      <4> QED BY <1>1, <1>6, <1>8, <4>1, <4>2 DEF Apart
    <3> QED BY <3>1, <3>2
  <2> QED BY <1>5, <2>2, <2>3 DEF ToldInv
<1> QED BY <1>1, <1>7, <1>8

LEMMA InsertTells ==
  ASSUME IInv, ToldInv, [Next]_vars, NEW h \in Handler, Insert(h)
  PROVE  ToldInv'
<1>1. PICK id : id = handler[h].id
  OBVIOUS
<1>2. /\ id \in TaskId /\ events[id] = <<>> /\ handler[h] # NoRequest
      /\ UNCHANGED <<nextTaskId, scan, events>>
      /\ handler' = [handler EXCEPT ![h] = NoRequest]
  BY <1>1, RequestIsNew DEF Insert, ToldInv, RequestsUntold
<1>3. worker'[id].at = "spawned" /\ \A i \in TaskId : i # id => worker'[i] = worker[i]
  BY <1>1, <1>2 DEF Insert, IInv, TypeOK, Idle
<1>4. \A i \in TaskId : Agrees(i)'
  <2>1. \A i \in TaskId : i # id => Agrees(i)'
    BY <1>2, <1>3, StillAgrees DEF ToldInv
  <2>2. Agrees(id)'
    BY <1>2, <1>3 DEF Agrees, Under
  <2> QED BY <2>1, <2>2
<1>5. \A g \in Handler : handler'[g] \in {handler[g], NoRequest}
  BY <1>2 DEF IInv, TypeOK
<1>6. RequestsUntold'
  BY <1>2, <1>5 DEF ToldInv, RequestsUntold
<1>7. ASSUME NEW s \in ScanWorker, scan[s].at # "idle" PROVE Apart(s)'
  <2>1. Apart(s) /\ scan[s].id # id /\ scan[s].id # 0
    BY <1>1, <1>7 DEF ToldInv, Apart, TaskId
  <2>2. \A g \in Handler : handler'[g].id # scan[s].id
    BY <1>5, <2>1 DEF Apart, NoRequest
  <2> QED BY <1>2, <1>3, <2>1, <2>2 DEF Apart
<1> QED BY <1>2, <1>4, <1>6, <1>7 DEF ToldInv

LEMMA ToldStep ==
  ASSUME IInv, ToldInv, [Next]_vars
  PROVE  ToldInv'
<1>0. /\ worker \in [TaskId -> Worker] /\ handler \in [Handler -> Request \cup {NoRequest}]
  BY DEF IInv, TypeOK
<1>1. ASSUME UNCHANGED <<events, nextTaskId, worker, scan>>,
             \A h \in Handler : handler'[h] \in {handler[h], NoRequest}
      PROVE  ToldInv'
  BY <1>1, SilentStep
<1>2. ASSUME NEW h \in Handler,
             (\E kind \in Requested : TakeTaskId(h, kind)) \/ Insert(h) \/ Refuse(h)
      PROVE  ToldInv'
  <2>1. CASE Insert(h)
    BY <2>1, InsertTells
  <2>2. CASE Refuse(h)
    BY <1>0, <1>1, <2>2 DEF Refuse
  <2>3. ASSUME NEW kind \in Requested, TakeTaskId(h, kind) PROVE ToldInv'
    BY <2>3, TakeTells, JobsAssumption DEF TakeTaskId
  <2> QED BY <1>2, <2>1, <2>2, <2>3
<1>3. ASSUME NEW id \in TaskId,
             \/ Cancel(id) \/ MoodProgress(id)
             \/ \E files \in 1..MaxFiles : ReportSnapshot(id, files)
             \/ \E outcome \in Outcome : ReturnCommand(id, outcome)
      PROVE  ToldInv'
  <2>1. UNCHANGED <<events, nextTaskId, scan, handler>>
    BY <1>3 DEF Cancel, MoodProgress, ReportSnapshot, ReturnCommand
  <2>2. \A i \in TaskId : i # id => worker'[i] = worker[i]
    BY <1>0, <1>3 DEF Cancel, MoodProgress, ReportSnapshot, ReturnCommand
  <2>3. worker'[id] = worker[id] \/ (worker[id].at \in Under /\ worker'[id].at \in Under)
    <3>1. CASE Cancel(id) \/ \E files \in 1..MaxFiles : ReportSnapshot(id, files)
      BY <3>1 DEF Cancel, ReportSnapshot
    <3>2. CASE MoodProgress(id)
      BY <1>0, <3>2 DEF MoodProgress, Under, Worker
    <3>3. ASSUME NEW outcome \in Outcome, ReturnCommand(id, outcome)
          PROVE  worker[id].at \in Under /\ worker'[id].at \in Under
      BY <1>0, <3>3 DEF ReturnCommand, Under, Worker
    <3> QED BY <1>3, <3>1, <3>2, <3>3
  <2> QED BY <2>1, <2>2, <2>3, SilentStep
<1>4. ASSUME NEW s \in ScanWorker, ReserveScan(s) PROVE ToldInv'
  BY <1>4, TakeTells DEF ReserveScan
<1>5. CASE CloseOwner \/ ForceStop \/ MonitorForce \/ ServerStep \/ Exit \/ UNCHANGED vars
  BY <1>1, <1>5 DEF CloseOwner, ForceStop, MonitorForce, ServerStep, BeginShutdown, Drained,
                    ArmWait, CheckActive, Await, WakeWait, Exit, vars
<1> QED
  BY <1>2, <1>3, <1>4, <1>5, JobTells, ScansTell DEF Next

LEMMA ToldAtStart ==
  Init => ToldInv
BY DEF Init, ToldInv, Agrees, RequestsUntold, Idle, NoScan, Under

\* What a subscriber of /activity sees of an id is one start and one end that
\* agrees with the record, whatever is evicted in between.
THEOREM NotificationsAgree == Spec => []EventProtocol
<1>1. ToldInv /\ IInv /\ [Next]_vars => ToldInv'
  BY ToldStep
<1>2. ToldInv /\ IInv => EventProtocol
  <2> SUFFICES ASSUME ToldInv, IInv, NEW id \in TaskId
               PROVE  /\ events[id] \in {<<>>, <<"started">>, <<"started", "completed">>,
                                         <<"started", "failed">>}
                      /\ worker[id].at = "done" =>
                           events[id] = <<"started", IF worker[id].outcome = "completed"
                                                     THEN "completed" ELSE "failed">>
                      /\ worker[id].at = "done" /\ id \in Retained =>
                           tasks[id].status = worker[id].outcome
    BY DEF EventProtocol
  <2>1. Agrees(id) /\ worker[id] \in Worker
    BY DEF ToldInv, IInv, TypeOK
  <2> QED BY <2>1 DEF Agrees, EndOf, Under, Worker, Retained
<1> QED
  BY <1>1, <1>2, ToldAtStart, RegistryInvariant, PTL DEF Spec
-----------------------------------------------------------------------------
(***************************************************************************)
(* Scan activity: who is counted, and while doing what.                    *)
(***************************************************************************)
Guards   == {id \in TaskId : worker[id].guard}
Scanning == {s \in ScanWorker : scan[s].at \in {"scanning", "publishing"}}

\* Where a worker may be while it holds its guard.
Guarded == {"command", "returned", "refreshed", "announcing"}

GuardsHeld == \A id \in TaskId : worker[id].guard => worker[id].at \in Guarded

BalanceInv == ScanActivityBalanced /\ GuardsHeld

LEMMA CountedFinite ==
  /\ IsFiniteSet(Guards) /\ Cardinality(Guards) \in Nat
  /\ IsFiniteSet(Scanning) /\ Cardinality(Scanning) \in Nat
<1>1. IsFiniteSet(Guards)
  BY SetsFinite, FS_Subset DEF Guards
<1>2. IsFiniteSet(Scanning)
  BY JobsAssumption, FS_Subset DEF Scanning
<1> QED
  BY <1>1, <1>2, FS_CardinalityType

\* One guard or one scan more, one less, or the same ones.
LEMMA BalanceKept ==
  ASSUME ScanActivityBalanced, scanActivity' = scanActivity,
         Guards' = Guards, Scanning' = Scanning
  PROVE  ScanActivityBalanced'
BY DEF ScanActivityBalanced, Guards, Scanning

LEMMA BalanceRaised ==
  ASSUME ScanActivityBalanced, scanActivity' = scanActivity + 1, NEW x,
         \/ Guards' = Guards \cup {x} /\ x \notin Guards /\ Scanning' = Scanning
         \/ Scanning' = Scanning \cup {x} /\ x \notin Scanning /\ Guards' = Guards
  PROVE  ScanActivityBalanced'
<1>1. scanActivity = Cardinality(Guards) + Cardinality(Scanning)
  BY DEF ScanActivityBalanced, Guards, Scanning
<1>2. Cardinality(Guards') + Cardinality(Scanning')
        = Cardinality(Guards) + Cardinality(Scanning) + 1
  BY CountedFinite, FS_AddElement
<1>3. scanActivity' = Cardinality(Guards') + Cardinality(Scanning')
  BY <1>1, <1>2
<1> QED
  BY <1>3 DEF ScanActivityBalanced, Guards, Scanning

LEMMA BalanceLowered ==
  ASSUME ScanActivityBalanced, scanActivity' = scanActivity - 1, NEW x,
         \/ Guards' = Guards \ {x} /\ x \in Guards /\ Scanning' = Scanning
         \/ Scanning' = Scanning \ {x} /\ x \in Scanning /\ Guards' = Guards
  PROVE  ScanActivityBalanced'
<1>1. scanActivity = Cardinality(Guards) + Cardinality(Scanning)
  BY DEF ScanActivityBalanced, Guards, Scanning
<1>2. \A S : IsFiniteSet(S) /\ x \in S => Cardinality(S \ {x}) = Cardinality(S) - 1
  BY FS_RemoveElement
<1>3. scanActivity' = Cardinality(Guards') + Cardinality(Scanning')
  <2>1. CASE Guards' = Guards \ {x} /\ x \in Guards /\ Scanning' = Scanning
    <3>1. Cardinality(Guards') = Cardinality(Guards) - 1
      BY <1>2, <2>1, CountedFinite
    <3> QED BY <1>1, <2>1, <3>1, CountedFinite
  <2>2. CASE Scanning' = Scanning \ {x} /\ x \in Scanning /\ Guards' = Guards
    <3>1. Cardinality(Scanning') = Cardinality(Scanning) - 1
      BY <1>2, <2>2, CountedFinite
    <3> QED BY <1>1, <2>2, <3>1, CountedFinite
  <2> QED BY <2>1, <2>2
<1> QED
  BY <1>3 DEF ScanActivityBalanced, Guards, Scanning

\* A worker moves on, with or without the guard it had.
LEMMA WorkerMoves ==
  ASSUME IInv, GuardsHeld, NEW id \in TaskId, NEW w,
         worker' = [worker EXCEPT ![id] = w], w.guard \in BOOLEAN,
         w.guard => w.at \in Guarded
  PROVE  /\ GuardsHeld'
         /\ (w.guard <=> worker[id].guard) => Guards' = Guards
         /\ w.guard => Guards' = Guards \cup {id}
         /\ ~w.guard => Guards' = Guards \ {id}
<1>1. worker \in [TaskId -> Worker]
  BY DEF IInv, TypeOK
<1>2. worker'[id] = w /\ \A i \in TaskId : i # id => worker'[i] = worker[i]
  BY <1>1
<1>3. GuardsHeld'
  BY <1>2 DEF GuardsHeld
<1>4. w.guard => Guards' = Guards \cup {id}
  BY <1>2 DEF Guards
<1>5. ~w.guard => Guards' = Guards \ {id}
  BY <1>2 DEF Guards
<1> QED
  BY <1>3, <1>4, <1>5 DEF Guards

LEMMA JobBalances ==
  ASSUME IInv, BalanceInv, NEW id \in TaskId,
         JobStep(id) \/ \E outcome \in Outcome : ReturnCommand(id, outcome)
  PROVE  BalanceInv'
<1>0. /\ worker \in [TaskId -> Worker] /\ worker[id] \in Worker
      /\ worker[id].guard \in BOOLEAN
      /\ worker[id].guard => worker[id].at \in Guarded
  BY DEF IInv, TypeOK, Worker, BalanceInv, GuardsHeld
<1>1. CASE StartJob(id) \/ StartMood(id) \/ Refreshed(id)
  <2>1. PICK at \in {"started", "command", "refreshed"} :
          /\ worker' = [worker EXCEPT ![id].at = at]
          /\ worker[id].at \in {"spawned", "returned"}
          /\ worker[id].at = "returned" => at = "refreshed"
    BY <1>1 DEF StartJob, StartMood, Refreshed
  <2>2. PICK w : w = [worker[id] EXCEPT !.at = at]
    OBVIOUS
  <2>3. w.at = at
    BY <1>0, <2>2 DEF Worker
  <2>4. w.guard <=> worker[id].guard
    BY <1>0, <2>2 DEF Worker
  <2>5. w.guard \in BOOLEAN
    BY <1>0, <2>2 DEF Worker
  <2>6. worker' = [worker EXCEPT ![id] = w]
    BY <2>1, <2>2
  <2>7. w.guard => w.at \in Guarded
    BY <1>0, <2>1, <2>3, <2>4 DEF Guarded
  <2>8. GuardsHeld' /\ Guards' = Guards
    BY <2>4, <2>5, <2>6, <2>7, WorkerMoves DEF BalanceInv
  <2>9. scanActivity' = scanActivity /\ Scanning' = Scanning
    BY <1>1 DEF StartJob, StartMood, Refreshed, Scanning
  <2> QED BY <2>8, <2>9, BalanceKept DEF BalanceInv
<1>2. CASE BeginCommand(id)
  <2>0. worker[id].at = "started" /\ ~worker[id].guard
    BY <1>0, <1>2 DEF BeginCommand, Guarded
  <2>1. PICK isScan, at, outcome :
          /\ isScan \in BOOLEAN /\ at \in {"command", "returned"}
          /\ isScan <=> worker[id].kind = Scan
          /\ worker' = [worker EXCEPT ![id].guard = isScan, ![id].at = at,
                                      ![id].outcome = outcome]
          /\ scanActivity' = IF isScan THEN scanActivity + 1 ELSE scanActivity
    BY <1>2 DEF BeginCommand
  <2>2. PICK w : w = [worker[id] EXCEPT !.guard = isScan, !.at = at, !.outcome = outcome]
    OBVIOUS
  <2>3. w.at \in Guarded
    BY <1>0, <2>1, <2>2 DEF Worker, Guarded
  <2>4. w.guard = isScan
    BY <1>0, <2>1, <2>2 DEF Worker
  <2>5. worker' = [worker EXCEPT ![id] = w]
    BY <2>1, <2>2
  <2>6. /\ GuardsHeld'
        /\ isScan => Guards' = Guards \cup {id}
        /\ ~isScan => Guards' = Guards \ {id}
    BY <2>1, <2>3, <2>4, <2>5, WorkerMoves DEF BalanceInv
  <2>7. id \notin Guards
    BY <2>0 DEF Guards
  <2>8. Scanning' = Scanning
    BY <1>2 DEF BeginCommand, Scanning
  <2>9. CASE isScan
    BY <2>1, <2>6, <2>7, <2>8, <2>9, BalanceRaised DEF BalanceInv
  <2>10. CASE ~isScan
    BY <2>1, <2>6, <2>7, <2>8, <2>10, BalanceKept DEF BalanceInv
  <2> QED BY <2>9, <2>10
<1>3. CASE Finish(id)
  <2>1. worker[id].at = "refreshed" /\ id \in Retained
    BY <1>3, WorkerFacts DEF Finish, InFlight
  <2>2. PICK outcome : worker' = [worker EXCEPT ![id].at = "announcing", ![id].outcome = outcome]
    BY <1>3, <2>1 DEF Finish
  <2>3. PICK w : w = [worker[id] EXCEPT !.at = "announcing", !.outcome = outcome]
    OBVIOUS
  <2>4. w.at = "announcing"
    BY <1>0, <2>3 DEF Worker
  <2>5. w.guard <=> worker[id].guard
    BY <1>0, <2>3 DEF Worker
  <2>6. w.guard \in BOOLEAN
    BY <1>0, <2>3 DEF Worker
  <2>7. worker' = [worker EXCEPT ![id] = w]
    BY <2>2, <2>3
  <2>8. GuardsHeld' /\ Guards' = Guards
    BY <2>4, <2>5, <2>6, <2>7, WorkerMoves DEF BalanceInv, Guarded
  <2>9. scanActivity' = scanActivity /\ Scanning' = Scanning
    BY <1>3, <2>1 DEF Finish, Scanning
  <2> QED BY <2>8, <2>9, BalanceKept DEF BalanceInv
<1>4. CASE AnnounceEnd(id)
  <2>1. PICK w : w = [worker[id] EXCEPT !.at = "done", !.guard = FALSE]
    OBVIOUS
  <2>2. w.guard = FALSE
    BY <1>0, <2>1 DEF Worker
  <2>3. worker' = [worker EXCEPT ![id] = w]
    BY <1>4, <2>1 DEF AnnounceEnd
  <2>4. GuardsHeld' /\ Guards' = Guards \ {id}
    BY <2>2, <2>3, WorkerMoves DEF BalanceInv
  <2>5. Scanning' = Scanning
    BY <1>4 DEF AnnounceEnd, Scanning
  <2>6. CASE worker[id].guard
    <3>1. scanActivity' = scanActivity - 1 /\ id \in Guards
      BY <1>4, <2>6 DEF AnnounceEnd, GuardDropped, Guards
    <3> QED BY <2>4, <2>5, <3>1, BalanceLowered DEF BalanceInv
  <2>7. CASE ~worker[id].guard
    <3>1. scanActivity' = scanActivity /\ id \notin Guards
      BY <1>4, <2>7 DEF AnnounceEnd, GuardDropped, Guards
    <3> QED BY <2>4, <2>5, <3>1, BalanceKept DEF BalanceInv
  <2> QED BY <2>6, <2>7
<1>5. ASSUME NEW outcome \in Outcome, ReturnCommand(id, outcome) PROVE BalanceInv'
  <2>1. PICK panicked \in BOOLEAN, at \in {"refreshed", "returned"} :
          /\ worker' = [worker EXCEPT ![id].at = at, ![id].outcome = outcome,
                          ![id].guard = worker[id].guard /\ ~(panicked /\ worker[id].guard)]
          /\ scanActivity' = IF panicked /\ worker[id].guard THEN scanActivity - 1
                                                            ELSE scanActivity
    BY <1>5 DEF ReturnCommand
  <2>2. PICK guard \in BOOLEAN : guard = (worker[id].guard /\ ~(panicked /\ worker[id].guard))
    OBVIOUS
  <2>3. PICK w : w = [worker[id] EXCEPT !.at = at, !.outcome = outcome, !.guard = guard]
    OBVIOUS
  <2>4. w.at \in Guarded
    BY <1>0, <2>3 DEF Worker, Guarded
  <2>5. w.guard = guard
    BY <1>0, <2>3 DEF Worker
  <2>6. worker' = [worker EXCEPT ![id] = w]
    BY <2>1, <2>2, <2>3
  <2>7. /\ GuardsHeld'
        /\ (guard <=> worker[id].guard) => Guards' = Guards
        /\ ~guard => Guards' = Guards \ {id}
    BY <2>4, <2>5, <2>6, WorkerMoves DEF BalanceInv
  <2>8. Scanning' = Scanning
    BY <1>5 DEF ReturnCommand, Scanning
  <2>9. CASE panicked /\ worker[id].guard
    <3>1. scanActivity' = scanActivity - 1 /\ id \in Guards /\ ~guard
      BY <2>1, <2>2, <2>9 DEF Guards
    <3> QED BY <2>7, <2>8, <3>1, BalanceLowered DEF BalanceInv
  <2>10. CASE ~(panicked /\ worker[id].guard)
    <3>1. scanActivity' = scanActivity /\ (guard <=> worker[id].guard)
      BY <1>0, <2>1, <2>2, <2>10
    <3> QED BY <2>7, <2>8, <3>1, BalanceKept DEF BalanceInv
  <2> QED BY <2>9, <2>10
<1> QED BY <1>1, <1>2, <1>3, <1>4, <1>5 DEF JobStep

\* A bodyless scan is counted from the start of its work to its last guard.
LEMMA ScanBalances ==
  ASSUME IInv, BalanceInv, NEW s \in ScanWorker,
         ScanStep(s) \/ AbandonScan(s) \/ ReserveScan(s)
  PROVE  BalanceInv'
<1>0. /\ scan \in [ScanWorker -> ScanState] /\ scan[s] \in ScanState
      /\ worker' = worker
  BY DEF IInv, TypeOK, ScanStep, ScanBusy, BeginScan, FailScan, ReturnScan,
         PublishScan, AbandonScan, ReserveScan
<1>1. Guards' = Guards /\ GuardsHeld'
  BY <1>0 DEF Guards, GuardsHeld, BalanceInv
<1>2. CASE DropScan(s) /\ s \in Scanning /\ scanActivity' = scanActivity - 1
  <2>1. Scanning' = Scanning \ {s}
    BY <1>0, <1>2 DEF Scanning, DropScan, NoScan
  <2> QED BY <1>1, <1>2, <2>1, BalanceLowered DEF BalanceInv
<1>3. CASE BeginScan(s)
  <2>1. Scanning' = Scanning \cup {s} /\ s \notin Scanning
    BY <1>0, <1>3 DEF Scanning, BeginScan, ScanState
  <2>2. scanActivity' = scanActivity + 1
    BY <1>3 DEF BeginScan
  <2> QED BY <1>1, <2>1, <2>2, BalanceRaised DEF BalanceInv
<1>4. ASSUME scanActivity' = scanActivity,
             \A t \in ScanWorker : t # s => scan'[t] = scan[t],
             scan'[s].at \in {"scanning", "publishing"}
               <=> scan[s].at \in {"scanning", "publishing"}
      PROVE  BalanceInv'
  <2>1. Scanning' = Scanning
    BY <1>4 DEF Scanning
  <2> QED BY <1>1, <1>4, <2>1, BalanceKept DEF BalanceInv
<1>5. CASE ScanBusy(s) \/ ReserveScan(s)
  <2>1. scanActivity' = scanActivity /\ \A t \in ScanWorker : t # s => scan'[t] = scan[t]
    BY <1>0, <1>5 DEF ScanBusy, ReserveScan, DropScan
  <2>2. /\ scan[s].at \notin {"scanning", "publishing"}
        /\ scan'[s].at \notin {"scanning", "publishing"}
    BY <1>0, <1>5 DEF ScanBusy, ReserveScan, DropScan, NoScan
  <2> QED BY <1>4, <2>1, <2>2
<1>6. CASE FailScan(s) \/ PublishScan(s)
  BY <1>2, <1>6 DEF FailScan, PublishScan, Scanning
<1>7. CASE ReturnScan(s)
  <2>1. CASE scan[s].waiter
    <3>1. scan' = [scan EXCEPT ![s].at = "publishing"] /\ scanActivity' = scanActivity
      BY <1>7, <2>1 DEF ReturnScan
    <3>2. scan'[s].at = "publishing" /\ \A t \in ScanWorker : t # s => scan'[t] = scan[t]
      BY <1>0, <3>1 DEF ScanState
    <3> QED BY <1>4, <1>7, <3>1, <3>2 DEF ReturnScan
  <2>2. CASE ~scan[s].waiter
    BY <1>2, <1>7, <2>2 DEF ReturnScan, Scanning
  <2> QED BY <2>1, <2>2
<1>8. CASE AbandonScan(s)
  <2>1. CASE scan[s].at = "publishing"
    BY <1>2, <1>8, <2>1 DEF AbandonScan, Scanning
  <2>2. CASE scan[s].at # "publishing"
    <3>1. scan' = [scan EXCEPT ![s].waiter = FALSE] /\ scanActivity' = scanActivity
      BY <1>8, <2>2 DEF AbandonScan
    <3>2. scan'[s].at = scan[s].at /\ \A t \in ScanWorker : t # s => scan'[t] = scan[t]
      BY <1>0, <3>1 DEF ScanState
    <3> QED BY <1>4, <3>1, <3>2
  <2> QED BY <2>1, <2>2
<1> QED BY <1>3, <1>5, <1>6, <1>7, <1>8 DEF ScanStep

LEMMA BalanceStep ==
  ASSUME IInv, BalanceInv, [Next]_vars
  PROVE  BalanceInv'
<1>0. ASSUME UNCHANGED <<worker, scan, scanActivity>> PROVE BalanceInv'
  BY <1>0 DEF BalanceInv, ScanActivityBalanced, GuardsHeld
<1>1. ASSUME NEW h \in Handler, NEW kind \in Requested, TakeTaskId(h, kind) PROVE BalanceInv'
  BY <1>0, <1>1 DEF TakeTaskId
<1>2. ASSUME NEW h \in Handler, Insert(h) PROVE BalanceInv'
  <2>1. handler[h].id \in TaskId /\ worker[handler[h].id].at = "none"
    BY <1>2, RequestIsNew DEF Insert, IInv, RequestsFresh
  <2>2. PICK w : w = [Idle EXCEPT !.at = "spawned", !.kind = handler[h].kind]
    OBVIOUS
  <2>3. w.guard = FALSE
    BY <2>2 DEF Idle
  <2>4. worker' = [worker EXCEPT ![handler[h].id] = w]
    BY <1>2, <2>2 DEF Insert
  <2>5. handler[h].id \notin Guards
    BY <2>1 DEF BalanceInv, GuardsHeld, Guards, Guarded
  <2>6. GuardsHeld' /\ Guards' = Guards \ {handler[h].id}
    BY <2>1, <2>3, <2>4, WorkerMoves DEF BalanceInv
  <2>7. scanActivity' = scanActivity /\ Scanning' = Scanning
    BY <1>2 DEF Insert, Scanning
  <2> QED BY <2>5, <2>6, <2>7, BalanceKept DEF BalanceInv
<1>3. ASSUME NEW h \in Handler, Refuse(h) PROVE BalanceInv'
  BY <1>0, <1>3 DEF Refuse
<1>4. ASSUME NEW id \in TaskId, JobStep(id) PROVE BalanceInv'
  BY <1>4, JobBalances
<1>5. ASSUME NEW id \in TaskId, Cancel(id) PROVE BalanceInv'
  BY <1>0, <1>5 DEF Cancel
<1>6. ASSUME NEW id \in TaskId, MoodProgress(id) PROVE BalanceInv'
  BY <1>0, <1>6, MoodProgressKeeps DEF MoodProgress
<1>7. ASSUME NEW id \in TaskId, NEW files \in 1..MaxFiles, ReportSnapshot(id, files)
      PROVE  BalanceInv'
  BY <1>0, <1>7 DEF ReportSnapshot
<1>8. ASSUME NEW id \in TaskId, NEW outcome \in Outcome, ReturnCommand(id, outcome)
      PROVE  BalanceInv'
  BY <1>8, JobBalances
<1>9. ASSUME NEW s \in ScanWorker, ReserveScan(s) \/ ScanStep(s) \/ AbandonScan(s)
      PROVE  BalanceInv'
  BY <1>9, ScanBalances
<1>10. CASE CloseOwner \/ ForceStop \/ MonitorForce \/ ServerStep \/ Exit
  BY <1>0, <1>10 DEF CloseOwner, ForceStop, MonitorForce, ServerStep, BeginShutdown,
     Drained, ArmWait, CheckActive, Await, WakeWait, Exit, vars
<1>11. CASE UNCHANGED vars
  BY <1>0, <1>11 DEF vars
<1> QED
  BY <1>1, <1>2, <1>3, <1>4, <1>5, <1>6, <1>7, <1>8, <1>9, <1>10, <1>11 DEF Next

LEMMA BalancedAtStart ==
  Init => BalanceInv
<1> SUFFICES ASSUME Init PROVE BalanceInv
  OBVIOUS
<1>1. Guards = {} /\ Scanning = {} /\ GuardsHeld /\ scanActivity = 0
  BY DEF Init, Idle, NoScan, Guards, Scanning, GuardsHeld
<1>2. scanActivity = Cardinality(Guards) + Cardinality(Scanning)
  BY <1>1, FS_EmptySet
<1> QED
  BY <1>1, <1>2 DEF BalanceInv, ScanActivityBalanced, Guards, Scanning

\* The scan indicator counts every scan guard once, through panics, abandoned
\* waiters and scans that publish after their command returned.
THEOREM ScanActivityIsBalanced == Spec => []ScanActivityBalanced
<1>1. BalanceInv /\ IInv /\ [Next]_vars => BalanceInv'
  BY BalanceStep
<1>2. BalanceInv => ScanActivityBalanced
  BY DEF BalanceInv
<1> QED
  BY <1>1, <1>2, BalancedAtStart, RegistryInvariant, PTL DEF Spec
-----------------------------------------------------------------------------
(***************************************************************************)
(* The wakeup of a shutdown that waits.                                    *)
(***************************************************************************)
\* wait_for_jobs never sleeps through the last release: once it has seen active
\* work, it is woken when there is none left, whatever was released in between.
NoLostWakeup == phase \in {"counted", "parked"} /\ active = 0 => notified

\* A step that takes nothing from the count leaves the wakeup as it is, unless
\* wait_for_jobs itself makes it; a release wakes it.
StaysAwake == active' >= active /\ notified' = notified /\ phase' = phase
WaitMoves  == ServerStep /\ active' = active
Releases   == NotifyWaiters /\ phase' = phase

LEMMA WakeupStep ==
  ASSUME IInv, [Next]_vars
  PROVE  StaysAwake \/ WaitMoves \/ Releases
<1>0. active \in Nat
  BY DEF IInv, TypeOK
<1>1. ASSUME NEW h \in Handler,
             (\E kind \in Requested : TakeTaskId(h, kind)) \/ Insert(h) \/ Refuse(h)
      PROVE  StaysAwake
  BY <1>0, <1>1 DEF TakeTaskId, Insert, Refuse, StaysAwake
<1>2. ASSUME NEW id \in TaskId, JobStep(id)
      PROVE  StaysAwake \/ Releases
  BY <1>0, <1>2 DEF JobStep, StartJob, BeginCommand, StartMood, Refreshed, Finish, AnnounceEnd,
     Release, StaysAwake, Releases
<1>3. ASSUME NEW id \in TaskId, Cancel(id) \/ MoodProgress(id)
      PROVE  StaysAwake
  <2>1. active' = active /\ phase' = phase /\ notified' = notified
    BY <1>3 DEF Cancel, MoodProgress
  <2> QED BY <1>0, <2>1 DEF StaysAwake
<1>7. ASSUME NEW id \in TaskId, NEW files \in 1..MaxFiles, ReportSnapshot(id, files)
      PROVE  StaysAwake
  <2>1. active' = active /\ phase' = phase /\ notified' = notified
    BY <1>7 DEF ReportSnapshot
  <2> QED BY <1>0, <2>1 DEF StaysAwake
<1>8. ASSUME NEW id \in TaskId, NEW outcome \in Outcome, ReturnCommand(id, outcome)
      PROVE  StaysAwake
  <2>1. active' = active /\ phase' = phase /\ notified' = notified
    BY <1>8 DEF ReturnCommand
  <2> QED BY <1>0, <2>1 DEF StaysAwake
<1>4. ASSUME NEW s \in ScanWorker, ReserveScan(s) \/ ScanStep(s) \/ AbandonScan(s)
      PROVE  StaysAwake \/ Releases
  BY <1>0, <1>4 DEF ReserveScan, ScanStep, ScanBusy, BeginScan, FailScan, ReturnScan, PublishScan,
     AbandonScan, DropScan, Release, StaysAwake, Releases
<1>5. CASE CloseOwner \/ ForceStop \/ MonitorForce \/ Exit \/ UNCHANGED vars
  BY <1>0, <1>5 DEF CloseOwner, ForceStop, MonitorForce, Exit, vars, StaysAwake
<1>6. CASE ServerStep
  BY <1>6 DEF ServerStep, BeginShutdown, Drained, ArmWait, CheckActive, Await, WakeWait, WaitMoves
<1> QED
  BY <1>1, <1>2, <1>3, <1>4, <1>5, <1>6, <1>7, <1>8 DEF Next

\* The Notified future of wait_for_jobs is taken before the count is read, so no
\* release between the two, or before the future is polled, is lost.
THEOREM WakeupsArrive == Spec => []NoLostWakeup
<1>1. Init => NoLostWakeup
  BY DEF Init, NoLostWakeup
<1>2. IInv /\ NoLostWakeup /\ [Next]_vars => NoLostWakeup'
  <2> SUFFICES ASSUME IInv, NoLostWakeup, [Next]_vars PROVE NoLostWakeup'
    OBVIOUS
  <2>0. active \in Nat /\ active' \in Nat
    BY AdmissionStep DEF IInv, TypeOK
  <2>1. CASE StaysAwake
    BY <2>0, <2>1 DEF StaysAwake, NoLostWakeup
  <2>2. CASE WaitMoves
    BY <2>2 DEF WaitMoves, ServerStep, BeginShutdown, Drained, ArmWait, CheckActive, Await,
       WakeWait, NoLostWakeup
  <2>3. CASE Releases
    BY <2>3 DEF Releases, NotifyWaiters, NoLostWakeup
  <2> QED BY <2>1, <2>2, <2>3, WakeupStep
<1> QED
  BY <1>1, <1>2, RegistryInvariant, PTL DEF Spec
=============================================================================
