---------------------------- MODULE CatalogReload ----------------------------
(***************************************************************************)
(* How aede-server keeps the catalog it publishes up to date with the two  *)
(* JSON documents on disk: the watcher, the refresh at the end of every    *)
(* administrative job, the bodyless scan that publishes what it just       *)
(* saved, the writers that hold the store lock, and hands that delete the  *)
(* catalog.  The store lock and the reload gate are the two locks.         *)
(***************************************************************************)
EXTENDS Naturals, FiniteSets

CONSTANTS
  Watcher,      \* the watch_catalog task
  Job,          \* administrative or delegated jobs: a writer, then a refresh
  Cli,          \* commands run beside the server: writers only
  ScanWorker,   \* bodyless scans
  Free,         \* nobody, as holder of a lock
  MaxVersion,   \* bound of this model: saves of the store
  MaxRemovals,  \* bound of this model: deletions of the catalog document
  MaxLockErrors \* bound of this model: I/O errors of StoreLock::try_acquire

Writer    == Job \cup Cli
Refresher == {Watcher} \cup Job

ASSUME CatalogReloadAssumption ==
  /\ MaxVersion \in Nat \ {0}
  /\ MaxRemovals \in Nat
  /\ MaxLockErrors \in Nat
  /\ Watcher \notin Job \cup Cli \cup ScanWorker
  /\ Job \cap Cli = {} /\ Writer \cap ScanWorker = {}
  /\ Free \notin Writer \cup ScanWorker \cup {Watcher}

VARIABLES
  disk,         \* the versions of both documents, and whether they can be read
  nextVersion,
  lock,         \* the holder of StoreLock
  gate,         \* the holder of ApiState.reload_gate
  published,    \* ApiState.catalog
  loadedStamp,  \* ApiState.loaded_stamp
  announced,    \* the catalog of the last CatalogChanged
  refresh,      \* per refresher, its refresh_catalog call
  writer,       \* per writer, its read/modify/save
  scan,         \* per bodyless scan, its stage and what it saved
  stopped,      \* the watcher was told to stop
  removals, lockErrors

vars == <<disk, nextVersion, lock, gate, published, loadedStamp, announced,
          refresh, writer, scan, stopped, removals, lockErrors>>
-----------------------------------------------------------------------------
Version == 0..MaxVersion

\* What a stamp or a snapshot stands for: a version of the catalog with the
\* conclusions attached to it.  Modification times and lengths tell versions
\* apart.  A missing catalog has no stamp and loads as no catalog.
Pair == Version \X Version
None == <<0, 0>>

\* storage_stamp
Stamp == IF disk.catalog = 0 THEN None ELSE <<disk.catalog, disk.conclusions>>

\* store::load returns an error for a document it cannot parse.
Readable == disk.catalog = 0 \/ disk.ok

\* reported_failure before anything was reported.
Nothing == <<MaxVersion + 1, 0>>

Call == [at : {"gate", "second", "locking", "loading", "publishing", "stamping",
               "reporting", "leaving", "orphan", "waiting", "ended"},
         known : Pair, stamp : Pair, content : Pair,
         reported : Pair \cup {Nothing},
         result : {"none", "current", "busy", "failed"}]

NewCall(at) == [at |-> at, known |-> None, stamp |-> None, content |-> None,
                reported |-> Nothing, result |-> "none"]

NotWriting == [at |-> "none", version |-> 0]
NotScanning == [at |-> "idle", waiter |-> FALSE, version |-> 0, content |-> None,
                saved |-> None]

Init ==
  /\ disk = [catalog |-> 1, conclusions |-> 1, ok |-> TRUE]
  /\ nextVersion = 2
  /\ lock = Free
  /\ gate = Free
  /\ published = <<1, 1>>
  /\ loadedStamp = <<1, 1>>
  /\ announced = <<1, 1>>
  /\ refresh = [r \in Refresher |->
                  IF r = Watcher THEN [NewCall("gate") EXCEPT !.known = <<1, 1>>]
                                 ELSE NewCall("waiting")]
  /\ writer = [w \in Writer |-> NotWriting]
  /\ scan = [s \in ScanWorker |-> NotScanning]
  /\ stopped = FALSE
  /\ removals = 0
  /\ lockErrors = 0

serverVars == <<gate, published, loadedStamp, announced, refresh, scan, stopped>>
diskVars   == <<disk, nextVersion, lock, writer, removals>>
-----------------------------------------------------------------------------
(***************************************************************************)
(* Writers: store::save under the store lock, conclusions first.           *)
(***************************************************************************)
BeginWrite(w) ==
  /\ writer[w].at = "none"
  /\ lock = Free
  /\ nextVersion <= MaxVersion
  /\ lock' = w
  /\ writer' = [writer EXCEPT ![w] = [at |-> "writing", version |-> nextVersion]]
  /\ nextVersion' = nextVersion + 1
  /\ UNCHANGED <<disk, removals, lockErrors, serverVars>>

RenameConclusions(w) ==
  /\ writer[w].at = "writing"
  /\ disk' = [disk EXCEPT !.conclusions = writer[w].version]
  /\ writer' = [writer EXCEPT ![w].at = "half"]
  /\ UNCHANGED <<nextVersion, lock, removals, lockErrors, serverVars>>

\* Another release of the program may write a format this server refuses.
RenameCatalog(w) ==
  /\ writer[w].at = "half"
  /\ \E ok \in BOOLEAN :
       disk' = [disk EXCEPT !.catalog = writer[w].version, !.ok = ok]
  /\ writer' = [writer EXCEPT ![w].at = "saved"]
  /\ UNCHANGED <<nextVersion, lock, removals, lockErrors, serverVars>>

\* The command ends, or dies between two renames; the lock goes with it.
EndWrite(w) ==
  /\ writer[w].at \in {"writing", "half", "saved"}
  /\ lock' = Free
  /\ writer' = [writer EXCEPT ![w] =
       [at |-> "exited", version |-> IF @.at = "saved" THEN @.version ELSE 0]]
  /\ UNCHANGED <<disk, nextVersion, removals, lockErrors, serverVars>>

\* Somebody deletes the catalog document, without the lock.
RemoveCatalog ==
  /\ removals < MaxRemovals
  /\ disk.catalog # 0
  /\ disk' = [disk EXCEPT !.catalog = 0]
  /\ removals' = removals + 1
  /\ UNCHANGED <<nextVersion, lock, writer, lockErrors, serverVars>>
-----------------------------------------------------------------------------
(***************************************************************************)
(* refresh_catalog.                                                        *)
(***************************************************************************)

\* Mutated forms: the job starts from what is on disk, or from nothing.
KnownAtStart_FromDisk == Stamp
KnownAtStart_Unset == Nothing

\* run_job starts from the stamp of what is published, read before the gate.
KnownAtStart == loadedStamp

StartRefresh(j) ==
  /\ writer[j].at = "exited"
  /\ refresh[j].at = "waiting"
  /\ refresh' = [refresh EXCEPT ![j].at = "gate", ![j].known = KnownAtStart]
  /\ UNCHANGED <<gate, published, loadedStamp, announced, scan, stopped,
                 diskVars, lockErrors>>

\* The call returns: the watcher will tick again, a job finishes.
Return(r, call, result) ==
  /\ gate' = Free
  /\ refresh' = [refresh EXCEPT ![r] =
       [call EXCEPT !.at = IF r = Watcher THEN "gate" ELSE "ended", !.result = result,
                    !.stamp = None, !.content = None]]

EnterGate(r) ==
  /\ refresh[r].at = "gate"
  /\ gate = Free
  /\ IF Stamp = refresh[r].known
     THEN Return(r, refresh[r], "current")
     ELSE /\ gate' = r
          /\ refresh' = [refresh EXCEPT ![r].at = "second"]
  /\ UNCHANGED <<published, loadedStamp, announced, scan, stopped, diskVars, lockErrors>>

\* Somebody else may have loaded it meanwhile.
CompareLoaded(r) ==
  /\ refresh[r].at = "second"
  /\ IF Stamp = loadedStamp
     THEN Return(r, [refresh[r] EXCEPT !.known = loadedStamp], "current")
     ELSE /\ refresh' = [refresh EXCEPT ![r].at = "locking"]
          /\ gate' = gate
  /\ UNCHANGED <<published, loadedStamp, announced, scan, stopped, diskVars, lockErrors>>

\* Mutated forms: the lock is not taken; the lock is waited for.
TryLock_Without(r) ==
  /\ refresh[r].at = "locking"
  /\ refresh' = [refresh EXCEPT ![r].at = "loading", ![r].stamp = Stamp]
  /\ UNCHANGED <<gate, lock>>
  /\ UNCHANGED <<disk, nextVersion, writer, removals, lockErrors, published,
                 loadedStamp, announced, scan, stopped>>

TryLock_Waiting(r) ==
  /\ refresh[r].at = "locking"
  /\ lock = Free
  /\ lock' = r
  /\ refresh' = [refresh EXCEPT ![r].at = "loading", ![r].stamp = Stamp]
  /\ UNCHANGED <<disk, nextVersion, writer, removals, lockErrors, gate,
                 published, loadedStamp, announced, scan, stopped>>

\* StoreLock::try_acquire in a blocking worker, then the stamp under the lock:
\* Busy, Unchanged, or the load begins.
TryLock(r) ==
  /\ refresh[r].at = "locking"
  /\ \/ /\ lock # Free
        /\ Return(r, refresh[r], "busy")
        /\ lock' = lock
     \/ /\ lock = Free
        /\ Stamp = refresh[r].known
        /\ Return(r, refresh[r], "current")
        /\ lock' = lock
     \/ /\ lock = Free
        /\ Stamp # refresh[r].known
        /\ lock' = r
        /\ refresh' = [refresh EXCEPT ![r].at = "loading", ![r].stamp = Stamp]
        /\ gate' = gate
  /\ UNCHANGED <<disk, nextVersion, writer, removals, lockErrors, published,
                 loadedStamp, announced, scan, stopped>>

\* Mutated form: the lock is kept by an error, and by the caller of the worker.
Unlock_Never(r) == lock' = lock

Unlock(r) == lock' = IF lock = r THEN Free ELSE lock

\* The lock cannot be opened, or the blocking worker panics.
LockFails(r) ==
  /\ refresh[r].at \in {"locking", "loading"}
  /\ lockErrors < MaxLockErrors
  /\ lockErrors' = lockErrors + 1
  /\ refresh' = [refresh EXCEPT ![r].at = "reporting", ![r].stamp = None]
  /\ Unlock(r)
  /\ UNCHANGED <<disk, nextVersion, writer, removals, gate, published,
                 loadedStamp, announced, scan, stopped>>

\* store::load; the lock is dropped with the closure.
Load(r) ==
  /\ refresh[r].at = "loading"
  /\ refresh' = [refresh EXCEPT
       ![r].at = IF Readable THEN "publishing" ELSE "reporting",
       ![r].content = IF Readable THEN Stamp ELSE None,
       ![r].stamp = IF Readable THEN @ ELSE None]
  /\ Unlock(r)
  /\ UNCHANGED <<disk, nextVersion, writer, removals, lockErrors, gate,
                 published, loadedStamp, announced, scan, stopped>>

Publish(r) ==
  /\ refresh[r].at = "publishing"
  /\ published' = refresh[r].content
  /\ refresh' = [refresh EXCEPT ![r].at = "stamping"]
  /\ UNCHANGED <<diskVars, lockErrors, gate, loadedStamp, announced, scan, stopped>>

\* Mutated form: the stamp is read again when it is recorded.
StampOfLoaded_Again(r) == Stamp

\* The stamp read under the lock goes with the catalog read under the lock.
StampOfLoaded(r) == refresh[r].stamp

RecordStamp(r) ==
  /\ refresh[r].at = "stamping"
  /\ loadedStamp' = StampOfLoaded(r)
  /\ announced' = published
  /\ Return(r, [refresh[r] EXCEPT !.known = StampOfLoaded(r), !.reported = Nothing], "current")
  /\ UNCHANGED <<diskVars, lockErrors, published, scan, stopped>>

\* report_reload_failure reads the stamp once more to tell revisions apart.
ReportedAs(r) == Stamp

ReportFailure(r) ==
  /\ refresh[r].at = "reporting"
  /\ Return(r, [refresh[r] EXCEPT !.reported = ReportedAs(r)], "failed")
  /\ UNCHANGED <<diskVars, lockErrors, published, loadedStamp, announced, scan, stopped>>
-----------------------------------------------------------------------------
(***************************************************************************)
(* The bodyless scan holds the store lock from its first read to the end   *)
(* of its publication.                                                     *)
(***************************************************************************)
BeginScan(s) ==
  /\ scan[s].at = "idle"
  /\ ~stopped
  /\ lock = Free
  /\ nextVersion <= MaxVersion
  /\ lock' = s
  /\ scan' = [scan EXCEPT ![s] =
       [NotScanning EXCEPT !.at = "scanning", !.waiter = TRUE, !.version = nextVersion]]
  /\ nextVersion' = nextVersion + 1
  /\ UNCHANGED <<disk, writer, removals, lockErrors, gate, published, loadedStamp,
                 announced, refresh, stopped>>

ScanSavesConclusions(s) ==
  /\ scan[s].at = "scanning"
  /\ disk' = [disk EXCEPT !.conclusions = scan[s].version]
  /\ scan' = [scan EXCEPT ![s].at = "half"]
  /\ UNCHANGED <<nextVersion, lock, writer, removals, lockErrors, gate, published,
                 loadedStamp, announced, refresh, stopped>>

ScanSavesCatalog(s) ==
  /\ scan[s].at = "half"
  /\ disk' = [disk EXCEPT !.catalog = scan[s].version, !.ok = TRUE]
  /\ scan' = [scan EXCEPT ![s].at = "saved"]
  /\ UNCHANGED <<nextVersion, lock, writer, removals, lockErrors, gate, published,
                 loadedStamp, announced, refresh, stopped>>

EndScan(s) ==
  /\ scan' = [scan EXCEPT ![s] = NotScanning]
  /\ Unlock(s)

\* The worker fails at any point, or finds the catalog gone after the scan.
FailScan(s) ==
  /\ scan[s].at \in {"scanning", "half", "saved", "loaded"}
  /\ EndScan(s)
  /\ UNCHANGED <<disk, nextVersion, writer, removals, lockErrors, gate, published,
                 loadedStamp, announced, refresh, stopped>>

\* store::load of what was saved; the stamp is read after it.
ScanLoads(s) ==
  /\ scan[s].at = "saved"
  /\ disk.catalog # 0
  /\ scan' = [scan EXCEPT ![s].at = "loaded", ![s].content = Stamp]
  /\ UNCHANGED <<disk, nextVersion, lock, writer, removals, lockErrors, gate,
                 published, loadedStamp, announced, refresh, stopped>>

\* Catalog and stamp go to the waiter with the lock, or are dropped with it.
ReturnScan(s) ==
  /\ scan[s].at = "loaded"
  /\ IF scan[s].waiter
     THEN /\ scan' = [scan EXCEPT ![s].at = "waiting", ![s].saved = Stamp]
          /\ lock' = lock
     ELSE EndScan(s)
  /\ UNCHANGED <<disk, nextVersion, writer, removals, lockErrors, gate, published,
                 loadedStamp, announced, refresh, stopped>>

\* Mutated form: the publication does not wait for a refresh under way.
ScanEntersGate_Anyway(s) ==
  /\ scan[s].at = "waiting"
  /\ scan' = [scan EXCEPT ![s].at = "publishing"]
  /\ UNCHANGED <<disk, nextVersion, lock, writer, removals, lockErrors, gate,
                 published, loadedStamp, announced, refresh, stopped>>

ScanEntersGate(s) ==
  /\ scan[s].at = "waiting"
  /\ gate = Free
  /\ gate' = s
  /\ scan' = [scan EXCEPT ![s].at = "publishing"]
  /\ UNCHANGED <<disk, nextVersion, lock, writer, removals, lockErrors, published,
                 loadedStamp, announced, refresh, stopped>>

\* Mutated form: the stamp is recorded with the catalog, before the announcement.
ScanPublishes_WithStamp(s) ==
  /\ scan[s].at = "publishing"
  /\ published' = scan[s].content
  /\ loadedStamp' = scan[s].saved
  /\ scan' = [scan EXCEPT ![s].at = "stamping"]
  /\ UNCHANGED <<disk, nextVersion, lock, writer, removals, lockErrors, gate,
                 announced, refresh, stopped>>

ScanPublishes(s) ==
  /\ scan[s].at = "publishing"
  /\ published' = scan[s].content
  /\ scan' = [scan EXCEPT ![s].at = "stamping"]
  /\ UNCHANGED <<disk, nextVersion, lock, writer, removals, lockErrors, gate,
                 loadedStamp, announced, refresh, stopped>>

OpenGate(s) == gate' = IF gate = s THEN Free ELSE gate

ScanRecordsStamp(s) ==
  /\ scan[s].at = "stamping"
  /\ loadedStamp' = scan[s].saved
  /\ announced' = scan[s].content
  /\ OpenGate(s)
  /\ EndScan(s)
  /\ UNCHANGED <<disk, nextVersion, writer, removals, lockErrors, published,
                 refresh, stopped>>

\* The waiter's future is dropped at one of its awaits: the blocking worker goes
\* on without it, the publication does not.
AbandonScan(s) ==
  /\ scan[s].waiter
  /\ IF scan[s].at \in {"waiting", "publishing", "stamping"}
     THEN EndScan(s) /\ OpenGate(s)
     ELSE scan' = [scan EXCEPT ![s].waiter = FALSE] /\ UNCHANGED <<lock, gate>>
  /\ UNCHANGED <<disk, nextVersion, writer, removals, lockErrors, published,
                 loadedStamp, announced, refresh, stopped>>
-----------------------------------------------------------------------------
\* The watcher task is aborted at one of its awaits; the blocking worker it has
\* started goes on, and keeps the store lock until it ends.
StopWatcher ==
  /\ ~stopped
  /\ stopped' = TRUE
  /\ refresh' = [refresh EXCEPT ![Watcher].at =
       IF @ = "locking" THEN "leaving" ELSE IF @ = "loading" THEN "orphan" ELSE "ended"]
  /\ gate' = IF gate = Watcher THEN Free ELSE gate
  /\ UNCHANGED <<diskVars, lockErrors, published, loadedStamp, announced, scan>>

OrphanLocks ==
  /\ refresh[Watcher].at = "leaving"
  /\ IF lock = Free
     THEN lock' = Watcher /\ refresh' = [refresh EXCEPT ![Watcher].at = "orphan"]
     ELSE lock' = lock /\ refresh' = [refresh EXCEPT ![Watcher].at = "ended"]
  /\ UNCHANGED <<disk, nextVersion, writer, removals, lockErrors, gate, published,
                 loadedStamp, announced, scan, stopped>>

OrphanEnds ==
  /\ refresh[Watcher].at = "orphan"
  /\ refresh' = [refresh EXCEPT ![Watcher].at = "ended"]
  /\ Unlock(Watcher)
  /\ UNCHANGED <<disk, nextVersion, writer, removals, lockErrors, gate, published,
                 loadedStamp, announced, scan, stopped>>

RefreshStep(r) ==
  \/ CompareLoaded(r)
  \/ TryLock(r)
  \/ Load(r)
  \/ Publish(r)
  \/ RecordStamp(r)
  \/ ReportFailure(r)

WriterStep(w) ==
  \/ RenameConclusions(w)
  \/ RenameCatalog(w)
  \/ EndWrite(w)

ScanStep(s) ==
  \/ ScanSavesConclusions(s)
  \/ ScanSavesCatalog(s)
  \/ FailScan(s)
  \/ ScanLoads(s)
  \/ ReturnScan(s)
  \/ ScanPublishes(s)
  \/ ScanRecordsStamp(s)

Next ==
  \/ \E w \in Writer : BeginWrite(w) \/ WriterStep(w)
  \/ RemoveCatalog
  \/ \E j \in Job : StartRefresh(j)
  \/ \E r \in Refresher : EnterGate(r) \/ RefreshStep(r) \/ LockFails(r)
  \/ \E s \in ScanWorker :
       BeginScan(s) \/ ScanStep(s) \/ ScanEntersGate(s) \/ AbandonScan(s)
  \/ StopWatcher
  \/ OrphanLocks
  \/ OrphanEnds

Spec == Init /\ [][Next]_vars

(***************************************************************************)
(* Fairness.  A holder of the store lock runs to its end, tasks are polled *)
(* and the watcher ticks.  The reload gate is a tokio mutex, which serves  *)
(* its waiters in order: who waits for it gets it.                         *)
(***************************************************************************)
FairSpec ==
  /\ Spec
  /\ \A w \in Writer : WF_vars(WriterStep(w))
  /\ \A j \in Job : WF_vars(StartRefresh(j))
  /\ \A r \in Refresher : WF_vars(RefreshStep(r)) /\ SF_vars(EnterGate(r))
  /\ \A s \in ScanWorker : WF_vars(ScanStep(s)) /\ SF_vars(ScanEntersGate(s))
  /\ WF_vars(OrphanLocks \/ OrphanEnds)
-----------------------------------------------------------------------------
TypeOK ==
  /\ disk \in [catalog : Version, conclusions : Version, ok : BOOLEAN]
  /\ nextVersion \in 1..(MaxVersion + 1)
  /\ lock \in {Free} \cup Writer \cup ScanWorker \cup Refresher
  /\ gate \in {Free} \cup ScanWorker \cup Refresher
  /\ published \in Pair
  /\ loadedStamp \in Pair
  /\ announced \in Pair
  /\ refresh \in [Refresher -> Call]
  /\ writer \in [Writer -> [at : {"none", "writing", "half", "saved", "exited"},
                            version : Version]]
  /\ scan \in [ScanWorker -> [at : {"idle", "scanning", "half", "saved", "loaded",
                                    "waiting", "publishing", "stamping"},
                              waiter : BOOLEAN, version : Version,
                              content : Pair, saved : Pair]]
  /\ stopped \in BOOLEAN
  /\ removals \in 0..MaxRemovals
  /\ lockErrors \in 0..MaxLockErrors

\* "a writer's snapshot stays private": nothing a writer or a scan has put on disk
\* is published, or about to be, while it still holds the store lock.
Unfinished ==
  {writer[w].version : w \in {v \in Writer : writer[v].at \in {"half", "saved"}}}
    \cup {scan[s].version : s \in {t \in ScanWorker : scan[t].at \in {"half", "saved", "loaded"}}}

SnapshotStaysPrivate ==
  \A version \in Unfinished :
    /\ published[2] # version
    /\ \A r \in Refresher : refresh[r].at \in {"publishing", "stamping"} =>
                              refresh[r].content[2] # version

\* Readers never see the published catalog go back to an older revision, whichever of a
\* refresh and a scan comes last.
NeverOlder ==
  published # None /\ published' # None =>
    published'[1] >= published[1] /\ published'[2] >= published[2]

NoRegression == [][NeverOlder]_vars

\* There is a catalog on disk, and this server can read it.
Loadable == disk.catalog # 0 /\ disk.ok

\* The recorded stamp is never ahead of the published catalog: between
\* publications, a server that takes the catalog on disk for loaded has
\* published it.
BelievedCurrent ==
  gate = Free /\ loadedStamp = Stamp /\ Loadable => published = Stamp

\* A lock that is held is in use: whatever is aborted, abandoned or fails, the
\* holder of the store lock or of the gate is at a step that gives it back.
LocksInUse ==
  /\ lock # Free =>
       \/ lock \in Writer /\ writer[lock].at \in {"writing", "half", "saved"}
       \/ lock \in Refresher /\ refresh[lock].at \in {"loading", "orphan"}
       \/ lock \in ScanWorker /\ scan[lock].at # "idle"
  /\ gate # Free =>
       \/ gate \in Refresher /\ refresh[gate].at \in
            {"second", "locking", "loading", "publishing", "stamping", "reporting"}
       \/ gate \in ScanWorker /\ scan[gate].at \in {"publishing", "stamping"}

\* "catalog reload was attempted before notification": a job whose refresh ends
\* without another writer or an error in its way, and finds a catalog on disk, ends
\* with its own save, or a later one, published.  While the catalog is missing this
\* can fail: a missing catalog has the same stamp each time, and the job may take
\* its own for loaded.
EndsCurrent(j) ==
  refresh[j].at # "ended" /\ refresh'[j].at = "ended" /\ refresh'[j].result = "current"

SavesAreSeen ==
  \A j \in Job : EndsCurrent(j) /\ disk.catalog # 0 =>
                   published' = None \/ published'[1] >= writer[j].version

JobSeesItsSave == [][SavesAreSeen]_vars

\* Every scan that has begun publishes or gives up, and every job whose command
\* has ended gets through the refresh that comes before its final record: a scan's
\* store lock and the gate of a refresh never wait for each other.  Versions
\* bound how often work begins, so that all of it ends iff none is left at last.
WorkEnds ==
  <>[](/\ \A s \in ScanWorker : scan[s].at = "idle"
       /\ \A j \in Job : refresh[j].at = "ended" \/ writer[j].at = "none")

\* "The HTTP server reloads external CLI catalog changes": in the end the
\* published catalog is the one on disk, if there is one that can be read, and it
\* has been announced, also when the scan that published it was abandoned before
\* its announcement (the stamp it did not record makes the watcher load the same
\* catalog again); a catalog that cannot be read is reported for its own revision.
EventuallyFresh ==
  <>[](\/ stopped
       \/ IF Readable THEN Loadable => published = Stamp /\ announced = published
          ELSE refresh[Watcher].reported = Stamp)

\* "replacing or removing the catalog updates the snapshot and announces it".  This
\* one does not hold: a missing catalog has the same stamp each time, and the
\* watcher's own record of what it has seen, or a stamp that a scan has read after
\* it loaded its catalog, may already be that stamp.
RemovalReachesReaders == <>[](stopped \/ (disk.catalog = 0 => published = None))
=============================================================================
