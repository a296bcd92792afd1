------------------------- MODULE CatalogReloadProofs -------------------------
(***************************************************************************)
(* What the server publishes is whole, never goes back, and is what it     *)
(* believes to have loaded, for every number of jobs, commands, scans,     *)
(* saves, removals and errors of the lock.                                 *)
(***************************************************************************)
EXTENDS CatalogReload, TLAPS

Below(p, v) == p[1] < v /\ p[2] < v
AtMost(p, q) == p[1] <= q[1] /\ p[2] <= q[2]

\* A pair that was read from the documents is not newer than they are now.
Seen(p) == p[2] <= disk.conclusions /\ (disk.catalog # 0 => p[1] <= disk.catalog)

\* The catalog of a pair is not on disk, and will not come back.
Gone(p) == p[1] = 0 \/ disk.catalog # p[1]

Active(w) == writer[w].at \in {"writing", "half", "saved"}
Gated == {"second", "locking", "loading", "publishing", "stamping", "reporting"}
InFlight(r) == refresh[r].at \in {"publishing", "stamping"}
Saving == {"scanning", "half", "saved", "loaded", "waiting", "publishing"}
Saved == {"loaded", "waiting", "publishing", "stamping"}

\* Every pair that the server has, but those of a scan.
Held(p) ==
  \/ p \in {published, loadedStamp}
  \/ \E r \in Refresher : p \in {refresh[r].known, refresh[r].stamp, refresh[r].content}

\* Whoever reads or writes the documents holds the store lock, whoever publishes
\* the reload gate, and a job refreshes only after it has written.
LocksInv ==
  /\ \A w \in Writer : Active(w) => lock = w
  /\ \A r \in Refresher : refresh[r].at \in {"loading", "orphan"} => lock = r
  /\ \A s \in ScanWorker : scan[s].at # "idle" => lock = s
  /\ \A r \in Refresher : refresh[r].at \in Gated => gate = r
  /\ \A s \in ScanWorker : scan[s].at \in {"publishing", "stamping"} => gate = s
  /\ \A j \in Job : refresh[j].at # "waiting" => writer[j].at = "exited"
  /\ \A j \in Job : refresh[j].at \notin {"leaving", "orphan"}

\* What a scan can be: its documents, and what it has read of them.
ScanSound(x) ==
  /\ x.at # "idle" => x.version = nextVersion - 1
  /\ x.at \in Saving => \A p \in Pair : Held(p) => Below(p, x.version)
  /\ x.at = "scanning" => Below(<<disk.catalog, disk.conclusions>>, x.version)
  /\ x.at = "half" => disk.catalog < x.version /\ disk.conclusions = x.version
  /\ x.at \in Saved \cup {"saved"} =>
       disk.catalog \in {0, x.version} /\ disk.conclusions = x.version
  /\ x.at \in Saved => x.content = <<x.version, x.version>>
  /\ x.at \in {"waiting", "publishing", "stamping"} => x.saved \in {None, x.content}
  /\ x.at = "stamping" => published = x.content

\* A holder of the store lock writes a version that nobody has read.
VersionsInv ==
  /\ disk.catalog < nextVersion /\ disk.conclusions < nextVersion
  /\ \A p \in Pair : Held(p) => Seen(p) /\ Below(p, nextVersion)
  /\ \A w \in Writer :
       /\ Active(w) =>
            /\ writer[w].version = nextVersion - 1
            /\ \A p \in Pair : Held(p) => Below(p, writer[w].version)
       /\ writer[w].at = "writing" => Below(<<disk.catalog, disk.conclusions>>,
                                            writer[w].version)
       /\ writer[w].at = "half" => disk.catalog < writer[w].version
                                   /\ disk.conclusions = writer[w].version
       /\ writer[w].at = "saved" => disk.catalog \in {0, writer[w].version}
                                    /\ disk.conclusions = writer[w].version
       /\ writer[w].at = "exited" => /\ writer[w].version < nextVersion
                                     /\ disk.catalog # 0 => disk.catalog >= writer[w].version
  /\ \A s \in ScanWorker : ScanSound(scan[s])

\* What is published, and what a refresh is about to publish, is not older than
\* what a refresher or the server takes for loaded, or it is no catalog.
OrderInv ==
  /\ published # None =>
       AtMost(loadedStamp, published) /\ \A r \in Refresher : AtMost(refresh[r].known, published)
  /\ published = None => Gone(loadedStamp)
  /\ \A r \in Refresher :
       /\ refresh[r].at = "loading" => disk.catalog = 0 \/ refresh[r].stamp = Stamp
       /\ refresh[r].at = "stamping" => published = refresh[r].content
       /\ InFlight(r) /\ refresh[r].content # None =>
            /\ refresh[r].stamp = refresh[r].content
            /\ AtMost(loadedStamp, refresh[r].content)
            /\ AtMost(published, refresh[r].content)
            /\ \A q \in Refresher : AtMost(refresh[q].known, refresh[r].content)
       /\ InFlight(r) /\ refresh[r].content = None =>
            Gone(refresh[r].stamp) /\ Gone(loadedStamp)
  /\ \A j \in Job : InFlight(j) /\ refresh[j].content # None =>
       refresh[j].content[1] >= writer[j].version

IInv == TypeOK /\ LocksInv /\ VersionsInv /\ OrderInv
-----------------------------------------------------------------------------
LEMMA Pairs ==
  /\ None \in Pair /\ 0 \in Version /\ Version \subseteq Nat
  /\ \A p \in Pair : p[1] \in Version /\ p[2] \in Version /\ p = <<p[1], p[2]>>
  /\ disk \in [catalog : Version, conclusions : Version, ok : BOOLEAN] => Stamp \in Pair
  BY CatalogReloadAssumption DEF None, Pair, Version, Stamp

LEMMA Parts ==
  /\ Job \subseteq Writer /\ Job \subseteq Refresher /\ Watcher \in Refresher
  /\ Watcher \notin Writer /\ Watcher \notin ScanWorker /\ Watcher # Free
  /\ \A w \in Writer : w \notin ScanWorker /\ w # Free
  /\ \A r \in Refresher : r \notin ScanWorker /\ r # Free /\ (r = Watcher \/ r \in Job)
  /\ \A s \in ScanWorker : s \notin Writer /\ s \notin Refresher /\ s # Free
  BY CatalogReloadAssumption DEF Writer, Refresher

LEMMA Started ==
  Init => IInv
<1> SUFFICES ASSUME Init PROVE IInv
  OBVIOUS
<1>1. 1 \in Version /\ <<1, 1>> \in Pair /\ 2 \in 1..(MaxVersion + 1)
  BY CatalogReloadAssumption DEF Version, Pair
<1>2. \A at \in {"gate", "waiting"} :
        NewCall(at) \in Call /\ [NewCall(at) EXCEPT !.known = <<1, 1>>] \in Call
  BY <1>1, Pairs DEF NewCall, Call
<1>3. TypeOK
  <2>1. refresh \in [Refresher -> Call]
    BY <1>2 DEF Init
  <2>2. writer \in [Writer -> [at : {"none", "writing", "half", "saved", "exited"},
                              version : Version]]
    BY Pairs DEF Init, NotWriting
  <2>3. NotScanning \in [at : {"idle", "scanning", "half", "saved", "loaded",
                                    "waiting", "publishing", "stamping"},
                              waiter : BOOLEAN, version : Version,
                              content : Pair, saved : Pair]
    BY Pairs DEF NotScanning
  <2>4. disk \in [catalog : Version, conclusions : Version, ok : BOOLEAN]
    BY <1>1 DEF Init
  <2>5. 0 \in 0..MaxRemovals /\ 0 \in 0..MaxLockErrors
    BY CatalogReloadAssumption
  <2> QED
    BY <1>1, <2>1, <2>2, <2>3, <2>4, <2>5 DEF Init, TypeOK
<1>4. LocksInv
  BY Parts DEF Init, LocksInv, Active, NotWriting, NotScanning, NewCall, Gated
<1>5. \A p \in Pair : Held(p) => p \in {<<1, 1>>, None}
  BY DEF Init, Held, NewCall
<1>6. VersionsInv
  BY <1>5 DEF Init, VersionsInv, Active, NotWriting, NotScanning, None, Seen, Below, ScanSound, Saved,
              Saving
<1>7. OrderInv
  BY Parts DEF Init, OrderInv, AtMost, InFlight, NewCall, None
<1> QED
  BY <1>3, <1>4, <1>6, <1>7 DEF IInv
-----------------------------------------------------------------------------
(***************************************************************************)
(* Types.                                                                  *)
(***************************************************************************)
RefreshAction ==
  \E r \in Refresher : EnterGate(r) \/ RefreshStep(r) \/ LockFails(r)

LEMMA ReturnTyped ==
  ASSUME TypeOK, NEW r \in Refresher, NEW call \in Call,
         NEW result \in {"current", "busy", "failed"}, Return(r, call, result)
  PROVE  refresh' \in [Refresher -> Call]
<1>1. [call EXCEPT !.at = IF r = Watcher THEN "gate" ELSE "ended", !.result = result,
                   !.stamp = None, !.content = None] \in Call
  BY Pairs DEF Call
<1> QED
  BY <1>1 DEF Return, TypeOK

LEMMA RefreshTyped ==
  ASSUME TypeOK, NEW r \in Refresher,
         EnterGate(r) \/ CompareLoaded(r) \/ TryLock(r) \/ Load(r) \/ Publish(r)
         \/ RecordStamp(r) \/ ReportFailure(r) \/ LockFails(r)
  PROVE  TypeOK'
<1> DEFINE call == refresh[r]
<1>1. call \in Call /\ Stamp \in Pair /\ loadedStamp \in Pair /\ published \in Pair
  BY Pairs DEF TypeOK
<1>2. CASE EnterGate(r)
  <2>1. refresh' \in [Refresher -> Call]
    <3>1. CASE Stamp = call.known
      BY <1>1, <1>2, <3>1, ReturnTyped DEF EnterGate
    <3>2. CASE Stamp # call.known
      BY <1>1, <1>2, <3>2 DEF EnterGate, TypeOK, Call
    <3> QED
      BY <3>1, <3>2
  <2>2. gate' \in {Free} \cup ScanWorker \cup Refresher
    BY <1>2 DEF EnterGate, Return
  <2> QED
    BY <1>2, <2>1, <2>2 DEF EnterGate, TypeOK, diskVars
<1>3. CASE CompareLoaded(r)
  <2>1. refresh' \in [Refresher -> Call]
    <3>1. CASE Stamp = loadedStamp
      <4>1. [call EXCEPT !.known = loadedStamp] \in Call
        BY <1>1 DEF Call
      <4> QED
        BY <1>3, <3>1, <4>1, ReturnTyped DEF CompareLoaded
    <3>2. CASE Stamp # loadedStamp
      BY <1>1, <1>3, <3>2 DEF CompareLoaded, TypeOK, Call
    <3> QED
      BY <3>1, <3>2
  <2>2. gate' \in {Free} \cup ScanWorker \cup Refresher
    BY <1>3 DEF CompareLoaded, Return, TypeOK
  <2> QED
    BY <1>3, <2>1, <2>2 DEF CompareLoaded, TypeOK, diskVars
<1>4. CASE TryLock(r)
  <2>1. refresh' \in [Refresher -> Call]
    <3>1. CASE Return(r, call, "busy") \/ Return(r, call, "current")
      BY <1>1, <3>1, ReturnTyped
    <3>2. CASE refresh' = [refresh EXCEPT ![r].at = "loading", ![r].stamp = Stamp]
      BY <1>1, <3>2 DEF TypeOK, Call
    <3> QED
      BY <1>4, <3>1, <3>2 DEF TryLock
  <2>2. gate' \in {Free} \cup ScanWorker \cup Refresher
        /\ lock' \in {Free} \cup Writer \cup ScanWorker \cup Refresher
    BY <1>4 DEF TryLock, Return, TypeOK
  <2> QED
    BY <1>4, <2>1, <2>2 DEF TryLock, TypeOK
<1>5. CASE LockFails(r)
  <2>1. refresh' \in [Refresher -> Call]
    BY <1>1, <1>5, Pairs DEF LockFails, TypeOK, Call
  <2> QED
    BY <1>5, <2>1, CatalogReloadAssumption DEF LockFails, Unlock, TypeOK
<1>6. CASE Load(r)
  <2>1. refresh' \in [Refresher -> Call]
    <3>1. CASE Readable
      BY <1>1, <1>6, <3>1 DEF Load, TypeOK, Call
    <3>2. CASE ~Readable
      BY <1>1, <1>6, <3>2, Pairs DEF Load, TypeOK, Call
    <3> QED
      BY <3>1, <3>2
  <2> QED
    BY <1>6, <2>1 DEF Load, Unlock, TypeOK
<1>7. CASE Publish(r)
  <2>1. refresh' \in [Refresher -> Call] /\ published' \in Pair
    BY <1>1, <1>7 DEF Publish, TypeOK, Call
  <2> QED
    BY <1>7, <2>1 DEF Publish, TypeOK, diskVars
<1>8. CASE RecordStamp(r)
  <2>1. [call EXCEPT !.known = StampOfLoaded(r), !.reported = Nothing] \in Call
    BY <1>1 DEF Call, StampOfLoaded
  <2>2. refresh' \in [Refresher -> Call]
    BY <1>8, <2>1, ReturnTyped DEF RecordStamp
  <2>3. loadedStamp' \in Pair /\ announced' \in Pair /\ gate' = Free
    BY <1>1, <1>8 DEF RecordStamp, StampOfLoaded, Return, Call
  <2> QED
    BY <1>8, <2>2, <2>3 DEF RecordStamp, TypeOK, diskVars
<1>9. CASE ReportFailure(r)
  <2>1. [call EXCEPT !.reported = ReportedAs(r)] \in Call
    BY <1>1 DEF Call, ReportedAs
  <2>2. refresh' \in [Refresher -> Call] /\ gate' = Free
    BY <1>9, <2>1, ReturnTyped DEF ReportFailure, Return
  <2> QED
    BY <1>9, <2>2 DEF ReportFailure, TypeOK, diskVars
<1> QED
  BY <1>2, <1>3, <1>4, <1>5, <1>6, <1>7, <1>8, <1>9

ScanState ==
  [at : {"idle", "scanning", "half", "saved", "loaded", "waiting", "publishing", "stamping"},
   waiter : BOOLEAN, version : Version, content : Pair, saved : Pair]

LEMMA ScanTyped ==
  ASSUME TypeOK, NEW s \in ScanWorker,
         BeginScan(s) \/ ScanStep(s) \/ ScanEntersGate(s) \/ AbandonScan(s)
  PROVE  TypeOK'
<1>1. scan \in [ScanWorker -> ScanState] /\ NotScanning \in ScanState
  BY Pairs DEF TypeOK, ScanState, NotScanning
<1>2. Stamp \in Pair
  BY Pairs DEF TypeOK
<1>3. CASE BeginScan(s)
  <2>1. nextVersion \in Version /\ nextVersion + 1 \in 1..(MaxVersion + 1)
    BY <1>3, CatalogReloadAssumption DEF BeginScan, TypeOK, Version
  <2>2. scan' \in [ScanWorker -> ScanState]
    BY <1>1, <1>3, <2>1 DEF BeginScan, ScanState
  <2> QED
    BY <1>3, <2>1, <2>2 DEF BeginScan, TypeOK, ScanState
<1>4. CASE ScanSavesConclusions(s) \/ ScanSavesCatalog(s)
  <2>1. scan' \in [ScanWorker -> ScanState]
    BY <1>1, <1>4 DEF ScanSavesConclusions, ScanSavesCatalog, ScanState
  <2>2. disk' \in [catalog : Version, conclusions : Version, ok : BOOLEAN]
    BY <1>1, <1>4 DEF ScanSavesConclusions, ScanSavesCatalog, ScanState, TypeOK
  <2> QED
    BY <1>4, <2>1, <2>2 DEF ScanSavesConclusions, ScanSavesCatalog, TypeOK, ScanState
<1>5. CASE FailScan(s)
  <2>1. scan' \in [ScanWorker -> ScanState]
    BY <1>1, <1>5 DEF FailScan, EndScan
  <2> QED
    BY <1>5, <2>1 DEF FailScan, EndScan, Unlock, TypeOK, ScanState
<1>6. CASE ScanLoads(s)
  <2>1. scan' \in [ScanWorker -> ScanState]
    BY <1>1, <1>2, <1>6 DEF ScanLoads, ScanState
  <2> QED
    BY <1>6, <2>1 DEF ScanLoads, TypeOK, ScanState
<1>7. CASE ReturnScan(s)
  <2>1. scan' \in [ScanWorker -> ScanState]
    <3>1. CASE scan[s].waiter
      <4>1. scan' = [scan EXCEPT ![s].at = "waiting", ![s].saved = Stamp]
        BY <1>7, <3>1 DEF ReturnScan
      <4>2. PICK stamp \in Pair : stamp = Stamp
        BY <1>2
      <4> QED
        BY <1>1, <4>1, <4>2 DEF ScanState
    <3>2. CASE ~scan[s].waiter
      BY <1>1, <1>7, <3>2 DEF ReturnScan, EndScan
    <3> QED
      BY <3>1, <3>2
  <2> QED
    BY <1>7, <2>1 DEF ReturnScan, EndScan, Unlock, TypeOK, ScanState
<1>8. CASE ScanPublishes(s)
  <2>1. scan' \in [ScanWorker -> ScanState] /\ published' \in Pair
    BY <1>1, <1>8 DEF ScanPublishes, ScanState
  <2> QED
    BY <1>8, <2>1 DEF ScanPublishes, TypeOK, ScanState
<1>9. CASE ScanRecordsStamp(s)
  <2>1. scan' \in [ScanWorker -> ScanState] /\ loadedStamp' \in Pair /\ announced' \in Pair
    BY <1>1, <1>9 DEF ScanRecordsStamp, EndScan, ScanState
  <2> QED
    BY <1>9, <2>1 DEF ScanRecordsStamp, EndScan, Unlock, OpenGate, TypeOK, ScanState
<1>10. CASE ScanEntersGate(s)
  <2>1. scan' \in [ScanWorker -> ScanState]
    BY <1>1, <1>10 DEF ScanEntersGate, ScanState
  <2> QED
    BY <1>10, <2>1 DEF ScanEntersGate, TypeOK, ScanState
<1>11. CASE AbandonScan(s)
  <2>1. scan' \in [ScanWorker -> ScanState]
    <3>1. CASE scan[s].at \in {"waiting", "publishing", "stamping"}
      BY <1>1, <1>11, <3>1 DEF AbandonScan, EndScan
    <3>2. CASE scan[s].at \notin {"waiting", "publishing", "stamping"}
      <4>1. scan' = [scan EXCEPT ![s].waiter = FALSE]
        BY <1>11, <3>2 DEF AbandonScan
      <4> QED
        BY <1>1, <4>1 DEF ScanState
    <3> QED
      BY <3>1, <3>2
  <2> QED
    BY <1>11, <2>1 DEF AbandonScan, EndScan, Unlock, OpenGate, TypeOK, ScanState
<1> QED
  BY <1>3, <1>4, <1>5, <1>6, <1>7, <1>8, <1>9, <1>10, <1>11 DEF ScanStep

LEMMA WriterTyped ==
  ASSUME TypeOK, NEW w \in Writer, BeginWrite(w) \/ WriterStep(w)
  PROVE  TypeOK'
<1> DEFINE WriterState == [at : {"none", "writing", "half", "saved", "exited"},
                           version : Version]
<1> USE DEF serverVars
<1>1. CASE BeginWrite(w)
  <2>1. nextVersion \in Version /\ nextVersion + 1 \in 1..(MaxVersion + 1)
    BY <1>1, CatalogReloadAssumption DEF BeginWrite, TypeOK, Version
  <2>2. writer' \in [Writer -> WriterState]
    BY <1>1, <2>1 DEF BeginWrite, TypeOK
  <2> QED
    BY <1>1, <2>1, <2>2 DEF BeginWrite, TypeOK
<1>2. CASE RenameConclusions(w) \/ RenameCatalog(w)
  <2>1. disk' \in [catalog : Version, conclusions : Version, ok : BOOLEAN]
    BY <1>2 DEF RenameConclusions, RenameCatalog, TypeOK
  <2>2. writer' \in [Writer -> WriterState]
    <3>1. \E at \in {"half", "saved"} : writer' = [writer EXCEPT ![w].at = at]
      BY <1>2 DEF RenameConclusions, RenameCatalog
    <3> QED
      BY <3>1 DEF TypeOK
  <2> QED
    BY <1>2, <2>1, <2>2 DEF RenameConclusions, RenameCatalog, TypeOK
<1>3. CASE EndWrite(w)
  <2>1. writer' \in [Writer -> WriterState]
    BY <1>3, Pairs DEF EndWrite, TypeOK
  <2> QED
    BY <1>3, <2>1 DEF EndWrite, TypeOK
<1> QED
  BY <1>1, <1>2, <1>3 DEF WriterStep

LEMMA OthersTyped ==
  ASSUME TypeOK,
         RemoveCatalog \/ (\E j \in Job : StartRefresh(j)) \/ StopWatcher \/ OrphanLocks
         \/ OrphanEnds
  PROVE  TypeOK'
<1>1. CASE RemoveCatalog
  <2>1. disk' \in [catalog : Version, conclusions : Version, ok : BOOLEAN]
    BY <1>1, Pairs DEF RemoveCatalog, TypeOK
  <2> QED
    BY <1>1, <2>1, CatalogReloadAssumption DEF RemoveCatalog, TypeOK, serverVars
<1>2. ASSUME NEW j \in Job, StartRefresh(j)
      PROVE  TypeOK'
  <2>1. refresh' \in [Refresher -> Call]
    <3> DEFINE call == [refresh[j] EXCEPT !.at = "gate", !.known = loadedStamp]
    <3>1. refresh \in [Refresher -> Call] /\ loadedStamp \in Pair /\ refresh[j] \in Call
      BY Parts DEF TypeOK
    <3>2. call \in Call
      BY <3>1 DEF Call
    <3>3. refresh' = [refresh EXCEPT ![j] = call]
      BY <1>2, <3>1, Parts DEF StartRefresh, KnownAtStart
    <3> HIDE DEF call
    <3> QED
      BY <3>1, <3>2, <3>3
  <2> QED
    BY <1>2, <2>1 DEF StartRefresh, TypeOK, diskVars
<1>3. CASE StopWatcher
  <2>1. refresh' \in [Refresher -> Call]
    <3>1. PICK at \in {"leaving", "orphan", "ended"} :
            refresh' = [refresh EXCEPT ![Watcher].at = at]
      BY <1>3 DEF StopWatcher
    <3>3. refresh[Watcher] \in Call
      BY Parts DEF TypeOK
    <3>2. [refresh[Watcher] EXCEPT !.at = at] \in Call
      BY <3>3 DEF Call
    <3> QED
      BY <3>1, <3>2, Parts DEF TypeOK
  <2> QED
    BY <1>3, <2>1 DEF StopWatcher, TypeOK, diskVars
<1>4. CASE OrphanLocks \/ OrphanEnds
  <2>1. refresh' \in [Refresher -> Call]
    <3>1. PICK at \in {"orphan", "ended"} :
            refresh' = [refresh EXCEPT ![Watcher].at = at]
      BY <1>4 DEF OrphanLocks, OrphanEnds
    <3>3. refresh[Watcher] \in Call
      BY Parts DEF TypeOK
    <3>2. [refresh[Watcher] EXCEPT !.at = at] \in Call
      BY <3>3 DEF Call
    <3> QED
      BY <3>1, <3>2, Parts DEF TypeOK
  <2>2. lock' \in {Free} \cup Writer \cup ScanWorker \cup Refresher
    BY <1>4, Parts DEF OrphanLocks, OrphanEnds, Unlock, TypeOK
  <2> QED
    BY <1>4, <2>1, <2>2 DEF OrphanLocks, OrphanEnds, TypeOK
<1> QED
  BY <1>1, <1>2, <1>3, <1>4
-----------------------------------------------------------------------------
(***************************************************************************)
(* The locks.                                                              *)
(***************************************************************************)
LEMMA CallLocks ==
  ASSUME TypeOK, LocksInv, NEW r \in Refresher, NEW call \in Call,
         refresh' = [refresh EXCEPT ![r] = call], UNCHANGED <<writer, scan>>,
         \/ lock' = lock /\ (call.at \in {"loading", "orphan"}
                               => refresh[r].at \in {"loading", "orphan"})
         \/ lock = Free /\ lock' = r /\ call.at \in {"loading", "orphan"}
         \/ /\ Unlock(r) /\ call.at \notin {"loading", "orphan"}
            /\ r \in Job => refresh[r].at # "waiting",
         \/ gate' = gate /\ (call.at \in Gated => refresh[r].at \in Gated)
         \/ gate = Free /\ gate' = r
         \/ gate' = (IF gate = r THEN Free ELSE gate) /\ call.at \notin Gated,
         r \in Job => /\ call.at \notin {"leaving", "orphan"}
                      /\ call.at # "waiting" =>
                           refresh[r].at # "waiting" \/ writer[r].at = "exited"
  PROVE  LocksInv'
<1>1. refresh'[r] = call /\ \A q \in Refresher : q # r => refresh'[q] = refresh[q]
  BY DEF TypeOK
<1>2. /\ \A w \in Writer : Active(w)' => lock' = w
      /\ \A q \in Refresher : refresh'[q].at \in {"loading", "orphan"} => lock' = q
      /\ \A s \in ScanWorker : scan'[s].at # "idle" => lock' = s
  <2>1. CASE lock' = lock /\ (call.at \in {"loading", "orphan"}
                               => refresh[r].at \in {"loading", "orphan"})
    BY <1>1, <2>1 DEF LocksInv, Active
  <2>2. CASE lock = Free /\ lock' = r /\ call.at \in {"loading", "orphan"}
    BY <1>1, <2>2, Parts DEF LocksInv, Active
  <2>3. CASE /\ Unlock(r) /\ call.at \notin {"loading", "orphan"}
             /\ r \in Job => refresh[r].at # "waiting"
    <3>1. \A w \in Writer : Active(w) => w # r
      BY <2>3, Parts DEF LocksInv, Active
    <3> QED
      BY <1>1, <2>3, <3>1, Parts DEF LocksInv, Active, Unlock
  <2> QED
    BY <2>1, <2>2, <2>3
<1>3. /\ \A q \in Refresher : refresh'[q].at \in Gated => gate' = q
      /\ \A s \in ScanWorker : scan'[s].at \in {"publishing", "stamping"} => gate' = s
  <2>1. CASE gate' = gate /\ (call.at \in Gated => refresh[r].at \in Gated)
    BY <1>1, <2>1 DEF LocksInv
  <2>2. CASE gate = Free /\ gate' = r
    BY <1>1, <2>2, Parts DEF LocksInv
  <2>3. CASE gate' = (IF gate = r THEN Free ELSE gate) /\ call.at \notin Gated
    BY <1>1, <2>3, Parts DEF LocksInv
  <2> QED
    BY <2>1, <2>2, <2>3
<1>4. /\ \A j \in Job : refresh'[j].at # "waiting" => writer'[j].at = "exited"
      /\ \A j \in Job : refresh'[j].at \notin {"leaving", "orphan"}
  BY <1>1, Parts DEF LocksInv
<1> QED
  BY <1>2, <1>3, <1>4 DEF LocksInv

LEMMA ScanLocks ==
  ASSUME TypeOK, LocksInv, NEW s \in ScanWorker, NEW new \in ScanState,
         scan' = [scan EXCEPT ![s] = new], UNCHANGED <<writer, refresh>>,
         \/ lock' = lock /\ scan[s].at # "idle"
         \/ lock = Free /\ lock' = s
         \/ Unlock(s) /\ new.at = "idle",
         \/ gate' = gate /\ (new.at \in {"publishing", "stamping"}
                               => scan[s].at \in {"publishing", "stamping"})
         \/ gate = Free /\ gate' = s
         \/ OpenGate(s) /\ new.at \notin {"publishing", "stamping"}
  PROVE  LocksInv'
<1>1. scan'[s] = new /\ \A t \in ScanWorker : t # s => scan'[t] = scan[t]
  BY DEF TypeOK
<1>2. /\ \A w \in Writer : Active(w)' => lock' = w
      /\ \A q \in Refresher : refresh'[q].at \in {"loading", "orphan"} => lock' = q
      /\ \A t \in ScanWorker : scan'[t].at # "idle" => lock' = t
  <2>1. CASE lock' = lock /\ scan[s].at # "idle"
    BY <1>1, <2>1 DEF LocksInv, Active
  <2>2. CASE lock = Free /\ lock' = s
    BY <1>1, <2>2, Parts DEF LocksInv, Active
  <2>3. CASE Unlock(s) /\ new.at = "idle"
    BY <1>1, <2>3, Parts DEF LocksInv, Active, Unlock
  <2> QED
    BY <2>1, <2>2, <2>3
<1>3. /\ \A q \in Refresher : refresh'[q].at \in Gated => gate' = q
      /\ \A t \in ScanWorker : scan'[t].at \in {"publishing", "stamping"} => gate' = t
  <2>1. CASE gate' = gate /\ (new.at \in {"publishing", "stamping"}
                               => scan[s].at \in {"publishing", "stamping"})
    BY <1>1, <2>1 DEF LocksInv
  <2>2. CASE gate = Free /\ gate' = s
    BY <1>1, <2>2, Parts DEF LocksInv
  <2>3. CASE OpenGate(s) /\ new.at \notin {"publishing", "stamping"}
    BY <1>1, <2>3, Parts DEF LocksInv, OpenGate
  <2> QED
    BY <2>1, <2>2, <2>3
<1> QED
  BY <1>2, <1>3 DEF LocksInv
-----------------------------------------------------------------------------
(***************************************************************************)
(* What the server holds.                                                  *)
(***************************************************************************)
Unused == (\A w \in Writer : ~Active(w)) /\ \A s \in ScanWorker : scan[s].at = "idle"

LEMMA LockedAlone ==
  ASSUME LocksInv, NEW r \in Refresher,
         lock = Free \/ (lock = r /\ refresh[r].at = "loading")
  PROVE  Unused
<1>1. ASSUME NEW w \in Writer, Active(w) PROVE FALSE
  <2>1. lock = w /\ w # Free
    BY <1>1, Parts DEF LocksInv
  <2>2. w = r /\ refresh[r].at = "loading"
    BY <2>1
  <2>3. w \in Job
    BY <2>2, Parts
  <2> QED
    BY <1>1, <2>2, <2>3 DEF LocksInv, Active
<1>2. \A s \in ScanWorker : scan[s].at = "idle"
  BY Parts DEF LocksInv
<1> QED
  BY <1>1, <1>2 DEF Unused

\* The documents stay, and the server holds what it held, or what it reads while
\* nobody writes.
LEMMA HeldKeeps ==
  ASSUME TypeOK, VersionsInv, UNCHANGED <<disk, nextVersion, writer, scan>>,
         \A p \in Pair : Held(p)' => Held(p) \/ p = None \/ (p = Stamp /\ Unused),
         \A s \in ScanWorker : scan[s].at = "stamping" => published' = published
  PROVE  VersionsInv'
<1>1. published \in Pair /\ Held(published) /\ nextVersion \in Nat /\ nextVersion > 0
  BY CatalogReloadAssumption DEF TypeOK, Held
<1>2. /\ \A w \in Writer : writer[w].version \in Nat
      /\ \A s \in ScanWorker : scan[s].version \in Nat
  BY Pairs DEF TypeOK
<1>3. /\ \A w \in Writer : Active(w) => Below(None, writer[w].version)
      /\ \A s \in ScanWorker : scan[s].at \in Saving => Below(None, scan[s].version)
      /\ Below(None, nextVersion) /\ Seen(None)
  BY <1>1, <1>2, Pairs DEF VersionsInv, ScanSound, Below, None, Seen, TypeOK
<1>4. Below(Stamp, nextVersion) /\ Seen(Stamp)
  <2>1. CASE disk.catalog = 0
    BY <1>3, <2>1 DEF Stamp
  <2>2. CASE disk.catalog # 0
    <3>1. Stamp = <<disk.catalog, disk.conclusions>>
      BY <2>2 DEF Stamp
    <3>2. disk.catalog \in Nat /\ disk.conclusions \in Nat
      BY Pairs DEF TypeOK
    <3> QED
      BY <3>1, <3>2 DEF VersionsInv, Below, Seen
  <2> QED
    BY <2>1, <2>2
<1>5. \A p \in Pair : Held(p)' => Seen(p) /\ Below(p, nextVersion)
  BY <1>3, <1>4 DEF VersionsInv
<1>6. \A w \in Writer : Active(w) =>
        \A p \in Pair : Held(p)' => Below(p, writer[w].version)
  BY <1>3 DEF VersionsInv, Unused
<1>7. \A s \in ScanWorker : scan[s].at \in Saving =>
        \A p \in Pair : Held(p)' => Below(p, scan[s].version)
  BY <1>3 DEF VersionsInv, ScanSound, Unused, Saving
<1>8. \A p \in Pair : Seen(p)' <=> Seen(p)
  BY DEF Seen
<1> QED
  BY <1>5, <1>6, <1>7, <1>8 DEF VersionsInv, ScanSound, Active

\* A step of a refresh that reads nothing and publishes nothing.
Quiet(r, call) ==
  /\ refresh' = [refresh EXCEPT ![r] = call]
  /\ UNCHANGED <<disk, nextVersion, writer, scan, published, loadedStamp>>
  /\ call.known \in {refresh[r].known, loadedStamp}
  /\ call.stamp \in {refresh[r].stamp, None}
  /\ call.content \in {refresh[r].content, None}
  /\ call.at \notin {"loading", "publishing", "stamping"}

LEMMA QuietKeeps ==
  ASSUME TypeOK, VersionsInv, OrderInv, NEW r \in Refresher, NEW call \in Call, Quiet(r, call)
  PROVE  VersionsInv' /\ OrderInv'
<1> USE DEF Quiet
<1>1. refresh'[r] = call /\ \A q \in Refresher : q # r => refresh'[q] = refresh[q]
  BY DEF TypeOK
<1>2. \A p \in Pair : Held(p)' => Held(p) \/ p = None
  BY <1>1 DEF Held
<1>3. VersionsInv'
  BY <1>2, HeldKeeps
<1>4. /\ Stamp' = Stamp
      /\ \A p \in Pair : Gone(p)' <=> Gone(p)
  BY DEF Stamp, Gone
<1>5. \A q \in Refresher :
        refresh'[q].at \in {"loading", "publishing", "stamping"} =>
          q # r /\ refresh'[q] = refresh[q]
  BY <1>1
<1>6. \A q \in Refresher : refresh'[q].known \in {refresh[q].known, loadedStamp}
  BY <1>1
<1>7. OrderInv'
  BY <1>4, <1>5, <1>6, Parts DEF OrderInv, InFlight, TypeOK, Call
<1> QED
  BY <1>3, <1>7

LEMMA TakeKeeps ==
  ASSUME TypeOK, LocksInv, VersionsInv, OrderInv, NEW r \in Refresher, lock = Free,
         refresh' = [refresh EXCEPT ![r].at = "loading", ![r].stamp = Stamp],
         UNCHANGED <<disk, nextVersion, writer, scan, published, loadedStamp>>
  PROVE  VersionsInv' /\ OrderInv'
<1>1. /\ refresh'[r].at = "loading" /\ refresh'[r].stamp = Stamp
      /\ refresh'[r].known = refresh[r].known /\ refresh'[r].content = refresh[r].content
      /\ \A q \in Refresher : q # r => refresh'[q] = refresh[q]
  BY DEF TypeOK, Call
<1>2. \A p \in Pair : Held(p)' => Held(p) \/ p = Stamp
  BY <1>1, ZenonT(60) DEF Held
<1>3. VersionsInv'
  BY <1>2, LockedAlone, HeldKeeps
<1>4. /\ Stamp' = Stamp
      /\ \A p \in Pair : Gone(p)' <=> Gone(p)
  BY DEF Stamp, Gone
<1>5. \A q \in Refresher : refresh'[q].known = refresh[q].known
  BY <1>1
<1>6. \A q \in Refresher :
        refresh'[q].at \in {"publishing", "stamping"} => refresh'[q] = refresh[q]
  BY <1>1
<1>7. \A q \in Refresher : refresh'[q].at = "loading" =>
        disk.catalog = 0 \/ refresh'[q].stamp = Stamp
  BY <1>1 DEF OrderInv
<1>8. OrderInv'
  BY <1>4, <1>5, <1>6, <1>7, Parts DEF OrderInv, InFlight, TypeOK, Call
<1> QED
  BY <1>3, <1>8

LEMMA LoadKeeps ==
  ASSUME TypeOK, LocksInv, VersionsInv, OrderInv, NEW r \in Refresher,
         refresh[r].at = "loading",
         refresh' = [refresh EXCEPT ![r].at = "publishing", ![r].content = Stamp],
         UNCHANGED <<disk, nextVersion, writer, scan, published, loadedStamp>>
  PROVE  VersionsInv' /\ OrderInv'
<1>1. /\ refresh'[r].at = "publishing" /\ refresh'[r].content = Stamp
      /\ refresh'[r].known = refresh[r].known /\ refresh'[r].stamp = refresh[r].stamp
      /\ \A q \in Refresher : q # r => refresh'[q] = refresh[q]
  BY DEF TypeOK, Call
<1>2. \A p \in Pair : Held(p)' => Held(p) \/ p = Stamp
  <2>1. ASSUME NEW q \in Refresher,
               NEW p \in {refresh'[q].known, refresh'[q].stamp, refresh'[q].content}
        PROVE  Held(p) \/ p = Stamp
    <3>1. CASE q = r
      <4>1. p \in {refresh[r].known, refresh[r].stamp, Stamp}
        BY <1>1, <3>1
      <4> QED
        BY <4>1 DEF Held
    <3>2. CASE q # r
      <4>1. p \in {refresh[q].known, refresh[q].stamp, refresh[q].content}
        BY <1>1, <3>2
      <4> QED
        BY <4>1 DEF Held
    <3> QED
      BY <3>1, <3>2
  <2> QED
    BY <2>1 DEF Held
<1>3. lock = r
  BY DEF LocksInv
<1>4. VersionsInv'
  BY <1>2, <1>3, LockedAlone, HeldKeeps
<1>5. /\ Stamp' = Stamp
      /\ \A p \in Pair : Gone(p)' <=> Gone(p)
  BY DEF Stamp, Gone
<1>6. \A q \in Refresher : refresh'[q].known = refresh[q].known
  BY <1>1
<1>7. ASSUME NEW p \in Pair, Held(p), Stamp # None
      PROVE  AtMost(p, Stamp)
  <2>1. Stamp = <<disk.catalog, disk.conclusions>> /\ disk.catalog # 0
    BY <1>7 DEF Stamp
  <2> QED
    BY <1>7, <2>1 DEF VersionsInv, Seen, AtMost
<1>8. /\ published \in Pair /\ loadedStamp \in Pair /\ Held(published) /\ Held(loadedStamp)
      /\ \A q \in Refresher :
           refresh[q].known \in Pair /\ refresh[q].stamp \in Pair /\ Held(refresh[q].known)
  BY DEF TypeOK, Call, Held
<1>9. Stamp # None =>
        /\ refresh[r].stamp = Stamp
        /\ AtMost(loadedStamp, Stamp) /\ AtMost(published, Stamp)
        /\ \A q \in Refresher : AtMost(refresh[q].known, Stamp)
  <2>1. Stamp # None => refresh[r].stamp = Stamp
    BY DEF OrderInv, Stamp
  <2> QED
    BY <1>7, <1>8, <2>1
<1>10. Stamp = None => Gone(refresh[r].stamp) /\ Gone(loadedStamp)
  <2>1. Stamp = None => disk.catalog = 0
    BY DEF Stamp, None
  <2> QED
    BY <2>1 DEF Gone
<1>11. r \in Job /\ Stamp # None => Stamp[1] >= writer[r].version
  <2>1. Stamp # None => Stamp[1] = disk.catalog /\ disk.catalog # 0
    BY DEF Stamp
  <2>2. r \in Job => writer[r].at = "exited" /\ r \in Writer
    BY Parts DEF LocksInv
  <2> QED
    BY <2>1, <2>2 DEF VersionsInv
<1>12. \A q \in Refresher : q # r =>
         /\ refresh'[q].at = refresh[q].at /\ refresh'[q].content = refresh[q].content
         /\ refresh'[q].stamp = refresh[q].stamp
  BY <1>1
<1>13. OrderInv'
  <2>1. (published # None =>
           AtMost(loadedStamp, published)
           /\ \A q \in Refresher : AtMost(refresh[q].known, published))'
        /\ (published = None => Gone(loadedStamp))'
    BY <1>5, <1>6 DEF OrderInv, TypeOK
  <2>2. ASSUME NEW q \in Refresher
        PROVE  (/\ refresh[q].at = "loading" => disk.catalog = 0 \/ refresh[q].stamp = Stamp
                /\ refresh[q].at = "stamping" => published = refresh[q].content
                /\ InFlight(q) /\ refresh[q].content # None =>
                     /\ refresh[q].stamp = refresh[q].content
                     /\ AtMost(loadedStamp, refresh[q].content)
                     /\ AtMost(published, refresh[q].content)
                     /\ \A t \in Refresher : AtMost(refresh[t].known, refresh[q].content)
                /\ InFlight(q) /\ refresh[q].content = None =>
                     Gone(refresh[q].stamp) /\ Gone(loadedStamp))'
    <3>1. CASE q = r
      BY <1>1, <1>5, <1>6, <1>8, <1>9, <1>10, <3>1 DEF InFlight
    <3>2. CASE q # r
      BY <1>5, <1>6, <1>8, <1>12, <3>2 DEF InFlight, OrderInv
    <3> QED
      BY <3>1, <3>2
  <2>3. ASSUME NEW j \in Job
        PROVE  (InFlight(j) /\ refresh[j].content # None =>
                  refresh[j].content[1] >= writer[j].version)'
    BY <1>1, <1>11, <1>12, Parts DEF InFlight, OrderInv
  <2> QED
    BY <2>1, <2>2, <2>3 DEF OrderInv
<1> QED
  BY <1>4, <1>13

\* While a refresh or a scan has the gate, no other publication is under way.
LEMMA PublishesAlone ==
  ASSUME LocksInv, NEW h, gate = h, h \in Refresher \cup ScanWorker
  PROVE  /\ \A r \in Refresher : InFlight(r) => r = h
         /\ \A s \in ScanWorker : scan[s].at \in {"publishing", "stamping"} => s = h
  BY DEF LocksInv, InFlight, Gated

LEMMA PublishKeeps ==
  ASSUME TypeOK, LocksInv, VersionsInv, OrderInv, NEW r \in Refresher, Publish(r)
  PROVE  VersionsInv' /\ OrderInv'
<1>1. /\ refresh[r].at = "publishing" /\ refresh'[r].at = "stamping"
      /\ refresh'[r].content = refresh[r].content /\ refresh'[r].stamp = refresh[r].stamp
      /\ refresh'[r].known = refresh[r].known
      /\ \A q \in Refresher : q # r => refresh'[q] = refresh[q]
      /\ published' = refresh[r].content
      /\ UNCHANGED <<disk, nextVersion, writer, scan, loadedStamp>>
  BY DEF Publish, diskVars, TypeOK, Call
<1>2. gate = r
  BY <1>1 DEF LocksInv, Gated
<1>3. /\ \A q \in Refresher : InFlight(q) => q = r
      /\ \A s \in ScanWorker : scan[s].at \notin {"publishing", "stamping"}
  BY <1>2, PublishesAlone, Parts
<1>4. \A p \in Pair : Held(p)' => Held(p)
  BY <1>1 DEF Held
<1>5. VersionsInv'
  BY <1>1, <1>3, <1>4, HeldKeeps
<1>6. /\ Stamp' = Stamp
      /\ \A p \in Pair : Gone(p)' <=> Gone(p)
  BY <1>1 DEF Stamp, Gone
<1>7. \A q \in Refresher : refresh'[q].known = refresh[q].known
  BY <1>1
<1>8. refresh[r] \in Call /\ loadedStamp \in Pair
  BY DEF TypeOK
<1>9. AtMost(refresh[r].content, refresh[r].content)
  BY <1>8, Pairs DEF AtMost, Call
<1>10. OrderInv'
  <2>1. (published # None =>
           AtMost(loadedStamp, published)
           /\ \A q \in Refresher : AtMost(refresh[q].known, published))'
        /\ (published = None => Gone(loadedStamp))'
    BY <1>1, <1>6, <1>7, <1>8 DEF OrderInv, InFlight
  <2>2. ASSUME NEW q \in Refresher
        PROVE  (/\ refresh[q].at = "loading" => disk.catalog = 0 \/ refresh[q].stamp = Stamp
                /\ refresh[q].at = "stamping" => published = refresh[q].content
                /\ InFlight(q) /\ refresh[q].content # None =>
                     /\ refresh[q].stamp = refresh[q].content
                     /\ AtMost(loadedStamp, refresh[q].content)
                     /\ AtMost(published, refresh[q].content)
                     /\ \A t \in Refresher : AtMost(refresh[t].known, refresh[q].content)
                /\ InFlight(q) /\ refresh[q].content = None =>
                     Gone(refresh[q].stamp) /\ Gone(loadedStamp))'
    <3>1. CASE q = r
      BY <1>1, <1>6, <1>7, <1>8, <1>9, <3>1 DEF InFlight, OrderInv, Call
    <3>2. CASE q # r
      BY <1>1, <1>3, <1>6, <3>2 DEF InFlight, OrderInv
    <3> QED
      BY <3>1, <3>2
  <2>3. ASSUME NEW j \in Job
        PROVE  (InFlight(j) /\ refresh[j].content # None =>
                  refresh[j].content[1] >= writer[j].version)'
    BY <1>1, Parts DEF InFlight, OrderInv
  <2> QED
    BY <2>1, <2>2, <2>3 DEF OrderInv
<1> QED
  BY <1>5, <1>10

LEMMA RecordKeeps ==
  ASSUME TypeOK, LocksInv, VersionsInv, OrderInv, NEW r \in Refresher, RecordStamp(r)
  PROVE  VersionsInv' /\ OrderInv'
<1>1. /\ refresh[r].at = "stamping" /\ loadedStamp' = refresh[r].stamp
      /\ UNCHANGED <<disk, nextVersion, writer, scan, published>>
  BY DEF RecordStamp, diskVars, StampOfLoaded
<1>2. /\ refresh'[r].at \in {"gate", "ended"} /\ refresh'[r].known = refresh[r].stamp
      /\ refresh'[r].stamp = None /\ refresh'[r].content = None
      /\ \A q \in Refresher : q # r => refresh'[q] = refresh[q]
  BY DEF RecordStamp, Return, StampOfLoaded, TypeOK, Call
<1>3. gate = r
  BY <1>1 DEF LocksInv, Gated
<1>4. \A q \in Refresher : ~InFlight(q)'
  BY <1>2, <1>3, PublishesAlone, Parts DEF InFlight
<1>5. \A p \in Pair : Held(p)' => Held(p) \/ p = None
  BY <1>1, <1>2 DEF Held
<1>6. VersionsInv'
  BY <1>1, <1>5, HeldKeeps
<1>7. /\ Stamp' = Stamp
      /\ \A p \in Pair : Gone(p)' <=> Gone(p)
  BY <1>1 DEF Stamp, Gone
<1>8. refresh[r].stamp \in Pair /\ published = refresh[r].content /\ InFlight(r)
  BY <1>1 DEF TypeOK, Call, OrderInv, InFlight
<1>9. published # None =>
        /\ AtMost(refresh[r].stamp, published)
        /\ \A q \in Refresher : AtMost(refresh[q].known, published)
  BY <1>8 DEF OrderInv
<1>10. published = None => Gone(refresh[r].stamp)
  BY <1>8 DEF OrderInv
<1>11. \A q \in Refresher : refresh'[q].at = "loading" =>
         disk.catalog = 0 \/ refresh'[q].stamp = Stamp
  BY <1>2 DEF OrderInv
<1>12. \A q \in Refresher : refresh'[q].known \in {refresh[q].known, refresh[r].stamp}
  BY <1>2
<1>13. OrderInv'
  BY <1>1, <1>4, <1>7, <1>8, <1>9, <1>10, <1>11, <1>12, Parts DEF OrderInv, InFlight
<1> QED
  BY <1>6, <1>13

\* A call that returns is quiet, and opens the gate if it has it.
LEMMA ReturnKeeps ==
  ASSUME TypeOK, LocksInv, VersionsInv, OrderInv, NEW r \in Refresher, NEW old \in Call,
         NEW result \in {"current", "busy", "failed"}, Return(r, old, result),
         old.known \in {refresh[r].known, loadedStamp}, refresh[r].at \in Gated \cup {"gate"},
         gate \in {r, Free}, lock' = lock,
         UNCHANGED <<disk, nextVersion, writer, scan, published, loadedStamp>>
  PROVE  LocksInv' /\ VersionsInv' /\ OrderInv'
<1>1. PICK call : call = [old EXCEPT !.at = IF r = Watcher THEN "gate" ELSE "ended",
                            !.result = result, !.stamp = None, !.content = None]
  OBVIOUS
<1>2. /\ call \in Call /\ call.at \in {"gate", "ended"} /\ call.known = old.known
      /\ call.stamp = None /\ call.content = None
  BY <1>1, Pairs DEF Call
<1>3. refresh' = [refresh EXCEPT ![r] = call] /\ gate' = Free
  BY <1>1 DEF Return
<1>4. Quiet(r, call)
  BY <1>2, <1>3 DEF Quiet
<1>5. VersionsInv' /\ OrderInv'
  BY <1>2, <1>4, QuietKeeps
<1>6. refresh[r].at # "waiting"
  BY DEF Gated
<1>7. gate' = (IF gate = r THEN Free ELSE gate) /\ call.at \notin Gated
  BY <1>2, <1>3 DEF Gated
<1>8. call.at \notin {"loading", "orphan", "leaving"}
  BY <1>2
<1>9. LocksInv'
  BY <1>2, <1>3, <1>6, <1>7, <1>8, CallLocks
<1> QED
  BY <1>5, <1>9

LEMMA CallActionsKeep ==
  ASSUME TypeOK, LocksInv, VersionsInv, OrderInv, NEW r \in Refresher,
         EnterGate(r) \/ CompareLoaded(r) \/ TryLock(r) \/ Load(r) \/ Publish(r)
         \/ RecordStamp(r) \/ ReportFailure(r) \/ LockFails(r)
  PROVE  LocksInv' /\ VersionsInv' /\ OrderInv'
<1> DEFINE old == refresh[r]
<1>1. old \in Call /\ Stamp \in Pair /\ loadedStamp \in Pair
  BY Pairs DEF TypeOK
<1>2. old.at \in Gated => gate = r
  BY DEF LocksInv
<1>3. old.at # "waiting" /\ r \in Job => writer[r].at = "exited"
  BY DEF LocksInv
<1>4. CASE EnterGate(r)
  <2>1. old.at = "gate" /\ gate = Free
        /\ UNCHANGED <<disk, nextVersion, lock, writer, scan, published, loadedStamp>>
    BY <1>4 DEF EnterGate, diskVars
  <2>2. CASE Stamp = old.known
    <3>1. Return(r, old, "current")
      BY <1>4, <2>2 DEF EnterGate
    <3> QED
      BY <1>1, <2>1, <3>1, ReturnKeeps
  <2>3. CASE Stamp # old.known
    <3>1. PICK call : call = [old EXCEPT !.at = "second"]
      OBVIOUS
    <3>2. /\ call \in Call /\ call.at = "second" /\ call.known = old.known
          /\ call.stamp = old.stamp /\ call.content = old.content
      BY <1>1, <3>1 DEF Call
    <3>3. refresh' = [refresh EXCEPT ![r] = call] /\ gate' = r
      BY <1>4, <2>3, <3>1 DEF EnterGate
    <3>4. VersionsInv' /\ OrderInv'
      BY <2>1, <3>2, <3>3, QuietKeeps DEF Quiet
    <3>5. LocksInv'
      BY <2>1, <3>2, <3>3, CallLocks
    <3> QED
      BY <3>4, <3>5
  <2> QED
    BY <2>2, <2>3
<1>5. CASE CompareLoaded(r)
  <2>1. old.at = "second" /\ gate = r
        /\ UNCHANGED <<disk, nextVersion, lock, writer, scan, published, loadedStamp>>
    BY <1>2, <1>5 DEF CompareLoaded, diskVars, Gated
  <2>2. CASE Stamp = loadedStamp
    <3>1. PICK mid : mid = [old EXCEPT !.known = loadedStamp]
      OBVIOUS
    <3>2. mid \in Call /\ mid.known = loadedStamp
      BY <1>1, <3>1 DEF Call
    <3>3. Return(r, mid, "current")
      BY <1>5, <2>2, <3>1 DEF CompareLoaded
    <3> QED
      BY <2>1, <3>2, <3>3, ReturnKeeps DEF Gated
  <2>3. CASE Stamp # loadedStamp
    <3>1. PICK call : call = [old EXCEPT !.at = "locking"]
      OBVIOUS
    <3>2. /\ call \in Call /\ call.at = "locking" /\ call.known = old.known
          /\ call.stamp = old.stamp /\ call.content = old.content
      BY <1>1, <3>1 DEF Call
    <3>3. refresh' = [refresh EXCEPT ![r] = call] /\ gate' = gate
      BY <1>5, <2>3, <3>1 DEF CompareLoaded
    <3>4. VersionsInv' /\ OrderInv'
      BY <2>1, <3>2, <3>3, QuietKeeps DEF Quiet
    <3>5. LocksInv'
      BY <2>1, <3>2, <3>3, CallLocks DEF Gated
    <3> QED
      BY <3>4, <3>5
  <2> QED
    BY <2>2, <2>3
<1>6. CASE TryLock(r)
  <2>1. old.at = "locking" /\ gate = r
        /\ UNCHANGED <<disk, nextVersion, writer, scan, published, loadedStamp>>
    BY <1>2, <1>6 DEF TryLock, Gated
  <2>2. CASE lock' = lock /\ (Return(r, old, "busy") \/ Return(r, old, "current"))
    BY <1>1, <2>1, <2>2, ReturnKeeps DEF Gated
  <2>3. CASE /\ lock = Free /\ lock' = r /\ gate' = gate
             /\ refresh' = [refresh EXCEPT ![r].at = "loading", ![r].stamp = Stamp]
    <3>1. VersionsInv' /\ OrderInv'
      BY <2>1, <2>3, TakeKeeps
    <3>2. PICK call : call = [old EXCEPT !.at = "loading", !.stamp = Stamp]
      OBVIOUS
    <3>3. call \in Call /\ call.at = "loading"
      BY <1>1, <3>2 DEF Call
    <3>4. refresh' = [refresh EXCEPT ![r] = call]
      BY <2>3, <3>2 DEF TypeOK
    <3>5. LocksInv'
      BY <2>1, <2>3, <3>3, <3>4, CallLocks DEF Gated
    <3> QED
      BY <3>1, <3>5
  <2> QED
    BY <1>6, <2>2, <2>3 DEF TryLock
<1>7. CASE Load(r)
  <2>1. /\ old.at = "loading" /\ gate = r /\ Unlock(r) /\ gate' = gate
        /\ UNCHANGED <<disk, nextVersion, writer, scan, published, loadedStamp>>
    BY <1>2, <1>7 DEF Load, Gated
  <2>2. CASE Readable
    <3>1. refresh' = [refresh EXCEPT ![r].at = "publishing", ![r].content = Stamp]
      BY <1>7, <2>2 DEF Load, TypeOK, Call
    <3>2. VersionsInv' /\ OrderInv'
      BY <2>1, <3>1, LoadKeeps
    <3>3. PICK call : call = [old EXCEPT !.at = "publishing", !.content = Stamp]
      OBVIOUS
    <3>4. call \in Call /\ call.at = "publishing"
      BY <1>1, <3>3 DEF Call
    <3>5. refresh' = [refresh EXCEPT ![r] = call]
      BY <3>1, <3>3 DEF TypeOK
    <3>6. LocksInv'
      BY <2>1, <3>4, <3>5, CallLocks DEF Gated
    <3> QED
      BY <3>2, <3>6
  <2>3. CASE ~Readable
    <3>1. PICK call : call = [old EXCEPT !.at = "reporting", !.content = None, !.stamp = None]
      OBVIOUS
    <3>2. /\ call \in Call /\ call.at = "reporting" /\ call.known = old.known
          /\ call.stamp = None /\ call.content = None
      BY <1>1, <3>1, Pairs DEF Call
    <3>3. refresh' = [refresh EXCEPT ![r] = call]
      BY <1>7, <2>3, <3>1 DEF Load
    <3>4. VersionsInv' /\ OrderInv'
      BY <2>1, <3>2, <3>3, QuietKeeps DEF Quiet
    <3>5. LocksInv'
      BY <2>1, <3>2, <3>3, CallLocks DEF Gated
    <3> QED
      BY <3>4, <3>5
  <2> QED
    BY <2>2, <2>3
<1>8. CASE Publish(r)
  <2>1. old.at = "publishing" /\ UNCHANGED <<lock, gate, writer, scan>>
    BY <1>8 DEF Publish, diskVars
  <2>2. PICK call : call = [old EXCEPT !.at = "stamping"]
    OBVIOUS
  <2>3. call \in Call /\ call.at = "stamping"
    BY <1>1, <2>2 DEF Call
  <2>4. refresh' = [refresh EXCEPT ![r] = call]
    BY <1>8, <2>2 DEF Publish
  <2>5. LocksInv'
    BY <2>1, <2>3, <2>4, CallLocks DEF Gated
  <2> QED
    BY <1>8, <2>5, PublishKeeps
<1>9. CASE RecordStamp(r)
  <2>1. /\ old.at = "stamping" /\ gate = r /\ gate' = Free /\ UNCHANGED <<lock, writer, scan>>
    BY <1>2, <1>9 DEF RecordStamp, Return, diskVars, Gated
  <2>2. PICK call : call = [[old EXCEPT !.known = StampOfLoaded(r), !.reported = Nothing]
                              EXCEPT !.at = IF r = Watcher THEN "gate" ELSE "ended",
                                     !.result = "current", !.stamp = None, !.content = None]
    OBVIOUS
  <2>3. call \in Call /\ call.at \in {"gate", "ended"}
    BY <1>1, <2>2, Pairs DEF Call, StampOfLoaded
  <2>4. refresh' = [refresh EXCEPT ![r] = call]
    BY <1>9, <2>2 DEF RecordStamp, Return
  <2>5. LocksInv'
    BY <2>1, <2>3, <2>4, CallLocks DEF Gated
  <2> QED
    BY <1>9, <2>5, RecordKeeps
<1>10. CASE ReportFailure(r)
  <2>1. old.at = "reporting" /\ gate = r
        /\ UNCHANGED <<disk, nextVersion, lock, writer, scan, published, loadedStamp>>
    BY <1>2, <1>10 DEF ReportFailure, diskVars, Gated
  <2>2. PICK mid : mid = [old EXCEPT !.reported = ReportedAs(r)]
    OBVIOUS
  <2>3. mid \in Call /\ mid.known = old.known
    BY <1>1, <2>2 DEF Call, ReportedAs
  <2>4. Return(r, mid, "failed")
    BY <1>10, <2>2 DEF ReportFailure
  <2> QED
    BY <2>1, <2>3, <2>4, ReturnKeeps DEF Gated
<1>11. CASE LockFails(r)
  <2>1. /\ old.at \in {"locking", "loading"} /\ Unlock(r) /\ gate' = gate
        /\ UNCHANGED <<disk, nextVersion, writer, scan, published, loadedStamp>>
    BY <1>11 DEF LockFails
  <2>2. PICK call : call = [old EXCEPT !.at = "reporting", !.stamp = None]
    OBVIOUS
  <2>3. /\ call \in Call /\ call.at = "reporting" /\ call.known = old.known
        /\ call.stamp = None /\ call.content = old.content
    BY <1>1, <2>2, Pairs DEF Call
  <2>4. refresh' = [refresh EXCEPT ![r] = call]
    BY <1>11, <2>2 DEF LockFails
  <2>5. VersionsInv' /\ OrderInv'
    BY <2>1, <2>3, <2>4, QuietKeeps DEF Quiet
  <2>6. LocksInv'
    BY <2>1, <2>3, <2>4, CallLocks DEF Gated
  <2> QED
    BY <2>5, <2>6
<1> QED
  BY <1>4, <1>5, <1>6, <1>7, <1>8, <1>9, <1>10, <1>11

LEMMA OtherCallsKeep ==
  ASSUME TypeOK, LocksInv, VersionsInv, OrderInv,
         (\E j \in Job : StartRefresh(j)) \/ StopWatcher \/ OrphanLocks \/ OrphanEnds
  PROVE  LocksInv' /\ VersionsInv' /\ OrderInv'
<1>1. ASSUME NEW j \in Job, StartRefresh(j)
      PROVE  LocksInv' /\ VersionsInv' /\ OrderInv'
  <2>1. /\ writer[j].at = "exited" /\ refresh[j].at = "waiting" /\ j \in Refresher
        /\ refresh[j] \in Call /\ loadedStamp \in Pair
        /\ UNCHANGED <<disk, nextVersion, lock, gate, writer, scan, published, loadedStamp>>
    BY <1>1, Parts DEF StartRefresh, diskVars, TypeOK
  <2>2. PICK call : call = [refresh[j] EXCEPT !.at = "gate", !.known = loadedStamp]
    OBVIOUS
  <2>3. /\ call \in Call /\ call.at = "gate" /\ call.known = loadedStamp
        /\ call.stamp = refresh[j].stamp /\ call.content = refresh[j].content
    BY <2>1, <2>2 DEF Call
  <2>4. refresh' = [refresh EXCEPT ![j] = call]
    BY <1>1, <2>1, <2>2 DEF StartRefresh, KnownAtStart, TypeOK
  <2>5. VersionsInv' /\ OrderInv'
    BY <2>1, <2>3, <2>4, QuietKeeps DEF Quiet
  <2>6. LocksInv'
    BY <2>1, <2>3, <2>4, CallLocks DEF Gated
  <2> QED
    BY <2>5, <2>6
<1>2. Watcher \in Refresher /\ Watcher \notin Job /\ refresh[Watcher] \in Call
  <2>1. Watcher \in Refresher /\ Watcher \notin Job
    BY Parts
  <2> QED
    BY <2>1 DEF TypeOK
<1>3. CASE StopWatcher
  <2>1. /\ gate' = (IF gate = Watcher THEN Free ELSE gate) /\ lock' = lock
        /\ UNCHANGED <<disk, nextVersion, writer, scan, published, loadedStamp>>
    BY <1>3 DEF StopWatcher, diskVars
  <2>2. PICK at \in {"leaving", "orphan", "ended"} :
          /\ refresh' = [refresh EXCEPT ![Watcher].at = at]
          /\ at = "orphan" => refresh[Watcher].at = "loading"
    BY <1>3 DEF StopWatcher
  <2>3. PICK call : call = [refresh[Watcher] EXCEPT !.at = at]
    OBVIOUS
  <2>4. /\ call \in Call /\ call.at = at /\ call.known = refresh[Watcher].known
        /\ call.stamp = refresh[Watcher].stamp /\ call.content = refresh[Watcher].content
    BY <1>2, <2>3 DEF Call
  <2>5. refresh' = [refresh EXCEPT ![Watcher] = call]
    BY <2>2, <2>3
  <2>6. VersionsInv' /\ OrderInv'
    BY <1>2, <2>1, <2>4, <2>5, QuietKeeps DEF Quiet
  <2>7. LocksInv'
    BY <1>2, <2>1, <2>2, <2>4, <2>5, CallLocks DEF Gated
  <2> QED
    BY <2>6, <2>7
<1>4. CASE OrphanLocks \/ OrphanEnds
  <2>1. UNCHANGED <<disk, nextVersion, writer, scan, published, loadedStamp, gate>>
    BY <1>4 DEF OrphanLocks, OrphanEnds
  <2>2. PICK at \in {"orphan", "ended"} :
          /\ refresh' = [refresh EXCEPT ![Watcher].at = at]
          /\ \/ lock = Free /\ lock' = Watcher /\ at = "orphan"
             \/ lock' = lock /\ at = "ended"
             \/ Unlock(Watcher) /\ at = "ended"
    BY <1>4 DEF OrphanLocks, OrphanEnds
  <2>3. PICK call : call = [refresh[Watcher] EXCEPT !.at = at]
    OBVIOUS
  <2>4. /\ call \in Call /\ call.at = at /\ call.known = refresh[Watcher].known
        /\ call.stamp = refresh[Watcher].stamp /\ call.content = refresh[Watcher].content
    BY <1>2, <2>3 DEF Call
  <2>5. refresh' = [refresh EXCEPT ![Watcher] = call]
    BY <2>2, <2>3
  <2>6. VersionsInv' /\ OrderInv'
    BY <1>2, <2>1, <2>4, <2>5, QuietKeeps DEF Quiet
  <2>7. LocksInv'
    BY <1>2, <2>1, <2>2, <2>4, <2>5, CallLocks DEF Gated
  <2> QED
    BY <2>6, <2>7
<1> QED
  BY <1>1, <1>3, <1>4
-----------------------------------------------------------------------------
(***************************************************************************)
(* Writers, removals and scans.                                            *)
(***************************************************************************)

\* The documents change, what the server holds does not.
LEMMA OrderKept ==
  ASSUME TypeOK, OrderInv, UNCHANGED <<refresh, published, loadedStamp>>,
         \A j \in Job : InFlight(j) => writer'[j] = writer[j],
         \A r \in Refresher : refresh[r].at = "loading" => disk' = disk \/ disk'.catalog = 0,
         \A p \in Pair : Held(p) /\ Gone(p) => Gone(p)'
  PROVE  OrderInv'
<1>1. /\ published \in Pair /\ loadedStamp \in Pair /\ Held(loadedStamp)
      /\ \A r \in Refresher : refresh[r].stamp \in Pair /\ Held(refresh[r].stamp)
  BY DEF TypeOK, Call, Held
<1>2. \A r \in Refresher : refresh[r].at = "loading" =>
        disk'.catalog = 0 \/ refresh[r].stamp = Stamp'
  BY DEF OrderInv, Stamp
<1> QED
  BY <1>1, <1>2 DEF OrderInv, InFlight

LEMMA WritersKeep ==
  ASSUME TypeOK, LocksInv, VersionsInv, OrderInv, NEW w \in Writer,
         BeginWrite(w) \/ WriterStep(w)
  PROVE  LocksInv' /\ VersionsInv' /\ OrderInv'
<1>1. /\ UNCHANGED <<gate, refresh, published, loadedStamp, scan>>
      /\ \A p \in Pair : Held(p)' <=> Held(p)
  BY DEF BeginWrite, WriterStep, RenameConclusions, RenameCatalog, EndWrite, serverVars, Held
<1>2. /\ nextVersion \in Nat /\ disk.catalog \in Nat /\ disk.conclusions \in Nat
      /\ \A v \in Writer : writer[v].version \in Nat
      /\ \A p \in Pair : p[1] \in Nat /\ p[2] \in Nat
  BY Pairs DEF TypeOK
<1>3. writer[w].at # "exited" /\ \A v \in Writer : v # w => writer'[v] = writer[v]
  BY DEF BeginWrite, WriterStep, RenameConclusions, RenameCatalog, EndWrite, TypeOK
<1>4. lock = Free \/ lock = w
  BY DEF BeginWrite, WriterStep, RenameConclusions, RenameCatalog, EndWrite, LocksInv, Active
<1>5. /\ \A v \in Writer : v # w => ~Active(v)
      /\ \A s \in ScanWorker : scan[s].at = "idle"
      /\ \A r \in Refresher : refresh[r].at \notin {"loading", "orphan"}
  <2>1. ASSUME NEW r \in Refresher, refresh[r].at \in {"loading", "orphan"}
        PROVE  FALSE
    <3>1. lock = r /\ r # Free
      BY <2>1, Parts DEF LocksInv
    <3>2. r = w /\ r \in Job
      BY <1>4, <3>1, Parts
    <3> QED
      BY <1>3, <2>1, <3>2 DEF LocksInv
  <2> QED
    BY <1>4, <2>1, Parts DEF LocksInv
<1>6. \A j \in Job : InFlight(j) => writer'[j] = writer[j]
  BY <1>3, Parts DEF InFlight, LocksInv
<1>7. LocksInv'
  <2>1. Active(w)' => lock' = w
    <3>1. CASE BeginWrite(w)
      BY <3>1 DEF BeginWrite
    <3>2. CASE RenameConclusions(w) \/ RenameCatalog(w)
      BY <3>2 DEF RenameConclusions, RenameCatalog, LocksInv, Active
    <3>3. CASE EndWrite(w)
      BY <3>3 DEF EndWrite, Active, TypeOK
    <3> QED
      BY <3>1, <3>2, <3>3 DEF WriterStep
  <2>2. \A j \in Job : refresh[j].at # "waiting" => writer'[j].at = "exited"
    BY <1>3, Parts DEF LocksInv
  <2> QED
    BY <1>1, <1>3, <1>5, <2>1, <2>2 DEF LocksInv, Active
<1>8. CASE BeginWrite(w)
  <2>1. /\ writer'[w] = [at |-> "writing", version |-> nextVersion]
        /\ nextVersion' = nextVersion + 1 /\ disk' = disk
    BY <1>8 DEF BeginWrite, TypeOK
  <2>2. \A p \in Pair : Seen(p)' <=> Seen(p)
    BY <2>1 DEF Seen
  <2>3. \A p \in Pair : Held(p) => Below(p, nextVersion) /\ Below(p, nextVersion')
    BY <1>2, <2>1 DEF VersionsInv, Below
  <2>4. VersionsInv'
    BY <1>1, <1>2, <1>3, <1>5, <2>1, <2>2, <2>3 DEF VersionsInv, ScanSound, Active, Below, Saving, Saved
  <2>5. OrderInv'
    BY <1>1, <1>6, <2>1, OrderKept DEF Gone
  <2> QED
    BY <1>7, <2>4, <2>5
<1>9. CASE RenameConclusions(w)
  <2> DEFINE v == writer[w].version
  <2>1. /\ writer[w].at = "writing" /\ writer'[w].at = "half" /\ writer'[w].version = v
        /\ nextVersion' = nextVersion
        /\ disk'.conclusions = v /\ disk'.catalog = disk.catalog
    BY <1>9 DEF RenameConclusions, TypeOK
  <2>2. /\ v = nextVersion - 1 /\ disk.catalog < v /\ disk.conclusions < v
        /\ \A p \in Pair : Held(p) => Below(p, v)
    BY <2>1 DEF VersionsInv, Active, Below
  <2>3. \A p \in Pair : Held(p) => Seen(p)'
    BY <1>2, <2>1, <2>2 DEF VersionsInv, Seen, Below
  <2>4. VersionsInv'
    BY <1>1, <1>2, <1>3, <1>5, <2>1, <2>2, <2>3 DEF VersionsInv, ScanSound, Active, Below, Saving, Saved
  <2>5. OrderInv'
    BY <1>1, <1>5, <1>6, <2>1, OrderKept DEF Gone
  <2> QED
    BY <1>7, <2>4, <2>5
<1>10. CASE RenameCatalog(w)
  <2> DEFINE v == writer[w].version
  <2>1. /\ writer[w].at = "half" /\ writer'[w].at = "saved" /\ writer'[w].version = v
        /\ nextVersion' = nextVersion
        /\ disk'.conclusions = disk.conclusions /\ disk'.catalog = v
    BY <1>10 DEF RenameCatalog, TypeOK
  <2>2. /\ v = nextVersion - 1 /\ disk.catalog < v /\ disk.conclusions = v
        /\ \A p \in Pair : Held(p) => Below(p, v)
    BY <2>1 DEF VersionsInv, Active, Below
  <2>3. \A p \in Pair : Held(p) => Seen(p)' /\ Gone(p)'
    BY <1>2, <2>1, <2>2 DEF VersionsInv, Seen, Below, Gone
  <2>4. VersionsInv'
    BY <1>1, <1>2, <1>3, <1>5, <2>1, <2>2, <2>3 DEF VersionsInv, ScanSound, Active, Below, Saving, Saved
  <2>5. OrderInv'
    BY <1>1, <1>5, <1>6, <2>1, <2>3, OrderKept
  <2> QED
    BY <1>7, <2>4, <2>5
<1>11. CASE EndWrite(w)
  <2>1. /\ Active(w) /\ writer'[w].at = "exited" /\ disk' = disk /\ nextVersion' = nextVersion
        /\ writer'[w].version = (IF writer[w].at = "saved" THEN writer[w].version ELSE 0)
    BY <1>11 DEF EndWrite, TypeOK, Active
  <2>2. /\ writer'[w].version < nextVersion
        /\ disk.catalog # 0 => disk.catalog >= writer'[w].version
    BY <1>2, <2>1, CatalogReloadAssumption DEF VersionsInv, Active, TypeOK
  <2>3. \A p \in Pair : Seen(p)' <=> Seen(p)
    BY <2>1 DEF Seen
  <2>4. VersionsInv'
    BY <1>1, <1>2, <1>3, <1>5, <2>1, <2>2, <2>3 DEF VersionsInv, ScanSound, Active, Below, Saving, Saved
  <2>5. OrderInv'
    BY <1>1, <1>6, <2>1, OrderKept DEF Gone
  <2> QED
    BY <1>7, <2>4, <2>5
<1> QED
  BY <1>8, <1>9, <1>10, <1>11 DEF WriterStep

LEMMA RemovalKeeps ==
  ASSUME TypeOK, LocksInv, VersionsInv, OrderInv, RemoveCatalog
  PROVE  LocksInv' /\ VersionsInv' /\ OrderInv'
<1>1. /\ UNCHANGED <<gate, lock, refresh, published, loadedStamp, scan, writer, nextVersion>>
      /\ disk'.catalog = 0 /\ disk'.conclusions = disk.conclusions
      /\ disk.catalog \in Nat
  BY Pairs DEF RemoveCatalog, serverVars, TypeOK
<1>2. LocksInv'
  BY <1>1 DEF LocksInv, Active
<1>3. \A p \in Pair : Held(p)' <=> Held(p)
  BY <1>1 DEF Held
<1>4. \A p \in Pair : (Seen(p) => Seen(p)') /\ Gone(p)'
  BY <1>1 DEF Seen, Gone
<1>5. 0 < nextVersion /\ \A w \in Writer : Active(w) => 0 < writer[w].version
  BY <1>1, Pairs, CatalogReloadAssumption DEF TypeOK, VersionsInv, Held, Below
<1>6. \A s \in ScanWorker : scan[s].at \in Saving => 0 < scan[s].version
  BY <1>1, Pairs DEF TypeOK, VersionsInv, ScanSound, Held, Below
<1>7. VersionsInv'
  BY <1>1, <1>3, <1>4, <1>5, <1>6 DEF VersionsInv, ScanSound, Active, Saving, Saved, Below
<1>8. OrderInv'
  BY <1>1, <1>4, OrderKept
<1> QED
  BY <1>2, <1>7, <1>8

\* A scan that changes no document and publishes nothing.
LEMMA QuietScanKeeps ==
  ASSUME TypeOK, VersionsInv, OrderInv, NEW s \in ScanWorker, NEW new, ScanSound(new),
         scan' = [scan EXCEPT ![s] = new],
         UNCHANGED <<disk, nextVersion, writer, refresh, published, loadedStamp>>
  PROVE  VersionsInv' /\ OrderInv'
<1>1. scan'[s] = new /\ \A t \in ScanWorker : t # s => scan'[t] = scan[t]
  BY DEF TypeOK
<1>2. \A p \in Pair : (Held(p)' <=> Held(p)) /\ (Seen(p)' <=> Seen(p)) /\ (Gone(p)' <=> Gone(p))
  BY DEF Held, Seen, Gone
<1>3. \A t \in ScanWorker : ScanSound(scan[t])'
  BY <1>1, <1>2 DEF VersionsInv, ScanSound, Below
<1>4. VersionsInv'
  BY <1>2, <1>3 DEF VersionsInv, Active, Below
<1>5. OrderInv'
  BY <1>2, OrderKept
<1> QED
  BY <1>4, <1>5

LEMMA ScanAlone ==
  ASSUME LocksInv, NEW s \in ScanWorker, lock = Free \/ lock = s
  PROVE  /\ \A w \in Writer : ~Active(w)
         /\ \A t \in ScanWorker : t # s => scan[t].at = "idle"
         /\ \A r \in Refresher : refresh[r].at \notin {"loading", "orphan"}
         /\ lock = Free => scan[s].at = "idle"
  BY Parts DEF LocksInv

LEMMA QuietScans ==
  ASSUME TypeOK, LocksInv, VersionsInv, OrderInv, NEW s \in ScanWorker,
         FailScan(s) \/ ScanLoads(s) \/ ReturnScan(s) \/ ScanEntersGate(s) \/ AbandonScan(s)
  PROVE  LocksInv' /\ VersionsInv' /\ OrderInv'
<1> DEFINE old == scan[s]
<1>1. /\ old \in ScanState /\ ScanSound(old) /\ Stamp \in Pair /\ NotScanning \in ScanState
      /\ UNCHANGED <<disk, nextVersion, writer, refresh, published, loadedStamp>>
  BY Pairs DEF TypeOK, ScanState, NotScanning, VersionsInv, FailScan, ScanLoads, ReturnScan,
               ScanEntersGate, AbandonScan
<1>2. ASSUME EndScan(s), OpenGate(s) \/ (gate' = gate /\ old.at \notin {"publishing", "stamping"})
      PROVE  LocksInv' /\ VersionsInv' /\ OrderInv'
  <2>1. ScanSound(NotScanning) /\ NotScanning.at = "idle"
    BY DEF ScanSound, NotScanning, Saving, Saved
  <2>2. scan' = [scan EXCEPT ![s] = NotScanning] /\ Unlock(s)
    BY <1>2 DEF EndScan
  <2>3. VersionsInv' /\ OrderInv'
    BY <1>1, <2>1, <2>2, QuietScanKeeps
  <2>4. LocksInv'
    BY <1>1, <1>2, <2>1, <2>2, ScanLocks
  <2> QED
    BY <2>3, <2>4
<1>3. CASE FailScan(s)
  BY <1>2, <1>3 DEF FailScan
<1>4. CASE ScanLoads(s)
  <2>1. PICK new : new = [old EXCEPT !.at = "loaded", !.content = Stamp]
    OBVIOUS
  <2>2. /\ new \in ScanState /\ new.at = "loaded" /\ new.content = Stamp
        /\ new.version = old.version
    BY <1>1, <2>1 DEF ScanState
  <2>3. /\ old.at = "saved" /\ disk.catalog # 0 /\ UNCHANGED <<lock, gate>>
        /\ scan' = [scan EXCEPT ![s] = new]
    BY <1>4, <2>1 DEF ScanLoads
  <2>4. Stamp = <<old.version, old.version>>
    BY <1>1, <2>3 DEF Stamp, ScanSound
  <2>5. ScanSound(new)
    BY <1>1, <2>2, <2>3, <2>4 DEF ScanSound, Saving, Saved
  <2>6. VersionsInv' /\ OrderInv'
    BY <1>1, <2>3, <2>5, QuietScanKeeps
  <2>7. LocksInv'
    BY <1>1, <2>2, <2>3, ScanLocks
  <2> QED
    BY <2>6, <2>7
<1>5. CASE ReturnScan(s)
  <2>1. CASE ~old.waiter
    <3>1. EndScan(s) /\ gate' = gate /\ old.at \notin {"publishing", "stamping"}
      BY <1>5, <2>1 DEF ReturnScan
    <3> QED
      BY <1>2, <3>1
  <2>2. CASE old.waiter
    <3>1. PICK new : new = [old EXCEPT !.at = "waiting", !.saved = Stamp]
      OBVIOUS
    <3>2. /\ new \in ScanState /\ new.at = "waiting" /\ new.saved = Stamp
          /\ new.version = old.version /\ new.content = old.content
      BY <1>1, <3>1 DEF ScanState
    <3>3. /\ old.at = "loaded" /\ UNCHANGED <<lock, gate>>
          /\ scan' = [scan EXCEPT ![s] = new]
      BY <1>5, <2>2, <3>1 DEF ReturnScan
    <3>4. Stamp \in {None, <<old.version, old.version>>}
      BY <1>1, <3>3 DEF Stamp, ScanSound, Saved
    <3>5. ScanSound(new)
      BY <1>1, <3>2, <3>3, <3>4 DEF ScanSound, Saving, Saved
    <3>6. VersionsInv' /\ OrderInv'
      BY <1>1, <3>3, <3>5, QuietScanKeeps
    <3>7. LocksInv'
      BY <1>1, <3>2, <3>3, ScanLocks
    <3> QED
      BY <3>6, <3>7
  <2> QED
    BY <2>1, <2>2
<1>6. CASE ScanEntersGate(s)
  <2>1. PICK new : new = [old EXCEPT !.at = "publishing"]
    OBVIOUS
  <2>2. /\ new \in ScanState /\ new.at = "publishing" /\ new.saved = old.saved
        /\ new.version = old.version /\ new.content = old.content
    BY <1>1, <2>1 DEF ScanState
  <2>3. /\ old.at = "waiting" /\ lock' = lock /\ gate = Free /\ gate' = s
        /\ scan' = [scan EXCEPT ![s] = new]
    BY <1>6, <2>1 DEF ScanEntersGate
  <2>4. ScanSound(new)
    BY <1>1, <2>2, <2>3 DEF ScanSound, Saving, Saved
  <2>5. VersionsInv' /\ OrderInv'
    BY <1>1, <2>3, <2>4, QuietScanKeeps
  <2>6. LocksInv'
    BY <1>1, <2>2, <2>3, ScanLocks
  <2> QED
    BY <2>5, <2>6
<1>7. CASE AbandonScan(s)
  <2>1. CASE old.at \in {"waiting", "publishing", "stamping"}
    BY <1>2, <1>7, <2>1 DEF AbandonScan
  <2>2. CASE old.at \notin {"waiting", "publishing", "stamping"}
    <3>1. PICK new : new = [old EXCEPT !.waiter = FALSE]
      OBVIOUS
    <3>2. /\ new \in ScanState /\ new.at = old.at /\ new.saved = old.saved
          /\ new.version = old.version /\ new.content = old.content
      BY <1>1, <3>1 DEF ScanState
    <3>3. /\ UNCHANGED <<lock, gate>> /\ scan' = [scan EXCEPT ![s] = new]
      BY <1>7, <2>2, <3>1 DEF AbandonScan
    <3>4. ScanSound(new)
      BY <1>1, <3>2 DEF ScanSound
    <3>5. VersionsInv' /\ OrderInv'
      BY <1>1, <3>3, <3>4, QuietScanKeeps
    <3>6. LocksInv'
      BY <1>1, <3>2, <3>3, Parts DEF LocksInv, Active, TypeOK
    <3> QED
      BY <3>5, <3>6
  <2> QED
    BY <2>1, <2>2
<1> QED
  BY <1>3, <1>4, <1>5, <1>6, <1>7

LEMMA WritingScans ==
  ASSUME TypeOK, LocksInv, VersionsInv, OrderInv, NEW s \in ScanWorker,
         BeginScan(s) \/ ScanSavesConclusions(s) \/ ScanSavesCatalog(s)
  PROVE  LocksInv' /\ VersionsInv' /\ OrderInv'
<1> DEFINE old == scan[s]
<1>1. /\ UNCHANGED <<gate, refresh, published, loadedStamp, writer>>
      /\ \A p \in Pair : Held(p)' <=> Held(p)
  BY DEF BeginScan, ScanSavesConclusions, ScanSavesCatalog, Held
<1>2. /\ nextVersion \in Nat /\ disk.catalog \in Nat /\ disk.conclusions \in Nat
      /\ old.version \in Nat /\ old \in ScanState /\ ScanSound(old)
      /\ \A v \in Writer : writer[v].version \in Nat
      /\ \A p \in Pair : p[1] \in Nat /\ p[2] \in Nat
  BY Pairs DEF TypeOK, ScanState, VersionsInv
<1>3. lock = Free \/ lock = s
  BY DEF BeginScan, ScanSavesConclusions, ScanSavesCatalog, LocksInv
<1>4. /\ \A w \in Writer : ~Active(w)
      /\ \A t \in ScanWorker : t # s => scan[t].at = "idle"
      /\ \A r \in Refresher : refresh[r].at \notin {"loading", "orphan"}
  BY <1>3, ScanAlone
<1>5. ASSUME NEW new, scan' = [scan EXCEPT ![s] = new], new.at \in {"scanning", "half", "saved"},
             ScanSound(new)',
             \A p \in Pair : Held(p) => Seen(p)' /\ Below(p, nextVersion') /\ (Gone(p) => Gone(p)'),
             disk'.catalog < nextVersion', disk'.conclusions < nextVersion',
             nextVersion' \in Nat, nextVersion <= nextVersion',
             disk'.catalog \in {disk.catalog, nextVersion' - 1}
      PROVE  VersionsInv' /\ OrderInv'
  <2>1. scan'[s] = new /\ \A t \in ScanWorker : t # s => scan'[t] = scan[t]
    BY <1>5 DEF TypeOK
  <2>2. \A t \in ScanWorker : t # s => ScanSound(scan[t])'
    BY <1>4, <2>1 DEF ScanSound, Saving, Saved
  <2>3. ASSUME NEW w \in Writer, writer[w].at = "exited"
        PROVE  /\ writer[w].version < nextVersion'
               /\ disk'.catalog # 0 => disk'.catalog >= writer[w].version
    BY <1>2, <1>5, <2>3 DEF VersionsInv
  <2>4. VersionsInv'
    BY <1>1, <1>4, <1>5, <2>1, <2>2, <2>3 DEF VersionsInv, Active
  <2>5. OrderInv'
    BY <1>1, <1>4, <1>5, OrderKept
  <2> QED
    BY <2>4, <2>5
<1>6. CASE BeginScan(s)
  <2>1. PICK new : new = [NotScanning EXCEPT !.at = "scanning", !.waiter = TRUE,
                                             !.version = nextVersion]
    OBVIOUS
  <2>2. /\ scan' = [scan EXCEPT ![s] = new] /\ nextVersion' = nextVersion + 1 /\ disk' = disk
        /\ lock = Free /\ lock' = s /\ nextVersion \in Version
    BY <1>2, <1>6, <2>1 DEF BeginScan, Version
  <2>3. new \in ScanState /\ new.at = "scanning" /\ new.version = nextVersion
    BY <2>1, <2>2, Pairs DEF ScanState, NotScanning
  <2>4. \A p \in Pair : Held(p) => Below(p, nextVersion) /\ Below(p, nextVersion')
                                   /\ Seen(p)' /\ (Gone(p) => Gone(p)')
    BY <1>2, <2>2 DEF VersionsInv, Below, Seen, Gone
  <2>5. ScanSound(new)'
    BY <1>1, <1>2, <2>2, <2>3, <2>4 DEF ScanSound, Saving, Saved, VersionsInv, Below
  <2>6. VersionsInv' /\ OrderInv'
    <3>1. /\ disk'.catalog < nextVersion' /\ disk'.conclusions < nextVersion'
          /\ nextVersion' \in Nat /\ nextVersion <= nextVersion'
          /\ disk'.catalog \in {disk.catalog, nextVersion' - 1}
      BY <1>2, <2>2 DEF VersionsInv
    <3>2. new.at \in {"scanning", "half", "saved"}
      BY <2>3
    <3> QED
      BY <1>5, <2>2, <2>4, <2>5, <3>1, <3>2
  <2>7. LocksInv'
    BY <1>1, <2>2, <2>3, ScanLocks
  <2> QED
    BY <2>6, <2>7
<1>7. CASE ScanSavesConclusions(s)
  <2> DEFINE v == old.version
  <2>1. PICK new : new = [old EXCEPT !.at = "half"]
    OBVIOUS
  <2>2. /\ scan' = [scan EXCEPT ![s] = new] /\ nextVersion' = nextVersion /\ lock' = lock
        /\ old.at = "scanning" /\ disk'.conclusions = v /\ disk'.catalog = disk.catalog
    BY <1>7, <2>1 DEF ScanSavesConclusions, TypeOK
  <2>3. new \in ScanState /\ new.at = "half" /\ new.version = v
    BY <1>2, <2>1 DEF ScanState
  <2>4. /\ v = nextVersion - 1 /\ disk.catalog < v /\ disk.conclusions < v
        /\ \A p \in Pair : Held(p) => Below(p, v)
    BY <1>2, <2>2 DEF ScanSound, Below, Saving
  <2>5. \A p \in Pair : Held(p) => Below(p, nextVersion') /\ Seen(p)' /\ (Gone(p) => Gone(p)')
    BY <1>2, <2>2, <2>4 DEF VersionsInv, Below, Seen, Gone
  <2>6. ScanSound(new)'
    BY <1>1, <1>2, <2>2, <2>3, <2>4 DEF ScanSound, Saving, Saved
  <2>7. VersionsInv' /\ OrderInv'
    <3>1. /\ disk'.catalog < nextVersion' /\ disk'.conclusions < nextVersion'
          /\ nextVersion' \in Nat /\ nextVersion <= nextVersion'
          /\ disk'.catalog \in {disk.catalog, nextVersion' - 1}
      BY <1>2, <2>2, <2>4 DEF VersionsInv
    <3>2. new.at \in {"scanning", "half", "saved"}
      BY <2>3
    <3> QED
      BY <1>5, <2>2, <2>5, <2>6, <3>1, <3>2
  <2>8. LocksInv'
    BY <1>1, <2>2, <2>3, ScanLocks
  <2> QED
    BY <2>7, <2>8
<1>8. CASE ScanSavesCatalog(s)
  <2> DEFINE v == old.version
  <2>1. PICK new : new = [old EXCEPT !.at = "saved"]
    OBVIOUS
  <2>2. /\ scan' = [scan EXCEPT ![s] = new] /\ nextVersion' = nextVersion /\ lock' = lock
        /\ old.at = "half" /\ disk'.conclusions = disk.conclusions /\ disk'.catalog = v
    BY <1>8, <2>1 DEF ScanSavesCatalog, TypeOK
  <2>3. new \in ScanState /\ new.at = "saved" /\ new.version = v
    BY <1>2, <2>1 DEF ScanState
  <2>4. /\ v = nextVersion - 1 /\ disk.conclusions = v
        /\ \A p \in Pair : Held(p) => Below(p, v)
    BY <1>2, <2>2 DEF ScanSound, Saving
  <2>5. \A p \in Pair : Held(p) => Below(p, nextVersion') /\ Seen(p)' /\ Gone(p)'
    BY <1>2, <2>2, <2>4 DEF VersionsInv, Below, Seen, Gone
  <2>6. ScanSound(new)'
    BY <1>1, <1>2, <2>2, <2>3, <2>4 DEF ScanSound, Saving, Saved
  <2>7. VersionsInv' /\ OrderInv'
    <3>1. /\ disk'.catalog < nextVersion' /\ disk'.conclusions < nextVersion'
          /\ nextVersion' \in Nat /\ nextVersion <= nextVersion'
          /\ disk'.catalog \in {disk.catalog, nextVersion' - 1}
      BY <1>2, <2>2, <2>4 DEF VersionsInv
    <3>2. new.at \in {"scanning", "half", "saved"}
      BY <2>3
    <3> QED
      BY <1>5, <2>2, <2>5, <2>6, <3>1, <3>2
  <2>8. LocksInv'
    BY <1>1, <2>2, <2>3, ScanLocks
  <2> QED
    BY <2>7, <2>8
<1> QED
  BY <1>6, <1>7, <1>8
LEMMA ScanPublishKeeps ==
  ASSUME TypeOK, LocksInv, VersionsInv, OrderInv, NEW s \in ScanWorker, ScanPublishes(s)
  PROVE  LocksInv' /\ VersionsInv' /\ OrderInv'
<1> DEFINE old == scan[s]
           v == old.version
<1>1. /\ UNCHANGED <<disk, nextVersion, lock, gate, refresh, loadedStamp, writer>>
      /\ old.at = "publishing" /\ published' = old.content
  BY DEF ScanPublishes
<1>2. /\ nextVersion \in Nat /\ disk.catalog \in Nat /\ disk.conclusions \in Nat
      /\ v \in Nat /\ old \in ScanState /\ ScanSound(old)
      /\ \A p \in Pair : p[1] \in Nat /\ p[2] \in Nat
  BY Pairs DEF TypeOK, ScanState, VersionsInv
<1>3. /\ old.content = <<v, v>> /\ old.content \in Pair /\ v = nextVersion - 1
      /\ disk.catalog \in {0, v} /\ disk.conclusions = v
      /\ \A p \in Pair : Held(p) => Below(p, v)
  BY <1>1, <1>2 DEF ScanSound, Saved, Saving, ScanState
<1>4. PICK new : new = [old EXCEPT !.at = "stamping"]
  OBVIOUS
<1>5. /\ new \in ScanState /\ new.at = "stamping" /\ new.version = v
      /\ new.content = old.content /\ new.saved = old.saved
  BY <1>2, <1>4 DEF ScanState
<1>6. scan' = [scan EXCEPT ![s] = new]
  BY <1>4 DEF ScanPublishes
<1>7. scan'[s] = new /\ \A t \in ScanWorker : t # s => scan'[t] = scan[t]
  BY <1>6 DEF TypeOK
<1>8. lock = s /\ gate = s
  BY <1>1 DEF LocksInv
<1>9. LocksInv'
  BY <1>1, <1>5, <1>6, ScanLocks
<1>10. /\ \A w \in Writer : ~Active(w)
       /\ \A t \in ScanWorker : t # s => scan[t].at = "idle"
       /\ \A r \in Refresher : refresh[r].at \notin {"loading", "orphan"} /\ ~InFlight(r)
  BY <1>8, ScanAlone, PublishesAlone, Parts
<1>11. \A p \in Pair : Held(p)' => Held(p) \/ p = old.content
  BY <1>1 DEF Held
<1>12. Seen(old.content) /\ Below(old.content, nextVersion)
  BY <1>2, <1>3 DEF Seen, Below
<1>13. \A p \in Pair : Held(p)' => Seen(p)' /\ Below(p, nextVersion)
  BY <1>1, <1>11, <1>12 DEF VersionsInv, Seen
<1>14. \A t \in ScanWorker : ScanSound(scan[t])'
  <2>1. ScanSound(new)'
    BY <1>1, <1>2, <1>3, <1>5 DEF ScanSound, Saving, Saved
  <2>2. \A t \in ScanWorker : t # s => ScanSound(scan[t])'
    BY <1>7, <1>10 DEF ScanSound, Saving, Saved
  <2> QED
    BY <1>7, <2>1, <2>2
<1>15. VersionsInv'
  BY <1>1, <1>10, <1>13, <1>14 DEF VersionsInv, Active
<1>16. \A p \in Pair : Held(p) => AtMost(p, old.content)
  BY <1>2, <1>3 DEF Below, AtMost
<1>17. /\ published \in Pair /\ loadedStamp \in Pair /\ Held(published) /\ Held(loadedStamp)
       /\ \A q \in Refresher : refresh[q].known \in Pair /\ Held(refresh[q].known)
  BY DEF TypeOK, Call, Held
<1>18. published' # None
  BY <1>1, <1>2, <1>3, <1>17 DEF Below, None
<1>19. \A r \in Refresher : ~InFlight(r)' /\ refresh'[r].at # "loading"
  BY <1>1, <1>10 DEF InFlight
<1>20. OrderInv'
  BY <1>1, <1>16, <1>17, <1>18, <1>19, Parts DEF OrderInv, InFlight
<1> QED
  BY <1>9, <1>15, <1>20

LEMMA ScanRecordKeeps ==
  ASSUME TypeOK, LocksInv, VersionsInv, OrderInv, NEW s \in ScanWorker, ScanRecordsStamp(s)
  PROVE  LocksInv' /\ VersionsInv' /\ OrderInv'
<1> DEFINE old == scan[s]
<1>1. /\ UNCHANGED <<disk, nextVersion, refresh, published, writer>>
      /\ old.at = "stamping" /\ loadedStamp' = old.saved /\ OpenGate(s) /\ Unlock(s)
      /\ scan' = [scan EXCEPT ![s] = NotScanning]
  BY DEF ScanRecordsStamp, EndScan
<1>2. old \in ScanState /\ ScanSound(old) /\ NotScanning \in ScanState /\ NotScanning.at = "idle"
  BY Pairs DEF TypeOK, ScanState, VersionsInv, NotScanning
<1>3. old.saved \in {None, published}
  BY <1>1, <1>2 DEF ScanSound
<1>4. lock = s /\ gate = s
  BY <1>1 DEF LocksInv
<1>5. LocksInv'
  BY <1>1, <1>2, ScanLocks
<1>6. /\ \A w \in Writer : ~Active(w)
      /\ \A t \in ScanWorker : t # s => scan[t].at = "idle"
      /\ \A r \in Refresher : refresh[r].at \notin {"loading", "orphan"} /\ ~InFlight(r)
  BY <1>4, ScanAlone, PublishesAlone, Parts
<1>7. \A t \in ScanWorker : scan'[t].at = "idle"
  BY <1>1, <1>2, <1>6 DEF TypeOK
<1>8. \A p \in Pair : Held(p)' => Held(p) \/ p = None
  BY <1>1, <1>3 DEF Held
<1>9. Seen(None) /\ Below(None, nextVersion)
  BY Pairs, CatalogReloadAssumption DEF TypeOK, Seen, Below, None
<1>10. \A p \in Pair : Held(p)' => Seen(p)' /\ Below(p, nextVersion)
  BY <1>1, <1>8, <1>9 DEF VersionsInv, Seen
<1>11. \A t \in ScanWorker : ScanSound(scan[t])'
  BY <1>7 DEF ScanSound, Saving, Saved
<1>12. VersionsInv'
  BY <1>1, <1>6, <1>10, <1>11 DEF VersionsInv, Active
<1>13. published \in Pair /\ Gone(None)' /\ AtMost(None, published) /\ AtMost(published, published)
  BY Pairs DEF TypeOK, Gone, AtMost, None
<1>14. \A r \in Refresher : ~InFlight(r)' /\ refresh'[r].at # "loading"
  BY <1>1, <1>6 DEF InFlight
<1>15. OrderInv'
  BY <1>1, <1>3, <1>13, <1>14, Parts DEF OrderInv, InFlight
<1> QED
  BY <1>5, <1>12, <1>15

LEMMA NextKeeps ==
  ASSUME IInv, Next
  PROVE  IInv'
<1> USE DEF IInv
<1>1. ASSUME NEW w \in Writer, BeginWrite(w) \/ WriterStep(w)
      PROVE  IInv'
  BY <1>1, WriterTyped, WritersKeep
<1>2. CASE RemoveCatalog
  BY <1>2, OthersTyped, RemovalKeeps
<1>3. CASE (\E j \in Job : StartRefresh(j)) \/ StopWatcher \/ OrphanLocks \/ OrphanEnds
  BY <1>3, OthersTyped, OtherCallsKeep
<1>4. ASSUME NEW r \in Refresher, EnterGate(r) \/ RefreshStep(r) \/ LockFails(r)
      PROVE  IInv'
  BY <1>4, RefreshTyped, CallActionsKeep DEF RefreshStep
<1>5. ASSUME NEW s \in ScanWorker,
             BeginScan(s) \/ ScanStep(s) \/ ScanEntersGate(s) \/ AbandonScan(s)
      PROVE  IInv'
  <2>1. TypeOK'
    BY <1>5, ScanTyped
  <2>2. LocksInv' /\ VersionsInv' /\ OrderInv'
    BY <1>5, QuietScans, WritingScans, ScanPublishKeeps, ScanRecordKeeps DEF ScanStep
  <2> QED
    BY <2>1, <2>2
<1> QED
  BY <1>1, <1>2, <1>3, <1>4, <1>5 DEF Next

LEMMA StutterKeeps ==
  ASSUME IInv, UNCHANGED vars
  PROVE  IInv'
<1>1. TypeOK'
  BY DEF IInv, TypeOK, vars
<1>2. LocksInv'
  BY DEF IInv, LocksInv, Active, vars
<1>3. \A p \in Pair : (Held(p)' <=> Held(p)) /\ (Seen(p)' <=> Seen(p)) /\ (Gone(p)' <=> Gone(p))
  BY DEF vars, Held, Seen, Gone
<1>4. VersionsInv'
  BY <1>3 DEF IInv, VersionsInv, Active, Below, ScanSound, vars
<1>5. OrderInv'
  BY <1>3, OrderKept DEF IInv, vars
<1> QED
  BY <1>1, <1>2, <1>4, <1>5 DEF IInv

\* Everything a refresh and a scan rely on holds throughout: whoever writes the
\* documents writes a version that nobody has read, and what is published is never
\* older than what anybody takes for loaded.
THEOREM CatalogInvariant == Spec => []IInv
<1>1. IInv /\ [Next]_vars => IInv'
  BY NextKeeps, StutterKeeps
<1> QED
  BY Started, <1>1, PTL DEF Spec
-----------------------------------------------------------------------------
(***************************************************************************)
(* What follows.                                                           *)
(***************************************************************************)

\* The variables keep their types, for any number of processes, saves and errors.
THEOREM TypeCorrect == Spec => []TypeOK
<1>1. IInv => TypeOK
  BY DEF IInv
<1> QED
  BY CatalogInvariant, <1>1, PTL

LEMMA HolderIsPrivate ==
  ASSUME IInv, NEW version \in Unfinished
  PROVE  \A p \in Pair : Held(p) => Below(p, version)
  BY DEF IInv, Unfinished, VersionsInv, Active, ScanSound, Saving

\* Nothing that a writer or a scan has put on disk is published, or about to be,
\* while it still holds the store lock: refresh_catalog reads the documents under it.
THEOREM SnapshotsArePrivate == Spec => []SnapshotStaysPrivate
<1>1. ASSUME IInv, NEW version \in Unfinished
      PROVE  /\ published[2] # version
             /\ \A r \in Refresher : refresh[r].content[2] # version
  <2>1. /\ published \in Pair /\ Held(published)
        /\ \A r \in Refresher : refresh[r].content \in Pair /\ Held(refresh[r].content)
    BY <1>1 DEF IInv, TypeOK, Call, Held
  <2>2. version \in Nat /\ \A p \in Pair : p[2] \in Nat
    BY <1>1, Pairs DEF IInv, TypeOK, Unfinished
  <2>3. \A p \in Pair : Held(p) => p[2] # version
    BY <1>1, <2>2, HolderIsPrivate DEF Below
  <2> QED
    BY <2>1, <2>3
<1>2. IInv => SnapshotStaysPrivate
  BY <1>1 DEF SnapshotStaysPrivate
<1> QED
  BY CatalogInvariant, <1>2, PTL

\* Between publications, a server that takes the catalog on disk for loaded has
\* published it: the stamp is recorded after the catalog, under the reload gate.
THEOREM BeliefIsCurrent == Spec => []BelievedCurrent
<1>1. ASSUME IInv, loadedStamp = Stamp, Loadable
      PROVE  published = Stamp
  <2>1. disk.catalog # 0 /\ Stamp = <<disk.catalog, disk.conclusions>>
    BY <1>1 DEF Loadable, Stamp
  <2>2. disk.catalog \in Nat /\ disk.conclusions \in Nat /\ published \in Pair
        /\ published = <<published[1], published[2]>>
        /\ published[1] \in Nat /\ published[2] \in Nat
    BY <1>1, Pairs DEF IInv, TypeOK
  <2>3. Seen(published)
    BY <1>1, <2>2 DEF IInv, VersionsInv, Held
  <2>4. ~Gone(loadedStamp)
    BY <1>1, <2>1 DEF Gone
  <2>5. AtMost(loadedStamp, published)
    BY <1>1, <2>4 DEF IInv, OrderInv
  <2>6. published[1] = disk.catalog /\ published[2] = disk.conclusions
    BY <1>1, <2>1, <2>2, <2>3, <2>5 DEF AtMost, Seen
  <2> QED
    BY <2>1, <2>2, <2>6
<1>2. IInv => BelievedCurrent
  BY <1>1 DEF BelievedCurrent
<1> QED
  BY CatalogInvariant, <1>2, PTL
LEMMA PublishedKeeps ==
  ASSUME Next, published' # published
  PROVE  (\E r \in Refresher : Publish(r)) \/ \E s \in ScanWorker : ScanPublishes(s)
<1>1. ASSUME NEW w \in Writer, BeginWrite(w) \/ WriterStep(w)
      PROVE  published' = published
  BY <1>1 DEF BeginWrite, WriterStep, RenameConclusions, RenameCatalog, EndWrite, serverVars
<1>2. RemoveCatalog \/ (\E j \in Job : StartRefresh(j)) \/ StopWatcher \/ OrphanLocks \/ OrphanEnds
        => published' = published
  BY DEF RemoveCatalog, StartRefresh, StopWatcher, OrphanLocks, OrphanEnds, serverVars
<1>3. ASSUME NEW r \in Refresher, EnterGate(r) \/ RefreshStep(r) \/ LockFails(r), ~Publish(r)
      PROVE  published' = published
  BY <1>3 DEF EnterGate, RefreshStep, CompareLoaded, TryLock, Load, RecordStamp, ReportFailure,
              LockFails
<1>4. ASSUME NEW s \in ScanWorker, ~ScanPublishes(s),
             BeginScan(s) \/ ScanStep(s) \/ ScanEntersGate(s) \/ AbandonScan(s)
      PROVE  published' = published
  BY <1>4 DEF BeginScan, ScanStep, ScanSavesConclusions, ScanSavesCatalog, FailScan, ScanLoads,
              ReturnScan, ScanRecordsStamp, ScanEntersGate, AbandonScan
<1> QED
  BY <1>1, <1>2, <1>3, <1>4 DEF Next

\* Readers never see the published catalog go back to an older revision, whichever
\* of a refresh and a scan comes last: each publishes under the reload gate what
\* it has read under the store lock.
THEOREM NeverGoesBack == Spec => NoRegression
<1>1. ASSUME IInv, Next, published # None, published' # None, published' # published
      PROVE  AtMost(published, published')
  <2>1. ASSUME NEW r \in Refresher, Publish(r)
        PROVE  AtMost(published, published')
    <3>1. InFlight(r) /\ published' = refresh[r].content
      BY <2>1 DEF Publish, InFlight
    <3> QED
      BY <1>1, <3>1 DEF IInv, OrderInv
  <2>2. ASSUME NEW s \in ScanWorker, ScanPublishes(s)
        PROVE  AtMost(published, published')
    <3>1. scan[s].at = "publishing" /\ published' = scan[s].content /\ ScanSound(scan[s])
      BY <1>1, <2>2 DEF ScanPublishes, IInv, VersionsInv
    <3>2. published \in Pair /\ Held(published) /\ scan[s].version \in Nat
      BY <1>1, Pairs DEF IInv, TypeOK, Held
    <3>3. /\ published' = <<scan[s].version, scan[s].version>>
          /\ Below(published, scan[s].version)
      BY <3>1, <3>2 DEF ScanSound, Saved, Saving
    <3> QED
      BY <3>2, <3>3, Pairs DEF Below, AtMost
  <2> QED
    BY <1>1, <2>1, <2>2, PublishedKeeps
<1>2. ASSUME IInv, published' = published
      PROVE  NeverOlder
  <2>1. published[1] \in Nat /\ published[2] \in Nat
    BY <1>2, Pairs DEF IInv, TypeOK
  <2> QED
    BY <1>2, <2>1 DEF NeverOlder
<1>3. IInv /\ [Next]_vars => [NeverOlder]_vars
  <2>1. ASSUME IInv, Next
        PROVE  NeverOlder
    BY <1>1, <1>2, <2>1 DEF NeverOlder, AtMost
  <2> QED
    BY <2>1
<1> QED
  BY CatalogInvariant, <1>3, PTL DEF Spec, NoRegression

LEMMA CallsStay ==
  ASSUME TypeOK, Next, NEW j \in Job, refresh'[j] # refresh[j], refresh'[j].at = "ended"
  PROVE  EnterGate(j) \/ RefreshStep(j) \/ LockFails(j)
<1>1. ASSUME NEW w \in Writer, BeginWrite(w) \/ WriterStep(w)
      PROVE  refresh' = refresh
  BY <1>1 DEF BeginWrite, WriterStep, RenameConclusions, RenameCatalog, EndWrite, serverVars
<1>2. RemoveCatalog => refresh' = refresh
  BY DEF RemoveCatalog, serverVars
<1>3. ASSUME NEW i \in Job, StartRefresh(i)
      PROVE  FALSE
  <2>1. i # j => refresh'[j] = refresh[j]
    BY <1>3, Parts DEF StartRefresh, TypeOK
  <2>2. i = j => refresh'[j].at = "gate"
    BY <1>3, Parts DEF StartRefresh, TypeOK, Call
  <2> QED
    BY <2>1, <2>2
<1>4. StopWatcher \/ OrphanLocks \/ OrphanEnds => refresh'[j] = refresh[j]
  BY Parts DEF StopWatcher, OrphanLocks, OrphanEnds, TypeOK
<1>5. ASSUME NEW r \in Refresher, EnterGate(r) \/ RefreshStep(r) \/ LockFails(r), r # j
      PROVE  refresh'[j] = refresh[j]
  BY <1>5, Parts DEF EnterGate, RefreshStep, CompareLoaded, TryLock, Load, Publish, RecordStamp,
              ReportFailure, LockFails, Return, TypeOK
<1>6. ASSUME NEW s \in ScanWorker,
             BeginScan(s) \/ ScanStep(s) \/ ScanEntersGate(s) \/ AbandonScan(s)
      PROVE  refresh' = refresh
  BY <1>6 DEF BeginScan, ScanStep, ScanSavesConclusions, ScanSavesCatalog, FailScan, ScanLoads,
              ReturnScan, ScanPublishes, ScanRecordsStamp, ScanEntersGate, AbandonScan
<1> QED
  BY <1>1, <1>2, <1>3, <1>4, <1>5, <1>6, Parts DEF Next

LEMMA ReturnEnds ==
  ASSUME TypeOK, NEW r \in Refresher, NEW call \in Call,
         NEW result \in {"current", "busy", "failed"}, Return(r, call, result)
  PROVE  refresh'[r].result = result
<1>1. PICK new : new = [call EXCEPT !.at = IF r = Watcher THEN "gate" ELSE "ended",
                          !.result = result, !.stamp = None, !.content = None]
  OBVIOUS
<1>2. new.result = result
  BY <1>1 DEF Call
<1>3. refresh' = [refresh EXCEPT ![r] = new]
  BY <1>1 DEF Return
<1> QED
  BY <1>2, <1>3 DEF TypeOK

\* A job whose refresh ends without another writer or an error in its way, and
\* finds a catalog on disk, ends with its own save, or a later one, published.
THEOREM JobsSeeTheirSaves == Spec => JobSeesItsSave
<1>1. ASSUME IInv, Next, NEW j \in Job, EndsCurrent(j), disk.catalog # 0, published' # None
      PROVE  published'[1] >= writer[j].version
  <2> DEFINE old == refresh[j]
  <2>1. /\ j \in Refresher /\ j \in Writer /\ j # Watcher /\ TypeOK /\ old \in Call
        /\ Stamp \in Pair /\ loadedStamp \in Pair /\ published \in Pair
    BY <1>1, Parts, Pairs DEF IInv, TypeOK
  <2>2. refresh'[j].at = "ended" /\ refresh'[j].result = "current" /\ refresh'[j] # old
    BY <1>1 DEF EndsCurrent
  <2>3. EnterGate(j) \/ RefreshStep(j) \/ LockFails(j)
    BY <1>1, <2>1, <2>2, CallsStay
  <2>4. old.at # "waiting"
    BY <2>3 DEF EnterGate, RefreshStep, CompareLoaded, TryLock, Load, Publish, RecordStamp,
                ReportFailure, LockFails
  <2>5. disk.catalog >= writer[j].version /\ writer[j].version \in Nat /\ disk.catalog \in Nat
    <3>1. writer[j].at = "exited"
      BY <1>1, <2>4 DEF IInv, LocksInv
    <3> QED
      BY <1>1, <2>1, <3>1, Pairs DEF IInv, VersionsInv, TypeOK
  <2>6. ASSUME Stamp \in {old.known, loadedStamp}, published' = published
        PROVE  published'[1] >= writer[j].version
    <3>1. Stamp[1] = disk.catalog
      BY <1>1 DEF Stamp
    <3>2. AtMost(Stamp, published)
      BY <1>1, <2>1, <2>6 DEF IInv, OrderInv
    <3>3. published[1] \in Nat
      BY <2>1, Pairs
    <3> QED
      BY <2>5, <2>6, <3>1, <3>2, <3>3 DEF AtMost
  <2>7. CASE EnterGate(j)
    <3>1. published' = published
      BY <2>7 DEF EnterGate
    <3>2. Stamp = old.known
      BY <2>1, <2>2, <2>7 DEF EnterGate, TypeOK, Call
    <3> QED
      BY <2>6, <3>1, <3>2
  <2>8. CASE CompareLoaded(j)
    <3>1. published' = published
      BY <2>8 DEF CompareLoaded
    <3>2. Stamp = loadedStamp
      BY <2>1, <2>2, <2>8 DEF CompareLoaded, TypeOK, Call
    <3> QED
      BY <2>6, <3>1, <3>2
  <2>9. CASE TryLock(j)
    <3>1. published' = published
      BY <2>9 DEF TryLock
    <3>2. ~Return(j, old, "busy")
      BY <2>1, <2>2, ReturnEnds
    <3>3. Stamp = old.known
      <4>1. CASE Stamp = old.known
        BY <4>1
      <4>2. CASE refresh' = [refresh EXCEPT ![j].at = "loading", ![j].stamp = Stamp]
        BY <2>1, <2>2, <4>2 DEF TypeOK, Call
      <4> QED
        BY <2>9, <3>2, <4>1, <4>2 DEF TryLock
    <3> QED
      BY <2>6, <3>1, <3>3
  <2>10. CASE RecordStamp(j)
    <3>1. old.at = "stamping" /\ published' = published
      BY <2>10 DEF RecordStamp
    <3>2. InFlight(j) /\ published = old.content
      BY <1>1, <2>1, <3>1 DEF InFlight, IInv, OrderInv
    <3> QED
      BY <1>1, <3>1, <3>2 DEF IInv, OrderInv
  <2>11. CASE ReportFailure(j)
    <3>1. PICK mid : mid = [old EXCEPT !.reported = ReportedAs(j)]
      OBVIOUS
    <3>2. mid \in Call /\ Return(j, mid, "failed")
      BY <2>1, <2>11, <3>1 DEF ReportFailure, ReportedAs, Call
    <3> QED
      BY <2>1, <2>2, <3>2, ReturnEnds
  <2>12. CASE Load(j) \/ Publish(j) \/ LockFails(j)
    <3>1. refresh'[j].at \in {"publishing", "reporting", "stamping"}
      BY <2>1, <2>12 DEF Load, Publish, LockFails, TypeOK, Call
    <3> QED
      BY <2>2, <3>1
  <2> QED
    BY <2>3, <2>7, <2>8, <2>9, <2>10, <2>11, <2>12 DEF RefreshStep
<1>2. IInv /\ [Next]_vars => [SavesAreSeen]_vars
  BY <1>1 DEF SavesAreSeen
<1> QED
  BY CatalogInvariant, <1>2, PTL DEF Spec, JobSeesItsSave
-----------------------------------------------------------------------------
(***************************************************************************)
(* No lock is left behind.                                                 *)
(***************************************************************************)
LockUser(p) ==
  \/ p \in Writer /\ Active(p)
  \/ p \in Refresher /\ refresh[p].at \in {"loading", "orphan"}
  \/ p \in ScanWorker /\ scan[p].at # "idle"
GateUser(p) ==
  \/ p \in Refresher /\ refresh[p].at \in Gated
  \/ p \in ScanWorker /\ scan[p].at \in {"publishing", "stamping"}
Users ==
  /\ lock # Free => LockUser(lock)
  /\ gate # Free => GateUser(gate)
  /\ refresh[Watcher].at \in {"leaving", "orphan"} => stopped

\* A call that ends, takes or keeps a lock, and is at the step for it.
LEMMA CallUses ==
  ASSUME TypeOK, LocksInv, Users, NEW r \in Refresher, NEW at,
         refresh'[r].at = at, stopped' = stopped,
         at \in {"leaving", "orphan"} => refresh[r].at \in {"leaving", "orphan"},
         \A q \in Refresher : q # r => refresh'[q] = refresh[q],
         UNCHANGED <<writer, scan>>,
         \/ lock' = r /\ at \in {"loading", "orphan"}
         \/ Unlock(r) /\ (r \in Job => refresh[r].at # "waiting")
         \/ lock' = lock /\ refresh[r].at \notin {"loading", "orphan"},
         \/ gate' = r /\ at \in Gated
         \/ gate' = gate /\ (refresh[r].at \notin Gated \/ at \in Gated)
         \/ gate' = (IF gate = r THEN Free ELSE gate)
  PROVE  Users'
<1>1. lock' # Free => LockUser(lock)'
  <2>1. CASE lock' = r /\ at \in {"loading", "orphan"}
    BY <2>1 DEF LockUser
  <2>2. CASE Unlock(r)
    BY <2>2 DEF Users, LockUser, Unlock, Active
  <2>3. CASE lock' = lock /\ refresh[r].at \notin {"loading", "orphan"}
    BY <2>3 DEF Users, LockUser, Active
  <2> QED BY <2>1, <2>2, <2>3
<1>2. gate' # Free => GateUser(gate)'
  <2>1. CASE gate' = r /\ at \in Gated
    BY <2>1 DEF GateUser
  <2>2. CASE gate' = gate /\ (refresh[r].at \notin Gated \/ at \in Gated)
    BY <2>2 DEF Users, GateUser
  <2>3. CASE gate' = (IF gate = r THEN Free ELSE gate)
    BY <2>3 DEF Users, GateUser
  <2> QED BY <2>1, <2>2, <2>3
<1>3. refresh'[Watcher].at \in {"leaving", "orphan"} => stopped'
  BY Parts DEF Users
<1> QED BY <1>1, <1>2, <1>3 DEF Users

LEMMA ReturnUses ==
  ASSUME TypeOK, LocksInv, Users, NEW r \in Refresher, NEW call \in Call, NEW result,
         Return(r, call, result), UNCHANGED <<writer, scan, stopped>>, lock' = lock,
         refresh[r].at \notin {"loading", "orphan"}, gate \in {Free, r}
  PROVE  Users'
<1>1. PICK at : /\ refresh'[r].at = at /\ at \in {"gate", "ended"}
                /\ \A q \in Refresher : q # r => refresh'[q] = refresh[q]
  BY DEF Return, TypeOK, Call
<1>2. gate' = IF gate = r THEN Free ELSE gate
  BY DEF Return
<1> QED
  BY <1>1, <1>2, CallUses

LEMMA CallsUse ==
  ASSUME TypeOK, LocksInv, Users, NEW r \in Refresher,
         EnterGate(r) \/ RefreshStep(r) \/ LockFails(r)
  PROVE  Users'
<1>1. refresh[r] \in Call /\ (refresh[r].at \in Gated => gate = r)
  BY DEF TypeOK, LocksInv
<1>2. CASE EnterGate(r)
  <2>1. CASE Return(r, refresh[r], "current")
    BY <1>1, <1>2, <2>1, ReturnUses DEF EnterGate, diskVars
  <2>2. CASE gate' = r /\ refresh' = [refresh EXCEPT ![r].at = "second"]
    <3>1. refresh'[r].at = "second" /\ \A q \in Refresher : q # r => refresh'[q] = refresh[q]
      BY <1>1, <2>2 DEF TypeOK, Call
    <3> QED BY <1>2, <2>2, <3>1, CallUses DEF EnterGate, diskVars, Gated
  <2> QED BY <1>2, <2>1, <2>2 DEF EnterGate
<1>3. CASE CompareLoaded(r)
  <2>1. CASE Return(r, [refresh[r] EXCEPT !.known = loadedStamp], "current")
    <3>1. [refresh[r] EXCEPT !.known = loadedStamp] \in Call
      BY <1>1 DEF TypeOK, Call
    <3> QED BY <1>1, <1>3, <2>1, <3>1, ReturnUses DEF CompareLoaded, diskVars, Gated
  <2>2. CASE gate' = gate /\ refresh' = [refresh EXCEPT ![r].at = "locking"]
    <3>1. refresh'[r].at = "locking" /\ \A q \in Refresher : q # r => refresh'[q] = refresh[q]
      BY <1>1, <2>2 DEF TypeOK, Call
    <3> QED BY <1>3, <2>2, <3>1, CallUses DEF CompareLoaded, diskVars, Gated
  <2> QED BY <1>3, <2>1, <2>2 DEF CompareLoaded
<1>4. CASE TryLock(r)
  <2>1. CASE lock' = lock /\ \E result : Return(r, refresh[r], result)
    BY <1>1, <1>4, <2>1, ReturnUses DEF TryLock, Gated
  <2>2. CASE lock' = r /\ gate' = gate
             /\ refresh' = [refresh EXCEPT ![r].at = "loading", ![r].stamp = Stamp]
    <3>1. refresh'[r].at = "loading" /\ \A q \in Refresher : q # r => refresh'[q] = refresh[q]
      BY <1>1, <2>2 DEF TypeOK, Call
    <3> QED BY <1>4, <2>2, <3>1, CallUses DEF TryLock, Gated
  <2> QED BY <1>4, <2>1, <2>2 DEF TryLock
<1>5. CASE LockFails(r)
  <2>1. refresh'[r].at = "reporting" /\ \A q \in Refresher : q # r => refresh'[q] = refresh[q]
    BY <1>1, <1>5 DEF LockFails, TypeOK, Call
  <2> QED BY <1>5, <2>1, CallUses DEF LockFails, Gated
<1>6. CASE Load(r)
  <2>1. PICK at : /\ refresh'[r].at = at /\ at \in {"publishing", "reporting"}
                  /\ \A q \in Refresher : q # r => refresh'[q] = refresh[q]
    BY <1>1, <1>6 DEF Load, TypeOK, Call
  <2> QED BY <1>6, <2>1, CallUses DEF Load, Gated
<1>7. CASE Publish(r)
  <2>1. refresh'[r].at = "stamping" /\ \A q \in Refresher : q # r => refresh'[q] = refresh[q]
    BY <1>1, <1>7 DEF Publish, TypeOK, Call
  <2> QED BY <1>7, <2>1, CallUses DEF Publish, Gated, diskVars
<1>8. CASE RecordStamp(r)
  <2>1. PICK call : /\ call = [refresh[r] EXCEPT !.known = StampOfLoaded(r), !.reported = Nothing]
                    /\ Return(r, call, "current")
    BY <1>8 DEF RecordStamp
  <2>2. call \in Call
    BY <1>1, <2>1 DEF Call, StampOfLoaded
  <2> QED BY <1>1, <1>8, <2>1, <2>2, ReturnUses DEF RecordStamp, diskVars, Gated
<1>9. CASE ReportFailure(r)
  <2>1. PICK call : /\ call = [refresh[r] EXCEPT !.reported = ReportedAs(r)]
                    /\ Return(r, call, "failed")
    BY <1>9 DEF ReportFailure
  <2>2. call \in Call
    BY <1>1, <2>1, Pairs DEF Call, ReportedAs, TypeOK
  <2> QED BY <1>1, <1>9, <2>1, <2>2, ReturnUses DEF ReportFailure, diskVars, Gated
<1> QED
  BY <1>2, <1>3, <1>4, <1>5, <1>6, <1>7, <1>8, <1>9 DEF RefreshStep

LEMMA ScansUse ==
  ASSUME TypeOK, LocksInv, Users, NEW s \in ScanWorker,
         BeginScan(s) \/ ScanStep(s) \/ ScanEntersGate(s) \/ AbandonScan(s)
  PROVE  Users'
<1>1. /\ scan[s] \in ScanState /\ NotScanning \in ScanState
      /\ \A x : scan' = [scan EXCEPT ![s] = x] =>
                  scan'[s] = x /\ \A t \in ScanWorker : t # s => scan'[t] = scan[t]
  BY Pairs DEF TypeOK, ScanState, NotScanning
<1>2. PICK at : scan'[s].at = at /\ \A t \in ScanWorker : t # s => scan'[t] = scan[t]
  <2>1. PICK x : scan' = [scan EXCEPT ![s] = x]
    BY DEF BeginScan, ScanStep, ScanEntersGate, AbandonScan, ScanSavesConclusions, ScanSavesCatalog,
           FailScan, ScanLoads, ReturnScan, ScanPublishes, ScanRecordsStamp, EndScan
  <2> QED BY <1>1, <2>1
<1>3. UNCHANGED <<writer, refresh, stopped>>
  BY DEF BeginScan, ScanStep, ScanEntersGate, AbandonScan, ScanSavesConclusions, ScanSavesCatalog,
         FailScan, ScanLoads, ReturnScan, ScanPublishes, ScanRecordsStamp
<1>4. \/ Unlock(s)
      \/ at # "idle" /\ lock' \in {lock, s}
      \/ at = scan[s].at /\ lock' = lock
  <2>1. CASE FailScan(s) \/ ScanRecordsStamp(s)
    BY <2>1 DEF FailScan, ScanRecordsStamp, EndScan
  <2>2. CASE EndScan(s)
    BY <2>2 DEF EndScan
  <2>3. CASE ReturnScan(s) /\ ~EndScan(s)
    BY <1>1, <1>2, <2>3 DEF ReturnScan, ScanState
  <2>4. CASE AbandonScan(s) /\ ~EndScan(s)
    BY <1>1, <1>2, <2>4 DEF AbandonScan, ScanState
  <2>5. CASE BeginScan(s)
    <3>1. PICK x : /\ scan' = [scan EXCEPT ![s] = x]
                   /\ x = [NotScanning EXCEPT !.at = "scanning", !.waiter = TRUE, !.version = nextVersion]
      BY <2>5 DEF BeginScan
    <3>2. x.at = "scanning"
      BY <3>1 DEF NotScanning
    <3> QED BY <1>1, <1>2, <2>5, <3>1, <3>2 DEF BeginScan
  <2>6. CASE ScanSavesConclusions(s)
    BY <1>1, <1>2, <2>6 DEF ScanSavesConclusions, ScanState
  <2>7. CASE ScanSavesCatalog(s)
    BY <1>1, <1>2, <2>7 DEF ScanSavesCatalog, ScanState
  <2>8. CASE ScanLoads(s)
    <3>1. PICK x : /\ scan' = [scan EXCEPT ![s] = x]
                   /\ x = [scan[s] EXCEPT !.at = "loaded", !.content = Stamp]
      BY <2>8 DEF ScanLoads
    <3>2. x.at = "loaded"
      BY <1>1, <3>1 DEF ScanState
    <3> QED BY <1>1, <1>2, <2>8, <3>1, <3>2 DEF ScanLoads
  <2>9. CASE ScanPublishes(s)
    BY <1>1, <1>2, <2>9 DEF ScanPublishes, ScanState
  <2>10. CASE ScanEntersGate(s)
    BY <1>1, <1>2, <2>10 DEF ScanEntersGate, ScanState
  <2> QED
    BY <2>1, <2>2, <2>3, <2>4, <2>5, <2>6, <2>7, <2>8, <2>9, <2>10 DEF ScanStep
<1>5. \/ OpenGate(s)
      \/ at \in {"publishing", "stamping"} /\ gate' \in {gate, s}
      \/ scan[s].at \notin {"publishing", "stamping"} /\ gate' = gate
  <2>1. CASE BeginScan(s) \/ ScanSavesConclusions(s) \/ ScanSavesCatalog(s) \/ FailScan(s)
    BY <2>1 DEF BeginScan, ScanSavesConclusions, ScanSavesCatalog, FailScan
  <2>2. CASE ScanLoads(s) \/ ReturnScan(s) \/ AbandonScan(s) \/ ScanRecordsStamp(s)
    BY <2>2 DEF ScanLoads, ReturnScan, AbandonScan, ScanRecordsStamp
  <2>3. CASE ScanPublishes(s) \/ ScanEntersGate(s)
    <3>1. \E x : at = x.at /\ x.at \in {"publishing", "stamping"}
      BY <1>1, <1>2, <2>3 DEF ScanPublishes, ScanEntersGate, ScanState
    <3> QED BY <2>3, <3>1 DEF ScanPublishes, ScanEntersGate
  <2> QED BY <2>1, <2>2, <2>3 DEF ScanStep
<1>6. lock' # Free => LockUser(lock)'
  BY <1>2, <1>3, <1>4 DEF Users, LockUser, Active, Unlock
<1>7. gate' # Free => GateUser(gate)'
  BY <1>2, <1>3, <1>5 DEF Users, GateUser, OpenGate
<1> QED BY <1>3, <1>6, <1>7 DEF Users

LEMMA WritersUse ==
  ASSUME TypeOK, LocksInv, Users, NEW w \in Writer, BeginWrite(w) \/ WriterStep(w)
  PROVE  Users'
<1>1. /\ UNCHANGED <<gate, scan, refresh, stopped>>
      /\ \A v \in Writer : v # w => writer'[v] = writer[v]
  BY DEF BeginWrite, WriterStep, RenameConclusions, RenameCatalog, EndWrite, serverVars, TypeOK
<1>2. (Active(w)' /\ lock' \in {lock, w}) \/ lock' = Free
  <2>1. CASE BeginWrite(w)
    BY <2>1 DEF BeginWrite, TypeOK, Active
  <2>2. CASE RenameConclusions(w)
    BY <2>2 DEF RenameConclusions, TypeOK, Active
  <2>3. CASE RenameCatalog(w)
    BY <2>3 DEF RenameCatalog, TypeOK, Active
  <2>4. CASE EndWrite(w)
    BY <2>4 DEF EndWrite
  <2> QED BY <2>1, <2>2, <2>3, <2>4 DEF WriterStep
<1>3. lock' # Free => LockUser(lock)'
  BY <1>1, <1>2 DEF Users, LockUser, Active
<1> QED BY <1>1, <1>3 DEF Users, GateUser

LEMMA OthersUse ==
  ASSUME TypeOK, LocksInv, Users,
         \/ RemoveCatalog \/ (\E j \in Job : StartRefresh(j))
         \/ StopWatcher \/ OrphanLocks \/ OrphanEnds \/ UNCHANGED vars
  PROVE  Users'
<1>1. CASE RemoveCatalog \/ UNCHANGED vars
  BY <1>1 DEF RemoveCatalog, serverVars, vars, Users, LockUser, GateUser, Active
<1>2. ASSUME NEW j \in Job, StartRefresh(j) PROVE Users'
  <2>1. j \in Refresher
    BY Parts
  <2>2. refresh'[j].at = "gate" /\ \A q \in Refresher : q # j => refresh'[q] = refresh[q]
    BY <1>2, <2>1 DEF StartRefresh, TypeOK, Call
  <2> QED
    BY <1>2, <2>1, <2>2, CallUses DEF StartRefresh, diskVars, Gated
<1>3. Watcher \in Refresher /\ Watcher \notin Job /\ refresh[Watcher] \in Call
  BY Parts, CatalogReloadAssumption DEF TypeOK
<1>4. CASE StopWatcher
  <2>1. PICK at : refresh' = [refresh EXCEPT ![Watcher].at = at]
                  /\ at = IF refresh[Watcher].at = "locking" THEN "leaving"
                          ELSE IF refresh[Watcher].at = "loading" THEN "orphan" ELSE "ended"
    BY <1>4 DEF StopWatcher
  <2>2. refresh'[Watcher].at = at /\ \A q \in Refresher : q # Watcher => refresh'[q] = refresh[q]
    BY <1>3, <2>1 DEF TypeOK, Call
  <2>3. /\ lock' = lock /\ UNCHANGED <<writer, scan>>
        /\ gate' = IF gate = Watcher THEN Free ELSE gate
    BY <1>4 DEF StopWatcher, diskVars
  <2>4. lock' # Free => LockUser(lock)'
    <3>1. CASE refresh[Watcher].at = "loading"
      BY <2>1, <2>2, <2>3, <3>1 DEF Users, LockUser, Active
    <3>2. refresh[Watcher].at # "orphan"
      BY <1>4 DEF Users, StopWatcher
    <3>3. CASE refresh[Watcher].at # "loading"
      BY <3>2, <2>2, <2>3, <3>3 DEF Users, LockUser, Active
    <3> QED BY <3>1, <3>3
  <2>5. gate' # Free => GateUser(gate)'
    BY <2>2, <2>3 DEF Users, GateUser
  <2>6. stopped'
    BY <1>4 DEF StopWatcher
  <2> QED BY <2>4, <2>5, <2>6 DEF Users
<1>5. CASE OrphanLocks
  <2>1. PICK at : /\ refresh' = [refresh EXCEPT ![Watcher].at = at]
                  /\ (lock' = Watcher /\ at = "orphan") \/ lock' = lock
    BY <1>5 DEF OrphanLocks, Gated
  <2>2. refresh'[Watcher].at = at /\ \A q \in Refresher : q # Watcher => refresh'[q] = refresh[q]
    BY <1>3, <2>1 DEF TypeOK, Call
  <2> QED
    BY <1>3, <1>5, <2>1, <2>2, CallUses DEF OrphanLocks, Gated
<1>6. CASE OrphanEnds
  <2>1. refresh'[Watcher].at = "ended" /\ \A q \in Refresher : q # Watcher => refresh'[q] = refresh[q]
    BY <1>3, <1>6 DEF OrphanEnds, TypeOK, Call
  <2> QED
    BY <1>3, <1>6, <2>1, CallUses DEF OrphanEnds, Gated
<1> QED BY <1>1, <1>2, <1>4, <1>5, <1>6

LEMMA UsersHold == Spec => []Users
<1>1. Init => Users
  BY Parts DEF Init, Users, NewCall
<1>2. IInv /\ Users /\ [Next]_vars => Users'
  BY CallsUse, ScansUse, WritersUse, OthersUse DEF IInv, Next
<1> QED
  BY <1>1, <1>2, CatalogInvariant, PTL DEF Spec

\* The store lock and the reload gate never leak: through errors, panics, an aborted
\* watcher and abandoned scans, whoever holds one is at a step that gives it back.
THEOREM LocksAreInUse == Spec => []LocksInUse
<1>1. Users => LocksInUse
  BY DEF Users, LockUser, GateUser, Active, Gated, LocksInUse
<1> QED
  BY <1>1, UsersHold, PTL
===============================================================================
