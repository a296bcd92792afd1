# Formal models of Aède

Aède is a music library manager in Rust. It has a command line (`aede-cli`), an
HTTP server (`aede-server`), the library core (`aede-core`), an audio queue and
preview player (`aede-audio`), signal processing (`aede-dsp`), accounts, network
devices, and a desktop host that owns a server process.

This directory holds TLA+ models of its concurrent parts, the TLC configurations
that check them on small instances, and proofs of their safety properties that
hold for every value of the constants. `PROJECT.json` maps every definition to
the lines that it models. Paths below are relative to the repository, with
`crates/` left out.

## 1. Inventory

### Modelled

| Component | State | Operations | Talks to |
|---|---|---|---|
| Administrative job registry, `aede-server/src/jobs.rs`, `job_check_progress.rs`, `state.rs` | up to 64 task records with status, cancellation flag, progress, decode snapshot, result; the count of active work; the next id | submit (take an id, then admit, evict and insert under the mutex), run, mark running, progress, late snapshot, cancel, finish, wait for all | the runtime (shutdown), `refresh_catalog`, the activity stream, commands |
| Bodyless scan, `admin.rs` | the reservation of an admission, a scan-activity guard, the store lock, the catalog it saved | reserve, scan and save, load, publish, announce; its HTTP waiter may be dropped at any await, also after the publication | registry, store lock, reload gate, events |
| Catalog publication, `runtime.rs` `refresh_catalog` and `watch_catalog`, `store_lock.rs` | the published catalog, `loaded_stamp`, `reload_gate`, the watcher's `known` and `reported_failure` | compare stamps, lock, load, publish, record the stamp, report | the two documents, every job, the scan |
| Catalog store, `aede-core/src/store.rs`, `atomic_file.rs` | `catalog.json`, `conclusions.json` | save (conclusions, then catalog, each by rename), load | all of the above, and commands run beside the server |
| Server lifetime, `runtime.rs` | serving, draining, waiting for jobs, stopped; the forced flag of a desktop owner | stop, drain, forced stop, wait for jobs | registry |
| PCM queue, `aede-audio/src/queue.rs`, `worker.rs`, `render.rs` | the ring, the counts of submitted and consumed samples, closed, failed, underruns, finished | write, close, render, snapshot, drained | the device callback |
| Local playback, `aede-audio/src/output.rs`, `aede-cli/src/commands/play_output.rs`, `play_session.rs` | whether the stream was started and is paused, the device's status | start, fill, pause, resume, drain, stall, fail, drop | PCM queue, cpal |
| Parental ledger, `aede-core/src/parental/leases.rs`, `storage.rs`, and its users `aede-server/src/parental/http.rs`, `parental/pcm.rs` | per account: a policy, settled intervals, at most 8 reservations; per PCM stream: its grant, what was sent, what was acknowledged | reserve, renew, release; activate, send, check, renew and close a stream; save a policy | the store lock, the wall clock, playback, the administrator |
| Interactive playback, `playback_interactive.rs`, `playback_interactive_store.rs`, `playback_api.rs`, `playback_api_history.rs` | per profile a lease and a stored state (session, revision, queue, cursor); per connection its state, the backup of a seek, an epoch's timeline and acknowledgements, the visits, a writer task with room for one write | claim or resume, announce, stream, acknowledge, checkpoint, seek, edit, stop, flush, hand the lease back | the store lock, the decoder, the listening history, other connections of the profile, `aede backup` and `aede restore` beside the server |
| Delegated commands, `delegation.rs`, `owned_process.rs` | at most 32 connections and 16 commands; `TaskRegistry` (cancellation flags, forced); a child process in a group of its own | accept, read the request, cancel another's task, admit, spawn, kill, reap, refresh the catalog, report | the event stream, the reload gate, the shutdown, the operating system |
| Event stream, `events.rs`, `shutdown.rs` | a broadcast of 32 events; per WebSocket a receiver and its phase | upgrade, subscribe, check the identity, read the snapshot, receive, check again, send, close | whoever publishes a catalog or runs a task, accounts and policies, the shutdown |

### Not modelled

| Component | State and operations | What is hard | Why, or when |
|---|---|---|---|
| Transport transitions, `aede-audio/src/transport.rs` | reset request and acknowledgement, the flushed counter | one side of a handshake between two threads | nothing in the repository uses it: the other side is not in this code |
| Accounts and sessions, `aede-server/src/auth.rs`, `aede-accounts` | accounts with revisions, sessions, epochs | a principal checked, awaited, and checked again | next |
| Desktop host, `desktop/core` | the owned process, its lease, its password in two stores | a stop that is not confirmed, a two-phase change | next |
| Network audio, `network_audio.rs` | one supervised playback per owner | stop against expiry | next |
| Acoustic features, `audio_features.rs` | the shared rows and their revision | warming against single publications | next |
| Shuffle and planning, `aede-core/src/playback/` | pure functions | fairness of the order, restarts | next, against a reference |
| User data | playlists, ratings, history: read, changed and saved under one lock | little: sequential | only the playback states, in `InteractivePlayback` |
| Library model, formats, DSP, Subsonic, user interfaces | data and I/O | sequential, or outside TLC's reach | no |

`PROJECT.json` "hazards" lists what is hardest to test in this code, at the line
where it bites, with the property that looks at it or the module that will.

## 2. Modules

```
Admission ──(INSTANCE: Jobs!Abstract)── Jobs ── MCJobs          CatalogReload ── MCCatalogReload
    │                                    │                          │
AdmissionProofs                      JobsProofs                 CatalogReloadProofs

PcmQueue ── MCPcmQueue
    │
PcmQueueProofs

ParentalLedger ── MCParentalLedger        EventStream ──(EXTENDS)── Delegation ── MCDelegation
    │                                           │                      │
ParentalLedgerProofs                                              DelegationProofs

InteractivePlayback ── MCInteractivePlayback
    │
InteractivePlaybackProofs ─(EXTENDS)─ InteractiveHistoryProofs
```

### Admission
What the registry promises: a set of owners holds admissions, each for a kind of
work; exclusive kinds are alone, singleton kinds unique, the number bounded. It
says nothing of records, threads or shutdown. `Jobs` implements it under
`held <- Admitted`: the live tasks and the reserved bodyless scans.

### Jobs
One action is one critical section of `JobRegistry.data`, or one stretch of a
future between two awaits.

| Code | Actions |
|---|---|
| `enqueue`: `next_task_id.fetch_add`, then `insert` under the mutex | `TakeTaskId`, `Insert`, `Refuse` (full, excluded, or closed) |
| `run_job` | `StartJob`, `BeginCommand`, `ReturnCommand`, `Refreshed`, `Finish`, `AnnounceEnd` |
| `enqueue_background` (acoustic extraction) | `StartMood`, `MoodProgress`, `ReturnCommand`, `Finish`, `AnnounceEnd` |
| `CheckRequest::report` | `ReportSnapshot`, possible until long after the end |
| the cancellation handler | `Cancel` |
| `SynchronousScanReservation` and `admin_scan` | `ReserveScan`, `ScanBusy`, `BeginScan`, `FailScan`, `ReturnScan`, `PublishScan`, `AbandonScan` |
| the owner's stop and the desktop monitor | `CloseOwner`, `ForceStop`, `MonitorForce` |
| `serve_connections`, `wait_for_jobs` | `BeginShutdown`, `Drained`, `ArmWait`, `CheckActive`, `Await`, `WakeWait`, `Exit` |

`wait_for_jobs` is in four steps because a `Notified` future exists before the
counter is read, and is awaited only after the mutex has been given back. What a
command does is a choice: exit code 0, another one, 130, an error, or a panic.
`events` records the notifications of each id; nobody in the program keeps them.

### CatalogReload
A version of the catalog with the conclusions beside it is a pair of numbers. A
stamp is the pair it was read from; a missing catalog has the stamp `None` each
time, as in the code.

| Code | Actions |
|---|---|
| `store::save` under the store lock | `BeginWrite`, `RenameConclusions`, `RenameCatalog`, `EndWrite` |
| a hand that deletes the catalog | `RemoveCatalog` |
| `refresh_catalog`, by the watcher and at the end of each job | `StartRefresh`, `EnterGate`, `CompareLoaded`, `TryLock` or `LockFails`, `Load`, `Publish`, `RecordStamp`, `ReportFailure` |
| the bodyless scan | `BeginScan`, `ScanSavesConclusions`, `ScanSavesCatalog`, `FailScan`, `EndScan`, `ScanLoads`, `ReturnScan`, `ScanEntersGate`, `ScanPublishes`, `ScanRecordsStamp` |
| the scan's waiter dropped at an await | `AbandonScan` |
| shutdown, which drops the watcher's future while its blocking task goes on | `StopWatcher`, `OrphanLocks`, `OrphanEnds` |

### PcmQueue
A frame is its position in the programme, so the ring is the interval from
`taken` to `published`. Every access of an atomic that the two threads share is
an action of its own: `PublishFrames` and `CountSubmitted` are two, and the
callback is `StartCallback`, `ReadStarted`, `CheckFailed`, `Render`,
`CountConsumed`, `ReadClosed`, `Judge`, and `EndReadsClosed`, `EndReadsRing` in
the preview. Each atomic has one writer, who stores with release ordering, and a
reader who loads with acquire ordering, so that an interleaving of the accesses
is all that the hardware can show. The variable `player` says who uses the queue:
the strict output (`exact`) and the ordinary one (`native`) of `aede play`, or
the preview player. In `aede play` the writing thread also polls the controls,
and waits there while paused; in the preview a pause comes from another thread.
`silence` records what would be heard; the program does not keep it.

### ParentalLedger
A second is its number, so a sorted union of intervals is a set of seconds and a
duration is a cardinality. A policy is given with its calendar resolved: for each
second its civil day and week, whether a window is open, and the budgets. Every
handler loads, changes and saves the row under the store lock, so it is one
action; what happens outside the lock is not in that action.

| Code | Actions |
|---|---|
| `POST` of a lease (`http.rs`) over `reserve`, `renew`, `settle` | `ReserveLease`, `RenewLease`, `ReleaseLease` |
| `Session::activate` | `Activate` |
| `Session::available`, the sending loop of `drive_inner` | `Send` |
| `Session::check`: the part without the lock, then the part under it | `Check`, then `Renew` (saved, or granted in memory and not saved) or `RenewRefused` |
| `Session::close` | `Close`, `CloseFails` |
| a restart of the server | `Crash` |
| the administrator's page; also a new catalog, which invalidates the same way | `SetPolicy` |

`make_room`, `prune` and `validate` are part of the actions that call them
(`MakeRoom`, `Prune`, `Valid`). `Check` and `Renew` are apart because a policy can
be saved, or another voice served, between the two. `heard` is a history of what
the account has really listened to: seconds that passed under an active
reservation, and audio that was transmitted ahead of them.

### InteractivePlayback
One profile, and the connections that want it. Frames are counted, tracks have
one length, and positions are saved in milliseconds, rounded down as
`frames_to_milliseconds` does; a queue is a sequence of occurrence numbers. An
action is a stretch of the session's task between two awaits, or one handler
under the store lock.

| Code | Actions |
|---|---|
| `ProfileLease::acquire`, `initial_state` | `Acquire`, `ReadProfile`, `Claim`, `GiveUp` |
| `announce`, `reset_ack`, the decoder's first frame | `Begin`, `DoNotBegin`, `Format`, `NoFormat` |
| `drive_inner` and the timeline | `SendTrack`, `SendAudio`, `SendTrackEnd`, `SendEof`, `Acknowledge` (with the checkpoint of every five seconds) |
| the end of an epoch in `run`: `accumulate`, `snapshot`, the control | `PlayedOut`, `Interrupted`, `Stop`, `Seek`, `Edit` |
| `Writer::save`, the writer task and `persist_snapshot` | `SendSave`, `Take`, `Publish`, `DoNotPublish`, `ControlSaved`, `ControlNotSaved` |
| the last save, the writer's drain, the deferred task | `Flushed`, `Release`, `Defer`, `ReleaseLate` |
| the end of the process | `Crash` |
| `aede backup` and `aede restore` beside it, `aede-cli/src/commands/backup.rs` | `BackUp`, `Restore` |

`heard` and `origins` are history: how often the client acknowledged each frame
of each occurrence, and the cursors that the decoder confirmed. So is `written`, the
state that a session stored last: a restore changes `disk` and not `written`. It
brings back any backup taken in this behaviour (`archives`), among them an earlier
checkpoint of the very session that plays, at the revision its writer knows, or no state, or
the state of another server. `BackUp` and `Restore` are one action each because
`aede-cli/src/main.rs` takes the store lock for the whole of both commands
(`holds_command_lock`), the lock that `persist_snapshot` takes for the read, the
comparison and the save.

### EventStream and Delegation
`EventStream` has the broadcast, the receivers and the WebSocket tasks; catalogs
are published under the reload gate by somebody, and an identity may be revoked
at any time. `Delegation` EXTENDS it: commands broadcast task events and are
among those who publish catalogs, and both parts see the one shutdown.

| Code | Actions |
|---|---|
| `upgrade_notifications`, `event_stream`, `await_notification` | `Upgrade`, `Subscribe`, `Confirm`, `ReadCatalog`, `Receive`, `CheckEvent`, `Tick`, `Send`, `Disconnect`, `StopStream` |
| `refresh_catalog` and the end of `admin_scan`, as a stream sees them | `PublishCatalog`, `AnnounceCatalog` |
| the scan's future, or the watcher, dropped at `loaded_stamp.write().await`, between the two | `AbandonCatalog` |
| `accept_commands_until` | `Connect`, `Accept`, `StopAccepting`, `Return` |
| `handle_command` up to the child | `RequestFails`, `Request`, `Cancel`, `Refuse`, `Admit`, `SpawnFails`, `Spawn` |
| the child and its descendants (outside) | `ChildEnds`, `DescendantsEnd` |
| `wait_for_command_until`, `terminate` | `Kill`, `KillZombie`, `Reap`, `WaitFails` |
| the rest of `handle_command` | `Unlist`, `RefreshNothing` or `Refresh` and `Refreshed`, `Report` |
| `TaskRegistry::force_stop`, `Sender::send` | `ForceStop`, `Shutdown` |

A check of an identity and the send that relies on it are two steps: an event is
`late` when it was broadcast, or the snapshot read, after the revocation.

## 3. Runs

| Run | Instance | What it asks |
|---|---|---|
| `jobs_safety` | two handlers, one bodyless scan, three ids, two active, two retained; generation and scan | does admission stay exact, do records live as long as their workers, are guards and events balanced, is a stopped server quiet? |
| `jobs_admission` | one handler, two bodyless scans, three ids, two active, two retained; generation and extraction | does the registry implement `Admission`? |
| `jobs_liveness` | one handler, one scan, two ids, one file, with a desktop owner; extraction and check | do jobs, shutdown and forced stop complete, and are final records final? |
| `catalog_safety` | watcher, one job, one command beside it, one scan, three versions, two removals, one lock error | does nothing half-written get published, does nothing go back, is what is believed loaded loaded, does a job see its save, does no lock leak? |
| `catalog_liveness` | the same without the command, and with one removal | does the server end with what is on disk published and announced, or reported, and do scans and the refreshes of jobs end, although the two locks are taken in both orders? |
| `catalog_removal`, `catalog_scan_stamp` | the smallest that show it | two ways in which a removal never reaches the readers (violations, section 6) |
| `pcm_queue` | the strict output, the ordinary one and the preview; a ring of two, programmes of 0, 1 and 3, buffers up to 3 | is silence never followed by music, is silence counted, is "complete" true, does playback end? |
| `parental_ledger` | three lease ids, one PCM stream, two slots, grants of 2, days of 1 and 2 and weeks of 3 seconds, retention of 4, a lax and a strict policy | does all listening stay charged, is no budget exceeded, does no stream lose its grant, can every lease be closed? |
| `interactive` | two connections, queues of up to two tracks of three frames, two frames to a millisecond, a window of two, one control, three revisions | does one session own the profile, does a checkpoint never run ahead of what was heard, is the history exact, is "saved" true? |
| `interactive_faults` | the same with queues of one track, one target, and two crashes, backups or restores | are writes stored in order, and does a writer replace only a state of the session and revision it knows? |
| `delegation` | two connections, one command, one stream with a broadcast of two, two catalogs, one slot each | is what is reported of a command true, does nothing survive the stop, is a stream up to date, is nothing sent after a revocation, does the stop end? |

Why these bounds are enough to be interesting:

- *Jobs.* A race needs two submitters, or one and the scan. Eviction needs one id
  more than records (`MaxTaskId` 3, `MaxRetained` 2). One file is enough for a
  snapshot, or the progress of an extraction, that comes after the end. `MaxActive` 2 lets two kinds meet at the limit.
  In `jobs_admission` generation races the bodyless scans, which have no record, in both
  orders; a scan and an extraction fill the two admissions, so that a second scan is refused by the
  limit alone; and a second extraction is refused by its own rule. The handler may hold
  a request while all of this changes, so one is enough.
  Handlers (in `jobs_admission` the scans) are symmetric; ids are not, they are ordered. The liveness run uses no
  symmetry.
- *CatalogReload.* A refresh and a scan that publish in either order need two
  saves beyond the first version. A deletion is possible between any two steps.
  Two of them, with a save in between, make two missing catalogs with equal
  stamps, which is what `JobSeesItsSave` excepts; liveness allows only one, since
  two are the subject of `catalog_removal`. More versions are left to the proofs.
- *PcmQueue.* A programme of 3 wraps a ring of 2; 1 never fills it; 0 is an
  empty source. Buffers are smaller than, equal to and larger than
  the ring. Counts of silence saturate at `MaxCounted`, which leaves zero and the
  comparisons of small counts exact. Proofs cover every other size.
- *ParentalLedger.* Two slots and three ids make eviction and a refusal happen;
  grants of 2 can be closed half-way, overlap, and end at a day's boundary;
  weeks begin at 0, 3 and 6, and the retention of 4 ends inside the run. Clients
  ask for 2 only: shorter grants come from budgets, windows and days. The strict
  policy closes one second and allows two seconds a week, and a policy that is
  made strict late finds a budget already exceeded. The ids are symmetric.
- *InteractivePlayback.* Three frames and two to a millisecond make positions
  that are rounded down and a last millisecond that is not whole; `Targets` has
  the beginning, the middle and a position after the end. A window of two lets
  an epoch be interrupted with audio sent and not acknowledged. Three revisions
  are a start, a control and a resume by the other connection, and reach
  `MaxExact`. `Steering` lets one client send controls; `MaxFaults` is zero in
  `interactive`. In `interactive_faults` it is two, for a backup and its restore: the
  older checkpoint of a running session comes back, and is replaced.
- *Delegation.* A broadcast of two overflows with the two events of a command.
  One slot of each kind makes refusals happen. The constraint `Bounded` of
  `MCDelegation` splits the instance in three: two connections while no stream
  has been opened and no catalog published; one connection with a scan, a stream
  and a catalog; a stream alone with two catalogs. It cuts only steps that
  nothing obliges, or that a fair action can take otherwise (a command that
  refreshes nothing, a scan instead of another command), so that no behaviour is
  lost to `StopEnds` but those that leave it.

Names of bounds: `MaxTaskId`, `MaxFiles` (Jobs), `MaxVersion`, `MaxRemovals`,
`MaxLockErrors` (CatalogReload), `Last` (ParentalLedger), `MaxRequest`, `MaxCounted`
(PcmQueue), `Steering`, `MaxFaults`, `Targets` (InteractivePlayback), `MaxCatalog`
(EventStream), `Bounded` (MCDelegation).
`MaxActive`, `MaxRetained`, `Capacity`, `MaxGrant`, `MaxLeases`, `MaxSettled` and
`Retain` are constants of the program.

Deadlock is checked in every run but those of `CatalogReload`, where nothing is
left to do once all writers have ended and the documents are published, of
`InteractivePlayback`, where each connection ends, and of `Delegation`, where the
server stops. Each
property has a mutant of a mapped definition that breaks it: a guard looked at
from one side, a release done twice, a stamp recorded before its catalog, a
stream started too early. They stand next to the definition they replace.

## 4. Fairness

- *Jobs.* `Progress` is weak fairness of every future the runtime has spawned:
  handlers between `fetch_add` and `insert`, the worker of a task, the blocking
  part of a scan, the desktop monitor (a loop with a sleep), the server. Clients
  owe nothing: nobody has to submit, cancel or stop. `FairSpec` lets a command
  run for ever unless it has been cancelled, since every command polls its flag;
  `CommandsEnd`, that all commands return, is an explicit hypothesis of the two
  properties that need it.
- *CatalogReload.* Weak fairness of whoever holds a lock or runs, strong fairness
  of entering the gate: a tokio mutex is first in, first out. The store lock is
  only tried, never awaited, by a refresh, and the watcher's loop of one second makes
  that try again and again. No saving, deletion or error has to happen.
- *PcmQueue.* Weak fairness of the writing thread and of a callback that has
  begun. Strong fairness of the device asking for whole, non-empty buffers while
  it plays. `PlaybackEnds` assumes that the user stops pausing; nothing makes a
  host error, a decode error or a stall happen.

- *Delegation.* Weak fairness of the accept loop, the handlers, a kill of a living
  group that is polled for, the streams, and of the end of a
  publication, by its announcement or without one. Nothing makes a command end, a client send its request or take an
  event (a send and a request are only bounded in time, which `RequestFails` and
  the fair `Send` stand for), or the owner stop or force the server. That an
  unforced stop ends has the hypothesis that no command runs for ever.
- *InteractivePlayback* has no liveness property: how long a session lasts is its
  client's choice.

## 5. Proofs

`tlapm` checks every leaf. Constants are arbitrary under the named assumptions
`JobsAssumption`, `PcmQueueAssumption`, `CalendarAssumption`, `BoundsAssumption`,
`EventStreamAssumption`, `DelegationAssumption`, `CatalogReloadAssumption` and the
`ConstantsAssumption` of `InteractivePlayback`, which TLC also evaluates.

- **AdmissionProofs.** `AlwaysCompatible`: testing compatibility only when work
  enters keeps it at all times.
- **JobsProofs.** `RegistryInvariant` gives the inductive `IInv`, from which
  `TypeCorrect`, `AdmissionIsAccounted`, `GenerationIsExclusive`,
  `RegistryIsBounded`, `WorkersKeepRecords`, `StoppedServerIsQuiet`,
  `FinalRecordsStay` follow; `AdmissionImplemented` proves the refinement.
  `AdmissionAccounted` is not inductive alone. That the counter is right after
  `Finish` needs the record to be there and live, which is `WorkerKeepsRecord`;
  this holds after an eviction because only finished records are evicted, and
  after `Insert` because an id handed out is in no other hand (`RequestsFresh`)
  and has left no trace (`UnusedIdsBlank`). That an eviction always finds a
  victim is `RegistryBounded`, which needs the count of live work to be below
  the limit of retained records. Most actions change no admission: `Keeps`,
  `Enters` and `Leaves` classify all steps once, and the accounting, exclusion
  and refinement lemmas only look at these three. `NotificationsAgree` and
  `ScanActivityIsBalanced` need invariants of their own. `ToldInv` says for each
  place of a worker, and for each bodyless scan, what was announced of its id, and
  that no worker has the id of a scan; that the end agrees with the record although
  `finish` works on a clone is that a finished record only changes by eviction.
  `GuardsHeld` says where a worker can be while it is counted in `ScanActivity`.
  `WakeupsArrive` is the safety part of `StopCompletes`: every step that takes from
  the count also wakes the waiting shutdown (`WakeupStep`).
- **PcmQueueProofs.** `QueueInvariant` gives `IInv` = `TypeOK`, `DriverInv`,
  `CallbackInv`, `SilenceInv`, `FinishInv`, and from it `TypeCorrect`,
  `StrictIsExact`, `CompleteMeansPlayed`, for the three players.
  `StrictExact` alone says nothing of silence at the tail. `SilenceInv` says what
  silence after a frame means at each place of the callback: that the callback
  is about to judge it, that the queue has failed, or that the programme is
  over. That the callback does judge it needs it to have seen a submitted frame,
  which is `CallbackInv`: a strict stream runs only after something was counted
  as submitted. This is what starting the stream with a full ring gives.
  `GapInv` counts the silence since the last frame before another frame can follow
  it (`TailCounted`): it is counted, or the callback under way will count it
  (`Pending`), or a count has saturated, or the programme is over, which a callback
  that saw the input sealed may conclude because nothing is written behind the seal.
- **ParentalLedgerProofs.** `LedgerInvariant` gives `IInv`, and from it
  `TypeCorrect`, `ListeningIsCharged`, `LimitsHold`, `StreamsAreBacked` and
  `LeasesCanClose`, for every calendar that satisfies `CalendarAssumption` (days
  and weeks partition time, a week and a grant fit in the retention) and every
  bound that satisfies `BoundsAssumption`. `HeardIsCharged` is not inductive:
  that a second is charged now says nothing of the refund that closing its
  reservation may bring. `Owed` says which seconds closing cannot refund, those
  that have passed and those that were sent, and `Safe` that each second heard
  is settled or owed. For sent audio this needs the reservation under a stream's
  id to be the stream's own grant, which is `Held`; it has two exceptions, a grant
  that expired and was settled in full by another voice, and one whose renewal
  was not saved. Every change of the row is a chain of prune, settle, make room
  and add; the lemmas say of each what it `Keeps` and whether it `Shrinks` what
  is charged. `GrantBudget` is the argument for the budgets: a grant lies in one
  day and one week, and what it adds to each is what `reserve` counted.
- **DelegationProofs** has two parts. The first is the argument for the streams, for
  any next-state relation whose steps on `streamVars` are a `StreamMove`
  (`StreamsKept`). `StreamUpToDate` is about a stream that has nothing unread;
  `FreshInv` says what holds before: the
  last catalog of what is unread, or what the stream knows when there is none, is
  the one that was announced last or a newer one (`Told`, `Latest`, `Knows`): a
  snapshot may be ahead of its announcement, which may never come. It
  survives a full receiver only because losing an event is remembered in `missed`.
  `NothingAfterRevocation` needs `LateInv`: what is late can wait in the queue or be
  in hand only where a check of the identity still stands before the send, and an
  identity that is good has received nothing late.
  The second part composes it with the commands: `DelegationInvariant` gives
  `IInv` = `StreamsInv`, `CommandsInv`, `LimitsInv`, `StopInv`, and from it `TypeCorrect`, `ReportsTrue`, `StopIsComplete`, `StreamsStayUpToDate` and
  `RevokedIsSilent`. `Consistent` says of one connection what its phase allows,
  among it that a finished command has ended and left nothing in its pipes, that a
  killed child is marked cancelled, and that only a request or a force marks it. The
  accounts of connections and commands follow from `LimitKept`: a set of
  connections grows by one at most and only below its limit. `StopInv` carries the
  stop: no connection waits once the loop has ended, and none is handled once it
  has returned. Two more theorems are what `StopEnds` rests on. `HandlersMoveOn`
  gives each connection a measure, its stages to the end and its command while
  that lives, that no step of anybody raises and that each step of its handler and
  each kill lowers: a stop waits for finitely many steps. `StopNeverStuck` says
  that there is always such a step to wait for, or a command that nobody has asked to
  end, because the reload gate is only held by a handler that publishes (`GateInv`),
  or by a refresh of the server. That steps
  which are possible happen is fairness, and stays with TLC.
- **CatalogReloadProofs.** `CatalogInvariant` gives `IInv` = `TypeOK`, `LocksInv`,
  `VersionsInv`, `OrderInv`, and from it `TypeCorrect`, `SnapshotsArePrivate`,
  `BeliefIsCurrent`, `NeverGoesBack` and `JobsSeeTheirSaves`, for any number of
  jobs, commands, scans, saves and removals. Who holds the store lock writes a
  version that nobody has read yet: every pair the server holds is `Below` it,
  because pairs are read under the same lock (`VersionsInv`). Every pair held was
  on disk when it was read (`Seen`), and a catalog that was deleted does not come
  back (`Gone`). `OrderInv` puts the published pair above all that anybody takes
  for loaded, except when nothing is published; then what is taken for loaded is
  gone. It also carries what a refresh is about to publish, which is where the
  gate is needed: between the load of one refresh and its publication, no other
  refresh and no scan publishes. A scan needs no such clause, it keeps the store
  lock until it has recorded its stamp. `LocksAreInUse` is the converse of
  `LocksInv`: a lock that is held has a holder which is still to give it back, also after a
  refresh has failed, the watcher was aborted or a scan abandoned (`Users`).
- **InteractivePlaybackProofs.** `SessionInvariant` gives `IInv`, and from it
  `LeaseIsExclusive`, `WritesStayInOrder` and `SavedStaysSaved`, for any number of
  sessions, queue lengths, controls, crashes and restores. Only one session at a
  time acts, so `IInv` says of each by itself what is `Local` to it, and `OthersKeep` that a
  session which does not act keeps that: who acts holds the profile, hence the
  others have nothing to write. That writes are stored in order is not
  inductive: `Chain` puts what was written last, what the writer holds, what is queued
  and what is to be sent in this order (`Precedes`), and the session ahead of all of them.
  It speaks of `written` and not of `disk`, which a restore may set back. `OlderInv`
  relates the two: no copy of a session's state, on disk or in a backup, is newer
  than what it wrote last, so that a writer whose comparison succeeds finds its last write
  or an older checkpoint of the same revision. An
  interrupted seek saves the cursor of before the seek with the revision of the
  control, and does not break the order because the next epoch counts from zero
  (`Top`). That a late answer is not taken for the answer to a control needs that
  a session which plays has no control's write left (`Answering`). `LastInv` adds
  what the end needs: the last save is behind every other write, so that its
  answer means that nothing else is on its way.
- **InteractiveHistoryProofs** adds to `IInv` what a session's data mean.
  `DataInvariant` gives `SoundInv`: every state that is shown, stored or to be
  stored is `Proper` (its cursor lies inside an entry, and is the end of it only
  where the code leaves it there), and the timeline of the epoch is `Lined` with the
  entries that were shown, each with the span of frames it has been given. From it
  `TypeCorrect`; that `snapshot` returns a proper state needs the last entry that
  the acknowledgement reaches (`Reaching`), and that numbers of entries stay exact
  needs the sum of what an edit inserts (`Fresh`).
  `CheckpointsWereHeard` needs more than the stored state: a state is justified by
  what was heard, by a cursor the decoder confirmed, or by the start of an entry
  (`JustifiedBy`), and `Backed` says so of the state shown, of the state an
  unconfirmed seek falls back to, and of every write on its way (`Pledged`). The
  state of a seek under way is the one that may not be written (`Confirmed`). That
  an acknowledgement justifies the cursor computed from it is `Sounded`: what is
  acknowledged of the tape has been heard, so the frame before the cursor has,
  or it is where the epoch began.
  `HistoryStaysExact` is about the visits of an epoch that has ended. Before that,
  what was heard of an occurrence is its visit and its share of the tape of this
  epoch (`Booked`); at the end of the epoch the two are added up, and `Settled`
  follows unless there was no room for a visit, which fails the session. A
  completed visit was heard as a whole (`Honest`) because a visit that goes on, and
  was not moved by a seek, has been heard from the first frame to the cursor
  (`Resumed`, `UpTo`). What is heard is counted frame by frame and the visits count
  per occurrence: `Total` is shown to be the sum it is defined as by induction on
  the frames (`SumsExist`), and an acknowledgement to add to it as many frames as
  it acknowledges of the occurrence (`TotalAdding`).

Assumptions and limits of the proofs: they are about `Spec`, hence safety. All liveness
properties and everything about fairness are only model-checked. The provers cannot take
an induction hypothesis that is an operator; where an induction is needed
(`SetInduction`, least and greatest elements), it is on the set of the numbers with the
property, whose least counterexample comes from the well-foundedness of `<`.

## 6. Findings

1. `catalog_removal`. `refresh_catalog` returns at once when the stamp equals the
   caller's `known`. For the watcher that has seen a removal this is `None`. A
   job then writes and publishes a new catalog, which changes `loaded_stamp` and
   not the watcher's `known`. If the catalog is removed again before the next
   tick, the watcher sees `None` and looks no further: the old catalog is served
   as long as the document is missing.
2. `catalog_scan_stamp`. The bodyless scan loads what it saved and reads the
   stamp afterwards. If the document is removed in between, it publishes the
   catalog under the stamp `None`, and the watcher takes the missing document
   for what is loaded.

`JobSeesItsSave` excepts a missing catalog for the same reason as the first: a job
that finds the catalog missing may take its own record of a missing catalog for
what is loaded. A proof of the property without that exception fails there.

`docs/server/events.md` and `docs/api.md` promise that a removal is published
and answered with `catalog_unavailable`.

## 7. What the models leave out

- *Jobs.* Validation, arguments and outputs of commands, the form of a record,
  authentication. The mutex is never poisoned: every critical section is free
  of panics except through `active -= 1`, which `TypeOK` covers.
- *CatalogReload.* Stamps are assumed to tell versions apart: a save that keeps
  modification time and length is not modelled. The two documents' metadata are
  read in one step. Invalidation of parental caches after a publication is left
  out. A publication whose scan was abandoned is announced only once the
  document can be read, which is how `EventuallyFresh` is stated.
- *PcmQueue.* The samples, gain, mixing and rate conversion; device selection;
  ffplay and direct ALSA output; track changes in one stream; the host's own
  buffer after the last frame. A fatal host error of the ordinary output stops
  the writer, not the callback. Silence in callbacks that began before the first
  block was counted is not an underrun of the ordinary output, and
  `GapsCounted` excuses it. The strict output may take the silence between the
  last block and the closing of its input for an underrun, and then stops.
  `is_abandoned` is never true: both users stop writing before the consumer is
  dropped. The preview's stream is created paused, which stands for the time
  before `stream.play`.
- *ParentalLedger.* One account; the limits that all accounts share, the blocked
  artists and feeds, the administrators' locks and revisions, and the document's
  form are left out. Amounts are whole seconds: a client that has consumed half a
  second is one that has consumed none or all of it. The wall clock never goes
  back (the code refuses to settle a grant that begins in the future). A check
  may come at any time, where the code lets at least a second pass between two.
  A stream that is not supervised when it starts holds no grant and is not
  modelled. A stream is stopped by `Check` or closed at any step, which stands
  for its end, its client's leaving and every failure of the transport.
- *InteractivePlayback.* A session without a profile (nothing is stored); settings
  and sample rates; the format frames between tracks; the account checks and the
  parental session of a drive (`ParentalLedger`), whose refusals are among the
  ways to end an epoch; the record that the history becomes. Seeks to a position
  beyond the end of a track fail in the decoder; the very end is accepted. An
  edit or an interruption after the last frame of a track was acknowledged and
  before its end was sent leaves the visit of that track incomplete, as in the
  code, and `HistoryIsExact` follows the code there. Times (the acknowledgement
  deadline, ten seconds for a save) are choices that may come at any step.
  `persist_snapshot` compares session and revision and nothing else: an older
  checkpoint of the running session that a restore has put back is replaced without having been
  read, which `WritesInOrder` allows and says. Of a restore only the state of this
  profile is modelled; that restored accounts revoke every session is among the ways
  to end an epoch.
- *Delegation.* Input and output that are relayed, the frames, the environment of
  the child, the lock of the server, the scan activity that a delegated scan
  holds. `Refuse` is possible at any request, which stands for the validator. A
  command that ended just before its cancellation is polled may still be reported
  as cancelled with code 130, where a signal to a group of which only an unreaped
  leader is left succeeds (`KillZombie`); `docs/cli/cancel.md` says that
  completed tasks cannot be cancelled. `ReportsAreTrue` allows this and nothing worse.
- *EventStream.* A receiver that overflows loses the oldest events and goes on:
  the last change of the catalog may be among them when task events follow it,
  even on a stream that asked for no task events, and its client learns of the
  catalog only at the next change. `StreamUpToDate` is about streams that have
  lost nothing. Where the publisher is dropped before its announcement, a stream may
  rest on an older catalog than is published: the property speaks of the last one
  announced. The announcement is made up for by the watcher, whose recorded stamp is
  still the old one; `CatalogReload` has that stamp, and `EventuallyFresh` the promise. How an identity is checked (accounts, policies, their timeouts)
  is one step with the answer at that moment; a timeout is a disconnection.

## 8. Plan

1. *Done:* Admission, Jobs, CatalogReload, PcmQueue, ParentalLedger,
   InteractivePlayback, EventStream, Delegation, and the proofs above.
2. *Next, models:* `Sessions`, `DesktopHost`, `NetworkAudio`,
   `AudioFeatures`, and shuffle as a function against a reference definition.

Runs are kept few, each for one question; small components share a run where one
instance answers for both.
