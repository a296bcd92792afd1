------------------------ MODULE InteractivePlayback ------------------------
(***************************************************************************)
(* Interactive playback of one profile of one account: WebSocket sessions  *)
(* that stream a queue, accept seeks and edits of its future, and keep a   *)
(* resumable checkpoint in the private store                               *)
(* (aede-server/src/playback_interactive.rs, playback_interactive_store.rs, *)
(* playback_api_history.rs and the drive of playback_api.rs).              *)
(*                                                                         *)
(* A session streams in epochs: between two controls the frames sent are   *)
(* counted from zero, the client acknowledges a growing count, and the     *)
(* timeline attributes the acknowledged frames to queue occurrences.       *)
(* Checkpoints go through a writer task with room for one queued write;    *)
(* each write replaces the stored state only if session and revision are   *)
(* those it expects.  Every track has Length frames and FramesPerMs frames *)
(* make a millisecond, the unit positions are saved in.  Occurrence 0      *)
(* stands for the absent current occurrence of a finished queue.           *)
(***************************************************************************)
EXTENDS Integers, Sequences, FiniteSets, Functions

CONSTANTS
    Sessions,     \* connections that ask for the profile, one after another or at once
    Nobody,       \* not a session: no lease holder, no stored state
    Outside,      \* the session of a state that a backup restore brings
    Length,       \* frames of a track
    FramesPerMs,  \* frames of a millisecond
    Window,       \* frames that may be unacknowledged (max_unacknowledged_frames)
    MaxEntries,   \* MAX_QUEUE_TRACKS
    MaxExact,     \* MAX_EXACT_INTEGER: the largest revision and occurrence
    MaxActions,   \* MAX_ACTIONS: controls of one connection
    MaxListens,   \* MAX_LISTENS: visits kept by one connection
    Targets,      \* the positions clients seek to, in milliseconds
    Steering,     \* bound: the sessions whose clients send controls
    MaxFaults     \* bound on crashes of the server, backups and restores

ASSUME ConstantsAssumption ==
    /\ Nobody \notin Sessions
    /\ Outside \notin Sessions
    /\ Nobody # Outside
    /\ Length \in Nat \ {0}
    /\ FramesPerMs \in Nat \ {0}
    /\ Window \in Nat \ {0}
    /\ MaxEntries \in Nat \ {0}
    /\ MaxExact \in Nat
    /\ MaxEntries <= MaxExact
    /\ MaxActions \in Nat
    /\ MaxListens \in Nat
    /\ Targets \subseteq Nat
    /\ Steering \subseteq Sessions
    /\ MaxFaults \in Nat

VARIABLES
    disk,      \* the stored state of the profile
    written,   \* history: the state that a session stored last
    archives,  \* the states that backups of the store hold
    lease,     \* who holds the profile in this process (player_profiles)
    phase,     \* where each session's task is
    prior,     \* the state a session read before it claims the profile
    snap,      \* the session's own state (snapshot)
    backup,    \* the state before an unconfirmed seek (seek_backup)
    stream,    \* the current epoch: timeline, frames sent and acknowledged
    listens,   \* the visits of the connection and the occurrences moved
    counts,    \* the next occurrence and the controls so far
    failed,    \* whether the session will report a failure
    late,      \* whether the decoder outlived its drain time (final_worker)
    saving,    \* a state on its way to the writer (the future of Writer::save)
    reply,     \* the writer's answer to the save awaited now
    queue,     \* the writer's channel, with room for one
    writing,   \* what the writer task is publishing
    heard,     \* history: how often the client acknowledged each frame
    origins,   \* history: the cursors a session started from or had confirmed
    faults     \* crashes, backups and restores so far

own == <<prior, snap, backup, stream, listens, counts, late, heard, origins>>
writer == <<saving, reply, queue, writing>>
store == <<disk, written, archives>>
vars == <<store, lease, phase, failed, faults, own, writer>>

Occurrences == 1..MaxExact
Milliseconds(frames) == frames \div FramesPerMs

(* A stored state; at is history: the frames of its epoch it accounts for. *)
PlaybackState ==
    [session : Sessions \cup {Nobody, Outside}, revision : 0..MaxExact,
     entries : Seq(Occurrences), current : 0..MaxExact, position : Nat, at : Nat]
NoState ==
    [session |-> Nobody, revision |-> 0, entries |-> <<>>, current |-> 0,
     position |-> 0, at |-> 0]

(* A write on its way: the state, the revision it replaces, who awaits it. *)
Snapshot ==
    [state : PlaybackState, expected : 0..MaxExact,
     reply : {"none", "control", "final"}]

(* A span of the timeline: the track's position in the epoch's queue is    *)
(* its place in the sequence; an open span has no end yet.                 *)
Open == -1
Span == [start : Nat, end : Nat \cup {Open}, position : Nat]
NoStream == [line |-> <<>>, sent |-> 0, acked |-> 0, eof |-> FALSE, tape |-> <<>>]

Visit == [frames : Nat, completed : BOOLEAN, moved : BOOLEAN]
NoListens == [visits |-> [o \in {} |-> 0], moved |-> {}]
NothingHeard == [o \in Occurrences |-> [f \in 1..Length |-> 0]]

-----------------------------------------------------------------------------
(* The queue of a state and the timeline of an epoch.                      *)

PositionOf(state) ==
    CHOOSE i \in DOMAIN state.entries : state.entries[i] = state.current
Selected(state) == state.current \in Range(state.entries)

(* What an epoch plays: the current occurrence and all that follow it. *)
Programme(state) ==
    SubSeq(state.entries, PositionOf(state), Len(state.entries))

(* Frames of the i-th track of an epoch; the first starts at the position. *)
FramesOf(state, i) ==
    Length - (IF i = 1 THEN state.position * FramesPerMs ELSE 0)

Consumed(span, acked) ==
    (IF span.end = Open \/ acked < span.end THEN acked ELSE span.end) - span.start

(* The state at a number of acknowledged frames: the last span that has    *)
(* started; at its end, the beginning of the next entry, if there is one.  *)
AtCursor(state, line, acked) ==
    LET reached == {i \in DOMAIN line : line[i].start <= acked}
        i == CHOOSE j \in reached : \A k \in reached : k <= j
        ended == line[i].end # Open /\ line[i].end <= acked
        songs == Programme(state)
        next == IF i < Len(songs) THEN songs[i + 1] ELSE 0
    IN IF reached = {} THEN [state EXCEPT !.at = acked]
       ELSE IF ended THEN [state EXCEPT !.current = next, !.position = 0, !.at = acked]
       ELSE [state EXCEPT !.current = songs[i], !.at = acked,
                !.position = line[i].position + Milliseconds(Consumed(line[i], acked))]

(* The tracks of an epoch with an acknowledged frame, as far as the        *)
(* connection may keep visits for them.                                    *)
Listened(s, acked) ==
    {i \in DOMAIN stream[s].line :
        stream[s].line[i].start < acked /\ Consumed(stream[s].line[i], acked) > 0}
NewVisits(s, acked) ==
    {i \in Listened(s, acked) : Programme(snap[s])[i] \notin DOMAIN listens[s].visits}
Kept(s, acked) ==
    {i \in Listened(s, acked) :
        \/ i \notin NewVisits(s, acked)
        \/ Cardinality({j \in NewVisits(s, acked) : j <= i})
             + Cardinality(DOMAIN listens[s].visits) <= MaxListens}

\* Mutated form: a restart inside a track does not count as moved.
VisitOf_RestartIsWhole(s, acked, i) ==
    LET span == stream[s].line[i]
        song == Programme(snap[s])[i]
        known == song \in DOMAIN listens[s].visits
        moved == song \in listens[s].moved \/ (known /\ listens[s].visits[song].moved)
    IN [frames |-> Consumed(span, acked) + (IF known THEN listens[s].visits[song].frames ELSE 0),
        completed |-> ~moved /\ span.end # Open /\ span.end <= acked,
        moved |-> moved]

(* What an epoch adds to the visit of its i-th track.  A visit that starts *)
(* inside the track, or follows a seek, is never a completed listen.       *)
VisitOf(s, acked, i) ==
    LET span == stream[s].line[i]
        song == Programme(snap[s])[i]
        known == song \in DOMAIN listens[s].visits
        moved == \/ song \in listens[s].moved
                 \/ known /\ listens[s].visits[song].moved
                 \/ ~known /\ i = 1 /\ snap[s].position > 0
    IN [frames |-> Consumed(span, acked) + (IF known THEN listens[s].visits[song].frames ELSE 0),
        completed |-> ~moved /\ span.end # Open /\ span.end <= acked,
        moved |-> moved]

(* accumulate: the visits after an epoch of which acked frames were heard. *)
Visits(s, acked) ==
    LET songs == Programme(snap[s])
        kept == Kept(s, acked)
    IN [o \in DOMAIN listens[s].visits \cup {songs[i] : i \in kept} |->
           IF \E i \in kept : songs[i] = o
           THEN VisitOf(s, acked, CHOOSE i \in kept : songs[i] = o)
           ELSE listens[s].visits[o]]
TooManyVisits(s, acked) == Kept(s, acked) # Listened(s, acked)

(* History: the frames between two acknowledgements, by occurrence.        *)
Hears(s, acked) ==
    heard' = [heard EXCEPT ![s] =
        [o \in Occurrences |-> [f \in 1..Length |->
            @[o][f] + Cardinality({k \in (stream[s].acked + 1)..acked :
                                     stream[s].tape[k] = <<o, f>>})]]]

-----------------------------------------------------------------------------
(* Beginning: the lease, the stored state, the claim.                      *)

Init ==
    /\ disk = NoState
    /\ written = NoState
    /\ archives = {}
    /\ lease = Nobody
    /\ phase = [s \in Sessions |-> "idle"]
    /\ prior = [s \in Sessions |-> NoState]
    /\ snap = [s \in Sessions |-> NoState]
    /\ backup = [s \in Sessions |-> NoState]
    /\ stream = [s \in Sessions |-> NoStream]
    /\ listens = [s \in Sessions |-> NoListens]
    /\ counts = [s \in Sessions |-> [next |-> 0, actions |-> 0]]
    /\ failed = [s \in Sessions |-> FALSE]
    /\ late = [s \in Sessions |-> FALSE]
    /\ saving = [s \in Sessions |-> {}]
    /\ reply = [s \in Sessions |-> "none"]
    /\ queue = [s \in Sessions |-> <<>>]
    /\ writing = [s \in Sessions |-> {}]
    /\ heard = [s \in Sessions |-> NothingHeard]
    /\ origins = [s \in Sessions |-> {}]
    /\ faults = 0

(* A session that has ended keeps nothing. *)
Forget(s) ==
    /\ phase' = [phase EXCEPT ![s] = "closed"]
    /\ prior' = [prior EXCEPT ![s] = NoState]
    /\ snap' = [snap EXCEPT ![s] = NoState]
    /\ backup' = [backup EXCEPT ![s] = NoState]
    /\ stream' = [stream EXCEPT ![s] = NoStream]
    /\ listens' = [listens EXCEPT ![s] = NoListens]
    /\ counts' = [counts EXCEPT ![s] = [next |-> 0, actions |-> 0]]
    /\ failed' = [failed EXCEPT ![s] = FALSE]
    /\ late' = [late EXCEPT ![s] = FALSE]
    /\ heard' = [heard EXCEPT ![s] = NothingHeard]
    /\ origins' = [origins EXCEPT ![s] = {}]

(* A connection that finds the profile held is told state_conflict and     *)
(* leaves nothing behind: it is as if it had not asked.                    *)
Acquire(s) ==
    /\ phase[s] = "idle"
    /\ lease = Nobody
    /\ lease' = s
    /\ phase' = [phase EXCEPT ![s] = "reading"]
    /\ UNCHANGED <<store, failed, faults, own, writer>>

ReadProfile(s) ==
    /\ phase[s] = "reading"
    /\ prior' = [prior EXCEPT ![s] = disk]
    /\ phase' = [phase EXCEPT ![s] = "claiming"]
    /\ UNCHANGED <<store, lease, snap, backup, stream, listens, counts, failed,
                   late, heard, origins, faults, writer>>

(* A resume continues the stored queue, a start brings one of its own. *)
FirstState(s, resume, n) ==
    IF resume THEN [prior[s] EXCEPT !.session = s, !.revision = @ + 1, !.at = 0]
    ELSE [session |-> s, revision |-> prior[s].revision + 1,
          entries |-> [i \in 1..n |-> i], current |-> 1, position |-> 0, at |-> 0]

(* The condition of every write: what is stored is what the writer knows. *)
Unchanged(stored, session, revision) ==
    stored.session = session /\ stored.revision = revision

Largest(entries) ==
    IF entries = <<>> THEN 0
    ELSE CHOOSE o \in Range(entries) : \A p \in Range(entries) : p <= o

Claim(s) ==
    /\ phase[s] = "claiming"
    /\ prior[s].revision < MaxExact
    /\ Unchanged(disk, prior[s].session, prior[s].revision)
    /\ \E resume \in BOOLEAN, n \in 1..MaxEntries :
          /\ resume => prior[s] # NoState /\ n = 1
          /\ LET first == FirstState(s, resume, n)
             IN /\ disk' = first
                /\ written' = first
                /\ snap' = [snap EXCEPT ![s] = first]
                /\ counts' = [counts EXCEPT ![s].next = Largest(first.entries)]
                /\ origins' = [origins EXCEPT ![s] = {<<first.current, first.position>>}]
    /\ prior' = [prior EXCEPT ![s] = NoState]
    /\ phase' = [phase EXCEPT ![s] = "opening"]
    /\ UNCHANGED <<archives, lease, backup, stream, listens, failed, late, heard,
                   faults, writer>>

(* Any failure before the first state is stored drops the lease. *)
GiveUp(s) ==
    /\ phase[s] \in {"reading", "claiming"}
    /\ lease' = Nobody
    /\ Forget(s)
    /\ UNCHANGED <<store, faults, writer>>

-----------------------------------------------------------------------------
(* An epoch: preparation, audio, acknowledgements.                         *)

(* The state that is saved last: an unconfirmed seek is undone. *)
Confirmed(s) == IF backup[s] = NoState THEN snap[s] ELSE backup[s]

(* Leave the loop and hand the last state to the writer. *)
Finish(s, state, fails) ==
    /\ snap' = [snap EXCEPT ![s] = state]
    /\ backup' = [backup EXCEPT ![s] = NoState]
    /\ stream' = [stream EXCEPT ![s] = NoStream]
    /\ failed' = [failed EXCEPT ![s] = fails]
    /\ saving' = [saving EXCEPT ![s] =
                    {[state |-> state, expected |-> state.revision, reply |-> "final"]}]
    /\ phase' = [phase EXCEPT ![s] = "flushing"]

(* The queue is announced, a reset is acknowledged, sources are checked. *)
Begin(s) ==
    /\ phase[s] = "opening"
    /\ Selected(snap[s])
    /\ stream' = [stream EXCEPT ![s] = NoStream]
    /\ phase' = [phase EXCEPT ![s] = "waiting"]
    /\ UNCHANGED <<store, lease, prior, snap, backup, listens, counts, failed, late,
                   heard, origins, faults, writer>>

(* A finished queue ends well; a failed announcement, reset or source      *)
(* check ends the session.                                                 *)
DoNotBegin(s) ==
    /\ phase[s] = "opening"
    /\ \E fails \in BOOLEAN :
          /\ fails \/ ~Selected(snap[s])
          /\ Finish(s, Confirmed(s), fails)
    /\ UNCHANGED <<store, lease, prior, listens, counts, late, heard, origins, faults,
                   reply, queue, writing>>

(* The decoder has found the position and reports its format. *)
Format(s) ==
    /\ phase[s] = "waiting"
    /\ snap[s].position * FramesPerMs <= Length
    /\ phase' = [phase EXCEPT ![s] = "playing"]
    /\ origins' = [origins EXCEPT ![s] = @ \cup {<<snap[s].current, snap[s].position>>}]
    /\ UNCHANGED <<store, lease, prior, snap, backup, stream, listens, counts, failed,
                   late, heard, faults, writer>>

\* Mutated form: the position of a seek that failed is saved.
NoFormat_KeepTarget(s) ==
    /\ phase[s] = "waiting"
    /\ \E fails, slow \in BOOLEAN :
          /\ Finish(s, snap[s], fails \/ slow)
          /\ late' = [late EXCEPT ![s] = slow]
    /\ UNCHANGED <<store, lease, prior, listens, counts, heard, origins, faults,
                   reply, queue, writing>>

(* The epoch ends before any audio: a bad seek, an unreadable source, a    *)
(* timeout, a closed socket, a refused account.                            *)
NoFormat(s) ==
    /\ phase[s] = "waiting"
    /\ \E fails, slow \in BOOLEAN :
          /\ Finish(s, Confirmed(s), fails \/ slow)
          /\ late' = [late EXCEPT ![s] = slow]
    /\ UNCHANGED <<store, lease, prior, listens, counts, heard, origins, faults,
                   reply, queue, writing>>

(* What the decoder produces next. *)
Tracks(s) == Len(stream[s].line)
Between(s) == Tracks(s) > 0 => stream[s].line[Tracks(s)].end # Open

SendTrack(s) ==
    /\ phase[s] = "playing" /\ ~stream[s].eof
    /\ Between(s) /\ Tracks(s) < Len(Programme(snap[s]))
    /\ stream' = [stream EXCEPT ![s].line =
          Append(@, [start |-> stream[s].sent, end |-> Open,
                     position |-> IF Tracks(s) = 0 THEN snap[s].position ELSE 0])]
    /\ UNCHANGED <<store, lease, phase, prior, snap, backup, listens, counts, failed,
                   late, heard, origins, faults, writer>>

SendAudio(s) ==
    /\ phase[s] = "playing" /\ ~Between(s)
    /\ stream[s].sent - stream[s].acked < Window
    /\ LET i == Tracks(s)
           done == stream[s].sent - stream[s].line[i].start
       IN /\ done < FramesOf(snap[s], i)
          /\ stream' = [stream EXCEPT
                ![s].sent = @ + 1,
                ![s].tape = Append(@, <<Programme(snap[s])[i],
                                        Length - FramesOf(snap[s], i) + done + 1>>)]
    /\ UNCHANGED <<store, lease, phase, prior, snap, backup, listens, counts, failed,
                   late, heard, origins, faults, writer>>

SendTrackEnd(s) ==
    /\ phase[s] = "playing" /\ ~Between(s)
    /\ LET i == Tracks(s)
       IN /\ stream[s].sent - stream[s].line[i].start = FramesOf(snap[s], i)
          /\ stream' = [stream EXCEPT ![s].line[i].end = stream[s].sent]
    /\ UNCHANGED <<store, lease, phase, prior, snap, backup, listens, counts, failed,
                   late, heard, origins, faults, writer>>

SendEof(s) ==
    /\ phase[s] = "playing" /\ ~stream[s].eof
    /\ Between(s) /\ Tracks(s) = Len(Programme(snap[s]))
    /\ stream' = [stream EXCEPT ![s].eof = TRUE]
    /\ UNCHANGED <<store, lease, phase, prior, snap, backup, listens, counts, failed,
                   late, heard, origins, faults, writer>>

(* A growing acknowledgement, and every five seconds a checkpoint for the  *)
(* writer, unless one is queued already.                                   *)
Acknowledge(s) ==
    /\ phase[s] = "playing"
    /\ \E acked \in (stream[s].acked + 1)..stream[s].sent, due \in BOOLEAN :
          /\ Hears(s, acked)
          /\ stream' = [stream EXCEPT ![s].acked = acked]
          /\ queue' = IF due /\ queue[s] = <<>>
                      THEN [queue EXCEPT ![s] =
                              <<[state |-> AtCursor(snap[s], stream[s].line, acked),
                                 expected |-> snap[s].revision, reply |-> "none"]>>]
                      ELSE queue
    /\ UNCHANGED <<store, lease, phase, prior, snap, backup, listens, counts, failed,
                   late, origins, faults, saving, reply, writing>>

-----------------------------------------------------------------------------
(* The end of an epoch that has reached its format.                        *)

(* Nothing follows: the visits are added up and the last state is saved.   *)
Halt(s, acked, state, fails) ==
    \E slow \in BOOLEAN :
       /\ listens' = [listens EXCEPT ![s].visits = Visits(s, acked)]
       /\ late' = [late EXCEPT ![s] = slow]
       /\ Finish(s, state, fails \/ slow \/ TooManyVisits(s, acked))
       /\ UNCHANGED <<store, lease, prior, counts, origins, faults, reply, queue, writing>>

(* All audio was acknowledged. *)
PlayedOut(s) ==
    /\ phase[s] = "playing"
    /\ stream[s].eof /\ stream[s].acked = stream[s].sent
    /\ Halt(s, stream[s].acked,
            [AtCursor(snap[s], stream[s].line, stream[s].acked)
               EXCEPT !.current = 0, !.position = 0], FALSE)
    /\ UNCHANGED heard

(* The socket closes, or a deadline, the shutdown, a revoked account, a    *)
(* failed checkpoint or the decoder ends the drive.                        *)
Interrupted(s) ==
    /\ phase[s] = "playing"
    /\ \E fails \in BOOLEAN :
          Halt(s, stream[s].acked, AtCursor(snap[s], stream[s].line, stream[s].acked), fails)
    /\ UNCHANGED heard

(* A stop, or a control that is refused: a bad or stale edit, too many     *)
(* controls, a seek after the end of the queue.                            *)
Stop(s) ==
    /\ phase[s] = "playing"
    /\ \E acked \in stream[s].acked..stream[s].sent, fails \in BOOLEAN :
          /\ Hears(s, acked)
          /\ Halt(s, acked, AtCursor(snap[s], stream[s].line, acked), fails)

(* A control that is accepted: the next epoch plays state, and published   *)
(* is saved now, with the revision of the control.                         *)
Continue(s, state, undo) ==
    LET next == [state EXCEPT !.revision = @ + 1, !.at = 0]
        undone == [undo EXCEPT !.revision = next.revision, !.at = 0]
    IN /\ snap' = [snap EXCEPT ![s] = next]
       /\ backup' = [backup EXCEPT ![s] = IF undo = NoState THEN NoState ELSE undone]
       /\ stream' = [stream EXCEPT ![s] = NoStream]
       /\ saving' = [saving EXCEPT ![s] =
             {[state |-> IF undo = NoState THEN next ELSE undone,
               expected |-> state.revision, reply |-> "control"]}]
       /\ phase' = [phase EXCEPT ![s] = "saving"]
       /\ UNCHANGED failed

(* A seek keeps the cursor reached so far until the next epoch proves that *)
(* the target can be played.                                               *)
Seek(s) ==
    /\ phase[s] = "playing" /\ s \in Steering
    /\ counts[s].actions < MaxActions
    /\ \E acked \in stream[s].acked..stream[s].sent, target \in Targets :
          LET reached == AtCursor(snap[s], stream[s].line, acked)
              visits == Visits(s, acked)
              o == reached.current
          IN /\ o # 0
             /\ ~TooManyVisits(s, acked)
             /\ Hears(s, acked)
             /\ listens' = [listens EXCEPT ![s] =
                   [visits |-> [v \in DOMAIN visits |->
                       IF v = o THEN [visits[v] EXCEPT !.completed = FALSE, !.moved = TRUE]
                       ELSE visits[v]],
                    moved |-> @.moved \cup {o}]]
             /\ IF reached.revision < MaxExact
                THEN Continue(s, [reached EXCEPT !.position = target], reached)
                ELSE Finish(s, reached, TRUE)
    /\ counts' = [counts EXCEPT ![s].actions = @ + 1]
    /\ UNCHANGED <<store, lease, prior, late, origins, faults, reply, queue, writing>>

(* What may follow the prefix of a queue after an edit: entries kept, each *)
(* at most once, and new ones, written 0, as many as there are numbers.    *)
Future(state) ==
    {state.entries[i] : i \in (IF Selected(state) THEN PositionOf(state) + 1
                               ELSE Len(state.entries) + 1)..Len(state.entries)}
Prefix(state) ==
    IF Selected(state) THEN SubSeq(state.entries, 1, PositionOf(state)) ELSE state.entries
Fresh(items, i) == Cardinality({j \in 1..i : items[j] = 0})
Edits(state, next) ==
    {items \in UNION {[1..n -> Future(state) \cup {0}] : n \in 0..(MaxEntries - Len(Prefix(state)))} :
        /\ \A i, j \in DOMAIN items : items[i] = items[j] /\ items[i] # 0 => i = j
        /\ next + Fresh(items, Len(items)) <= MaxExact}

Edited(state, items, next) ==
    LET future == [i \in DOMAIN items |->
                     IF items[i] = 0 THEN next + Fresh(items, i) ELSE items[i]]
    IN [state EXCEPT
          !.entries = Prefix(state) \o future,
          !.current = IF @ = 0 /\ future # <<>> THEN future[1] ELSE @]

Edit(s) ==
    /\ phase[s] = "playing" /\ s \in Steering
    /\ counts[s].actions < MaxActions
    /\ \E acked \in stream[s].acked..stream[s].sent :
          LET reached == AtCursor(snap[s], stream[s].line, acked)
          IN /\ ~TooManyVisits(s, acked)
             /\ Hears(s, acked)
             /\ listens' = [listens EXCEPT ![s].visits = Visits(s, acked)]
             /\ \E items \in Edits(reached, counts[s].next) :
                   LET edited == Edited(reached, items, counts[s].next)
                   IN /\ counts' = [counts EXCEPT
                            ![s] = [next |-> @.next + Fresh(items, Len(items)),
                                    actions |-> @.actions + 1]]
                      /\ IF edited.revision < MaxExact
                         THEN Continue(s, edited, NoState)
                         ELSE Finish(s, edited, TRUE)
    /\ UNCHANGED <<store, lease, prior, late, origins, faults, reply, queue, writing>>

-----------------------------------------------------------------------------
(* The writer: a save is sent when the channel has room, published by the  *)
(* writer task, answered, and awaited for a bounded time.                  *)

\* Mutated form: the channel takes a write while another one is queued.
SendSave_NoRoom(s) ==
    /\ \E item \in saving[s] : queue' = [queue EXCEPT ![s] = Append(@, item)]
    /\ saving' = [saving EXCEPT ![s] = {}]
    /\ UNCHANGED <<store, lease, phase, failed, faults, own, reply, writing>>

SendSave(s) ==
    /\ queue[s] = <<>>
    /\ \E item \in saving[s] : queue' = [queue EXCEPT ![s] = <<item>>]
    /\ saving' = [saving EXCEPT ![s] = {}]
    /\ UNCHANGED <<store, lease, phase, failed, faults, own, reply, writing>>

Take(s) ==
    /\ queue[s] # <<>> /\ writing[s] = {}
    /\ writing' = [writing EXCEPT ![s] = {Head(queue[s])}]
    /\ queue' = [queue EXCEPT ![s] = Tail(@)]
    /\ UNCHANGED <<store, lease, phase, failed, faults, own, saving, reply>>

(* Whether a session still waits for the answer to a write. *)
Awaited(s, item) ==
    \/ item.reply = "control" /\ phase[s] = "saving"
    \/ item.reply = "final" /\ phase[s] = "flushing"

\* Mutated form: the writer replaces whatever is stored.
Publish_Blind(s) ==
    /\ \E item \in writing[s] :
          /\ disk' = item.state
          /\ written' = item.state
          /\ reply' = [reply EXCEPT ![s] = IF Awaited(s, item) THEN "saved" ELSE @]
    /\ writing' = [writing EXCEPT ![s] = {}]
    /\ UNCHANGED <<archives, lease, phase, failed, faults, own, saving, queue>>

(* persist_snapshot, under the lock that backups and restores take too. *)
Publish(s) ==
    /\ \E item \in writing[s] :
          /\ Unchanged(disk, s, item.expected)
          /\ disk' = item.state
          /\ written' = item.state
          /\ reply' = [reply EXCEPT ![s] = IF Awaited(s, item) THEN "saved" ELSE @]
    /\ writing' = [writing EXCEPT ![s] = {}]
    /\ UNCHANGED <<archives, lease, phase, failed, faults, own, saving, queue>>

(* Something else is stored, the store stays busy, the account is refused  *)
(* or the file cannot be written.                                          *)
DoNotPublish(s) ==
    /\ \E item \in writing[s] :
          reply' = [reply EXCEPT ![s] = IF Awaited(s, item) THEN "refused" ELSE @]
    /\ writing' = [writing EXCEPT ![s] = {}]
    /\ UNCHANGED <<store, lease, phase, failed, faults, own, saving, queue>>

(* The control is stored: the next epoch is announced. *)
ControlSaved(s) ==
    /\ phase[s] = "saving" /\ reply[s] = "saved"
    /\ phase' = [phase EXCEPT ![s] = "opening"]
    /\ reply' = [reply EXCEPT ![s] = "none"]
    /\ UNCHANGED <<store, lease, failed, faults, own, saving, queue, writing>>

(* The writer refused, or has not answered in ten seconds; a save that was *)
(* not sent by then is never sent.                                         *)
ControlNotSaved(s) ==
    /\ phase[s] = "saving" /\ reply[s] # "saved"
    /\ Finish(s, Confirmed(s), TRUE)
    /\ reply' = [reply EXCEPT ![s] = "none"]
    /\ UNCHANGED <<store, lease, prior, listens, counts, late, heard, origins, faults,
                   queue, writing>>

(* The visits become the listen record, and nothing more is heard. *)
HandOver(s) ==
    /\ listens' = [listens EXCEPT ![s] = NoListens]
    /\ counts' = [counts EXCEPT ![s] = [next |-> 0, actions |-> 0]]
    /\ heard' = [heard EXCEPT ![s] = NothingHeard]
    /\ origins' = [origins EXCEPT ![s] = {}]

\* Mutated form: the answer to the last save is not looked at.
Flushed_Unread(s) ==
    /\ phase[s] = "flushing"
    /\ phase' = [phase EXCEPT ![s] = "draining"]
    /\ reply' = [reply EXCEPT ![s] = "none"]
    /\ saving' = [saving EXCEPT ![s] = {}]
    /\ HandOver(s)
    /\ UNCHANGED <<store, lease, prior, snap, backup, stream, failed, late, faults,
                   queue, writing>>

(* The answer to the last save, or ten seconds without one.                *)
Flushed(s) ==
    /\ phase[s] = "flushing"
    /\ failed' = [failed EXCEPT ![s] = @ \/ reply[s] # "saved"]
    /\ phase' = [phase EXCEPT ![s] = "draining"]
    /\ reply' = [reply EXCEPT ![s] = "none"]
    /\ saving' = [saving EXCEPT ![s] = {}]
    /\ HandOver(s)
    /\ UNCHANGED <<store, lease, prior, snap, backup, stream, late, faults, queue, writing>>

-----------------------------------------------------------------------------
(* Ending: the writer and the decoder are waited for, then history.        *)

WriterDone(s) == queue[s] = <<>> /\ writing[s] = {}

\* Mutated form: the lease goes as soon as the last save is answered.
Release_Early(s) ==
    /\ phase[s] = "draining"
    /\ lease' = Nobody
    /\ Forget(s)
    /\ UNCHANGED <<store, faults, writer>>

(* Nothing of the session can be stored any more: the lease goes.  What    *)
(* remains of the task records the history and tells the client that the   *)
(* state was saved, if nothing failed.                                     *)
Release(s) ==
    /\ phase[s] = "draining"
    /\ WriterDone(s) /\ ~late[s]
    /\ lease' = Nobody
    /\ Forget(s)
    /\ UNCHANGED <<store, faults, writer>>

(* One of them is not done in time: a task of its own keeps the lease and  *)
(* records the history later; the client is told history_failed.           *)
Defer(s) ==
    /\ phase[s] = "draining"
    /\ late[s] \/ ~WriterDone(s)
    /\ failed' = [failed EXCEPT ![s] = TRUE]
    /\ phase' = [phase EXCEPT ![s] = "deferred"]
    /\ UNCHANGED <<store, lease, faults, own, writer>>

ReleaseLate(s) ==
    /\ phase[s] = "deferred"
    /\ WriterDone(s)
    /\ lease' = Nobody
    /\ Forget(s)
    /\ UNCHANGED <<store, faults, writer>>

-----------------------------------------------------------------------------
(* Faults: the server crashes; another process, which holds the store lock *)
(* for all of its work, backs the store up or restores a backup.           *)

Crash ==
    /\ faults < MaxFaults
    /\ faults' = faults + 1
    /\ lease' = Nobody
    /\ phase' = [s \in Sessions |-> IF phase[s] = "idle" THEN "idle" ELSE "closed"]
    /\ prior' = [s \in Sessions |-> NoState]
    /\ snap' = [s \in Sessions |-> NoState]
    /\ backup' = [s \in Sessions |-> NoState]
    /\ stream' = [s \in Sessions |-> NoStream]
    /\ listens' = [s \in Sessions |-> NoListens]
    /\ counts' = [s \in Sessions |-> [next |-> 0, actions |-> 0]]
    /\ failed' = [s \in Sessions |-> FALSE]
    /\ late' = [s \in Sessions |-> FALSE]
    /\ saving' = [s \in Sessions |-> {}]
    /\ reply' = [s \in Sessions |-> "none"]
    /\ queue' = [s \in Sessions |-> <<>>]
    /\ writing' = [s \in Sessions |-> {}]
    /\ heard' = [s \in Sessions |-> NothingHeard]
    /\ origins' = [s \in Sessions |-> {}]
    /\ UNCHANGED store

BackUp ==
    /\ faults < MaxFaults
    /\ faults' = faults + 1
    /\ archives' = archives \cup {disk}
    /\ UNCHANGED <<disk, written, lease, phase, failed, own, writer>>

(* A backup of this store, of a time before the profile had a state, or of *)
(* another server.                                                         *)
Restore ==
    /\ faults < MaxFaults
    /\ faults' = faults + 1
    /\ disk' \in archives \cup
          {NoState,
           [session |-> Outside, revision |-> 1, entries |-> <<1>>,
            current |-> 1, position |-> Milliseconds(Length), at |-> 0]}
    /\ UNCHANGED <<written, archives, lease, phase, failed, own, writer>>

(* What the task of a session does, its client and its decoder included.   *)
Advance(s) ==
    \/ ReadProfile(s) \/ Claim(s) \/ GiveUp(s)
    \/ Begin(s) \/ DoNotBegin(s) \/ Format(s) \/ NoFormat(s)
    \/ SendTrack(s) \/ SendAudio(s) \/ SendTrackEnd(s) \/ SendEof(s)
    \/ Acknowledge(s) \/ Seek(s) \/ Edit(s)
    \/ Stop(s) \/ PlayedOut(s) \/ Interrupted(s)
    \/ ControlSaved(s) \/ ControlNotSaved(s) \/ Flushed(s)
    \/ Release(s) \/ Defer(s) \/ ReleaseLate(s)
Write(s) == Take(s) \/ Publish(s) \/ DoNotPublish(s)

Next ==
    \/ \E s \in Sessions : Acquire(s) \/ Advance(s) \/ SendSave(s) \/ Write(s)
    \/ Crash
    \/ BackUp
    \/ Restore

Spec == Init /\ [][Next]_vars

-----------------------------------------------------------------------------
(* Properties.                                                             *)

Phases ==
    {"idle", "reading", "claiming", "opening", "waiting", "playing", "saving",
     "flushing", "draining", "deferred", "closed"}
Items(set) == set \subseteq Snapshot /\ \A a, b \in set : a = b

(* Every variable keeps its type; the channel and the writer hold at most  *)
(* one write each.                                                         *)
TypeOK ==
    /\ disk \in PlaybackState
    /\ written \in PlaybackState
    /\ archives \subseteq PlaybackState
    /\ lease \in Sessions \cup {Nobody}
    /\ phase \in [Sessions -> Phases]
    /\ prior \in [Sessions -> PlaybackState]
    /\ snap \in [Sessions -> PlaybackState]
    /\ backup \in [Sessions -> PlaybackState]
    /\ failed \in [Sessions -> BOOLEAN]
    /\ late \in [Sessions -> BOOLEAN]
    /\ reply \in [Sessions -> {"none", "saved", "refused"}]
    /\ \A s \in Sessions :
          /\ Items(saving[s]) /\ Items(writing[s])
          /\ queue[s] \in Seq(Snapshot) /\ Len(queue[s]) <= 1
          /\ stream[s].line \in Seq(Span)
          /\ stream[s].acked <= stream[s].sent
          /\ counts[s] \in [next : 0..MaxExact, actions : 0..MaxActions]
          /\ \A o \in DOMAIN listens[s].visits : listens[s].visits[o] \in Visit

Held(s) == phase[s] \notin {"idle", "closed"}
Writes(s) == saving[s] \cup Range(queue[s]) \cup writing[s]

(* One session owns the profile: whoever may still write its state - the   *)
(* task, the queue, the writer, a deferred task - holds the lease, so no   *)
(* second session of the profile can begin meanwhile.                      *)
LeaseCoversWrites ==
    \A s \in Sessions : Held(s) \/ Writes(s) # {} => lease = s

(* A checkpoint never claims audio the client has not acknowledged: the    *)
(* stored cursor is one the session started from or had confirmed by the   *)
(* decoder, or ends at an acknowledged frame, or is the beginning of the   *)
(* entry after one that was heard to its end.  A seek that could not be    *)
(* played leaves no trace in it.                                           *)
Reached(s, o, ms) ==
    \/ <<o, ms>> \in origins[s]
    \/ o # 0 /\ ms > 0 /\ \E f \in (ms * FramesPerMs)..Length : heard[s][o][f] > 0
HeardOut(s, o) ==
    \/ heard[s][o][Length] > 0
    \/ \E origin \in origins[s] : origin[1] = o /\ origin[2] * FramesPerMs = Length
Justified(s, state) ==
    \/ Reached(s, state.current, state.position)
    \/ /\ state.position = 0
       /\ IF state.current = 0 THEN HeardOut(s, state.entries[Len(state.entries)])
          ELSE LET i == PositionOf(state) IN i > 1 /\ HeardOut(s, state.entries[i - 1])
Streaming(s) == phase[s] \in {"opening", "waiting", "playing", "saving", "flushing"}
CheckpointWasHeard ==
    \A s \in Sessions : Streaming(s) =>
        /\ \A item \in Writes(s) : Justified(s, item.state)
        /\ disk.session = s => Justified(s, disk)

(* The history of a connection is what its client acknowledged: between    *)
(* epochs every occurrence has the frames heard of it, over all epochs,    *)
(* and a listen counts as completed only if every frame was heard.         *)
Total(count) ==
    LET sum[f \in 0..Length] == IF f = 0 THEN 0 ELSE sum[f - 1] + count[f]
    IN sum[Length]
HistoryIsExact ==
    \A s \in Sessions : phase[s] \in {"saving", "flushing"} =>
        \A o \in Occurrences :
            IF o \in DOMAIN listens[s].visits
            THEN /\ listens[s].visits[o].frames = Total(heard[s][o])
                 /\ listens[s].visits[o].completed =>
                        \A f \in 1..Length : heard[s][o][f] > 0
            ELSE Total(heard[s][o]) > 0 => failed[s]

(* When nothing failed, the state the client is told to be saved is the    *)
(* session's last one, and no earlier write of the session follows it: it  *)
(* is what is stored, unless a backup has been restored since.             *)
SavedIsDurable ==
    \A s \in Sessions :
        phase[s] = "draining" /\ ~failed[s] => written = snap[s]

(* Only one session writes, and its writes are stored in the order in      *)
(* which it took them, whatever is restored between them: a late periodic  *)
(* checkpoint replaces neither a control's state nor the last one.  What a *)
(* write replaces has the session and the revision of what the session     *)
(* stored last or, when it claims the profile, of what it has read; nobody *)
(* else writes between that read and the claim.  Only a restore can put    *)
(* another state of that session and revision there, an older checkpoint;  *)
(* it is then replaced unread.                                             *)
NotOlder(new, old) ==
    \/ new.revision > old.revision
    \/ new.revision = old.revision /\ new.at >= old.at
Follows(s) ==
    /\ \A t \in Sessions \ {s} : phase[t] # "claiming"
    /\ IF written.session = s
       THEN NotOlder(disk', written) /\ Unchanged(disk, s, written.revision)
       ELSE phase[s] = "claiming" /\ Unchanged(disk, prior[s].session, prior[s].revision)
WritesInOrder ==
    [][disk' # disk /\ faults' = faults =>
          \A s \in Sessions : disk'.session = s => Follows(s)]_vars
=============================================================================
