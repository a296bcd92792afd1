---------------------- MODULE InteractivePlaybackProofs ----------------------
(***************************************************************************)
(* Who may write the stored state of a profile, and in which order, for    *)
(* every number of sessions, controls, crashes and restores.               *)
(***************************************************************************)
EXTENDS InteractivePlayback, TLAPS

\* Every step that leaves the store alone is read with this definition.
USE DEF store

\* The states and functions the module computes with, as far as their fields go.
Marks == {"session", "revision", "entries", "current", "position", "at"}

Stored(x) ==
  /\ DOMAIN x = Marks /\ x = [m \in Marks |-> x[m]]
  /\ x.revision \in Nat /\ x.at \in Nat

Tracked(x) ==
  /\ DOMAIN x = {"line", "sent", "acked", "eof", "tape"}
  /\ x = [m \in {"line", "sent", "acked", "eof", "tape"} |-> x[m]]
  /\ x.sent \in Nat /\ x.acked \in Nat

OnSessions(f) == f = [s \in Sessions |-> f[s]]

Shapes ==
  /\ OnSessions(phase) /\ OnSessions(prior) /\ OnSessions(snap) /\ OnSessions(backup)
  /\ OnSessions(stream) /\ OnSessions(saving) /\ OnSessions(reply)
  /\ OnSessions(queue) /\ OnSessions(writing)

\* The phases in which a session has claimed the profile.
Loaded == {"opening", "waiting", "playing", "saving", "flushing", "draining", "deferred"}

\* Who holds the profile, and who may still have something to write.
Owned(s) ==
  /\ phase[s] \in Phases
  /\ Held(s) => lease = s
  /\ phase[s] \notin Loaded => saving[s] = {} /\ queue[s] = <<>> /\ writing[s] = {}
  /\ phase[s] \in {"opening", "waiting", "playing", "draining", "deferred"} => saving[s] = {}

Controls(set) == {item \in set : item.reply = "control"}

\* An answer is the answer to the control that is waited for.
Answering(s) ==
  /\ phase[s] \in {"idle", "reading", "claiming", "opening", "waiting", "playing"} =>
       /\ reply[s] = "none"
       /\ Controls(Range(queue[s])) = {} /\ Controls(writing[s]) = {}
  /\ phase[s] = "saving" =>
       /\ reply[s] # "none" =>
            saving[s] = {} /\ Controls(Range(queue[s])) = {} /\ Controls(writing[s]) = {}
       /\ saving[s] # {} => Controls(Range(queue[s])) = {} /\ Controls(writing[s]) = {}
       /\ Controls(Range(queue[s])) # {} => Controls(writing[s]) = {}

\* What a session knows of itself.
Cursor(s) ==
  /\ phase[s] \in {"idle", "reading", "claiming"} => backup[s] = NoState
  /\ phase[s] = "claiming" => Stored(prior[s])
  /\ phase[s] \in Loaded => Stored(snap[s]) /\ snap[s].session = s
  /\ phase[s] \in {"opening", "waiting", "playing", "saving"} =>
       \/ backup[s] = NoState
       \/ /\ Stored(backup[s]) /\ backup[s].session = s
          /\ backup[s].revision = snap[s].revision /\ backup[s].at = 0
  /\ phase[s] = "waiting" => stream[s] = NoStream
  /\ phase[s] = "playing" => Tracked(stream[s])

\* How far the state with the session's own revision may have come.
Top(s) ==
  IF phase[s] = "playing" THEN stream[s].acked
  ELSE IF phase[s] \in {"opening", "waiting", "saving"} THEN 0
  ELSE snap[s].at

Under(s, x) ==
  /\ x.revision <= snap[s].revision
  /\ x.revision = snap[s].revision => x.at <= Top(s)

\* A state comes before a write: before what the write expects, or on the way to it.
Precedes(x, item) ==
  /\ x.revision <= item.expected
  /\ x.revision = item.state.revision => x.at <= item.state.at

Written(s, item) ==
  /\ Stored(item.state) /\ item.state.session = s
  /\ item.expected \in Nat /\ item.expected <= item.state.revision

\* What was stored last, what the writer holds, what is queued and what is to be
\* sent follow each other, and the session is ahead of all of them.
Chain(s) ==
  phase[s] \in Loaded =>
    /\ written.session = s /\ Under(s, written)
    /\ \A item \in Writes(s) :
         /\ Written(s, item) /\ Under(s, item.state)
         /\ Precedes(written, item)
    /\ \A item \in writing[s] : \A later \in Range(queue[s]) \cup saving[s] :
         Precedes(item.state, later)
    /\ \A item \in Range(queue[s]) : \A later \in saving[s] :
         Precedes(item.state, later)
    /\ queue[s] = <<>> \/ \E item : queue[s] = <<item>>

Local(s) == Owned(s) /\ Answering(s) /\ Cursor(s) /\ Chain(s)

\* All that is stored, in the store and in its backups.
Texts == Stored(disk) /\ Stored(written) /\ \A x \in archives : Stored(x)

IInv == Shapes /\ Texts /\ \A s \in Sessions : Local(s)
-----------------------------------------------------------------------------
(***************************************************************************)
(* The data: states, queues, and functions on the sessions.                *)
(***************************************************************************)
LEMMA NoStateStored == Stored(NoState) /\ NoState.session = Nobody /\ NoState.at = 0
BY DEF Stored, Marks, NoState

\* The cursor at an acknowledgement is the same state, further on.
LEMMA CursorStored ==
  ASSUME NEW state, Stored(state), NEW line, NEW acked \in Nat, NEW c,
         c = AtCursor(state, line, acked)
  PROVE  Stored(c) /\ c.at = acked /\ c.revision = state.revision /\ c.session = state.session
<1>1. \/ c = [state EXCEPT !.at = acked]
      \/ \E current, position :
           c = [state EXCEPT !.current = current, !.position = position, !.at = acked]
  <2> DEFINE reached == {i \in DOMAIN line : line[i].start <= acked}
             i == CHOOSE j \in reached : \A k \in reached : k <= j
             ended == line[i].end # Open /\ line[i].end <= acked
             songs == Programme(state)
             next == IF i < Len(songs) THEN songs[i + 1] ELSE 0
             position == line[i].position + Milliseconds(Consumed(line[i], acked))
  <2>1. c = IF reached = {} THEN [state EXCEPT !.at = acked]
            ELSE IF ended THEN [state EXCEPT !.current = next, !.position = 0, !.at = acked]
            ELSE [state EXCEPT !.current = songs[i], !.at = acked, !.position = position]
    BY DEF AtCursor
  <2> HIDE DEF reached, i, ended, songs, next, position
  <2>2. [state EXCEPT !.current = songs[i], !.at = acked, !.position = position]
          = [state EXCEPT !.current = songs[i], !.position = position, !.at = acked]
    BY DEF Stored, Marks
  <2> QED BY <2>1, <2>2
<1>2. ASSUME c = [state EXCEPT !.at = acked]
      PROVE  Stored(c) /\ c.at = acked /\ c.revision = state.revision
             /\ c.session = state.session
  BY <1>2 DEF Stored, Marks
<1>3. ASSUME NEW current, NEW position,
             c = [state EXCEPT !.current = current, !.position = position, !.at = acked]
      PROVE  Stored(c) /\ c.at = acked /\ c.revision = state.revision
             /\ c.session = state.session
  BY <1>3 DEF Stored, Marks
<1> QED
  BY <1>1, <1>2, <1>3

LEMMA ShortQueues ==
  /\ Range(<<>>) = {}
  /\ \A item : /\ Range(<<item>>) = {item} /\ <<item>> # <<>>
               /\ Head(<<item>>) = item /\ Tail(<<item>>) = <<>>
BY DEF Range
-----------------------------------------------------------------------------
(***************************************************************************)
(* What a step of one session leaves to the others.                        *)
(***************************************************************************)
Same(s) ==
  /\ phase'[s] = phase[s] /\ prior'[s] = prior[s] /\ snap'[s] = snap[s]
  /\ backup'[s] = backup[s] /\ stream'[s] = stream[s] /\ saving'[s] = saving[s]
  /\ reply'[s] = reply[s] /\ queue'[s] = queue[s] /\ writing'[s] = writing[s]

\* A session that acts holds the profile, except when it takes it.
LEMMA OthersKeep ==
  ASSUME IInv, NEW s \in Sessions, NEW t \in Sessions, t # s, Same(t),
         written' = written \/ Held(s),
         lease' = lease \/ lease = Nobody \/ Held(s)
  PROVE  Local(t)'
<1>0. Local(t) /\ Local(s) /\ Nobody # t
  BY ConstantsAssumption DEF IInv
<1>1. CASE Held(t)
  <2>1. lease = t
    BY <1>0, <1>1 DEF Local, Owned
  <2>2. ~Held(s)
    BY <1>0, <2>1 DEF Local, Owned
  <2>3. written' = written /\ lease' = lease
    BY <1>0, <2>1, <2>2
  <2>4. Owned(t)' /\ Answering(t)'
    BY <1>0, <2>3 DEF Same, Local, Owned, Answering, Held
  <2>5. Cursor(t)'
    BY <1>0 DEF Same, Local, Cursor
  <2>6. Top(t)' = Top(t) /\ Writes(t)' = Writes(t)
    BY DEF Same, Top, Writes
  <2>7. Chain(t)'
    BY <1>0, <2>3, <2>6 DEF Same, Local, Chain, Under
  <2> QED BY <2>4, <2>5, <2>7 DEF Local
<1>2. CASE ~Held(t)
  <2>1. phase[t] \notin Loaded
    BY <1>2 DEF Held, Loaded
  <2>2. Owned(t)' /\ Answering(t)'
    BY <1>0, <1>2 DEF Same, Local, Owned, Answering, Held
  <2>3. Cursor(t)'
    BY <1>0 DEF Same, Local, Cursor
  <2>4. Chain(t)'
    BY <2>1 DEF Same, Chain
  <2> QED BY <2>2, <2>3, <2>4 DEF Local
<1> QED
  BY <1>1, <1>2

\* What a step of s has to establish.
Steps(s) ==
  /\ Shapes' /\ Texts' /\ Local(s)'
  /\ \A t \in Sessions : t # s => Same(t)
  /\ written' = written \/ Held(s)
  /\ lease' = lease \/ lease = Nobody \/ Held(s)

LEMMA StepsKeep ==
  ASSUME IInv, NEW s \in Sessions, Steps(s)
  PROVE  IInv'
BY OthersKeep DEF IInv, Steps
-----------------------------------------------------------------------------
(***************************************************************************)
(* The chain of what is written, and the session ahead of it.              *)
(***************************************************************************)
\* Nothing is written, and the session may have come further.
LEMMA ChainKept ==
  ASSUME NEW s \in Sessions, Chain(s), phase[s] \in Loaded, written' = written,
         snap'[s].revision = snap[s].revision,
         saving'[s] \in {saving[s], {}}, queue'[s] = queue[s], writing'[s] = writing[s],
         Stored(written), Top(s) \in Nat, Top(s)' \in Nat, Top(s) <= Top(s)'
  PROVE  Chain(s)'
<1>1. \A x : Stored(x) /\ Under(s, x) => Under(s, x)'
  BY DEF Under, Stored
<1>2. Writes(s)' \subseteq Writes(s)
  BY DEF Writes
<1>3. written'.session = s /\ Under(s, written)'
  BY <1>1 DEF Chain, Under
<1>4. \A item \in Writes(s)' : Written(s, item) /\ Under(s, item.state)'
                              /\ Precedes(written', item)
  BY <1>1, <1>2 DEF Chain, Written
<1> QED
  BY <1>3, <1>4 DEF Chain, Written

\* A state of the session is to be saved; it has come at least as far as the rest.
LEMMA ChainExtended ==
  ASSUME NEW s \in Sessions, Chain(s), phase[s] \in Loaded, written' = written,
         NEW item, saving'[s] = {item}, queue'[s] = queue[s], writing'[s] = writing[s],
         Stored(written), Written(s, item), Stored(snap[s]), Stored(snap'[s]),
         Top(s) \in Nat, Top(s)' \in Nat,
         item.state.revision = snap'[s].revision, item.state.at = Top(s)',
         item.expected = snap[s].revision,
         \/ snap'[s].revision = snap[s].revision /\ Top(s) <= Top(s)'
         \/ snap'[s].revision = snap[s].revision + 1
  PROVE  Chain(s)'
<1>1. \A x : Stored(x) /\ Under(s, x) =>
               /\ x.revision <= snap'[s].revision
               /\ x.revision = snap'[s].revision => x.at <= Top(s)'
  BY DEF Under, Stored
<1>2. Writes(s)' = {item} \cup Range(queue[s]) \cup writing[s]
  BY DEF Writes
<1>3. \A x \in Range(queue[s]) \cup writing[s] :
         /\ Written(s, x) /\ Under(s, x.state)
         /\ Precedes(written, x)
  BY DEF Chain, Writes
<1>4. Under(s, item.state)'
  BY DEF Under, Written, Stored
<1>5. \A x : Stored(x) /\ Under(s, x) => Precedes(x, item)
  BY <1>1 DEF Precedes, Under
<1>6. written.session = s /\ Under(s, written)
  BY DEF Chain
<1>7. written'.session = s /\ Under(s, written)'
  BY <1>1, <1>6 DEF Under
<1>8. \A x \in Writes(s)' : Written(s, x) /\ Under(s, x.state)'
                           /\ Precedes(written', x)
  BY <1>1, <1>2, <1>3, <1>4, <1>5, <1>6 DEF Under, Written
<1>9. \A x \in writing'[s] : \A later \in Range(queue'[s]) \cup saving'[s] :
         Precedes(x.state, later)
  BY <1>3, <1>5 DEF Chain, Written
<1>10. \A x \in Range(queue'[s]) : \A later \in saving'[s] : Precedes(x.state, later)
  BY <1>3, <1>5 DEF Written
<1> QED
  BY <1>7, <1>8, <1>9, <1>10 DEF Chain

LEMMA TopIsNat ==
  ASSUME NEW s \in Sessions, Cursor(s), phase[s] \in Loaded
  PROVE  Top(s) \in Nat
BY DEF Cursor, Top, Stored, Tracked, Loaded

\* The session ends: whatever state it ends with is saved last.
LEMMA FinishLocal ==
  ASSUME Shapes, Texts, NEW s \in Sessions, Local(s), NEW state, NEW fails,
         phase[s] \in {"opening", "waiting", "playing", "saving"},
         Finish(s, state, fails), UNCHANGED <<store, lease, queue, writing>>,
         Stored(state), state.session = s, state.revision = snap[s].revision,
         Top(s) <= state.at
  PROVE  Local(s)'
<1>1. PICK item : item = [state |-> state, expected |-> state.revision, reply |-> "final"]
  OBVIOUS
<1>2. /\ snap'[s] = state /\ backup'[s] = NoState /\ stream'[s] = NoStream
      /\ saving'[s] = {item} /\ phase'[s] = "flushing"
      /\ queue'[s] = queue[s] /\ writing'[s] = writing[s]
  BY <1>1 DEF Finish, Shapes, OnSessions
<1>3. item.state = state /\ item.expected = state.revision
  BY <1>1
<1>4. Owned(s)' /\ Answering(s)' /\ Cursor(s)'
  BY <1>2 DEF Local, Owned, Answering, Cursor, Held, Loaded, Phases
<1>5. Top(s)' = state.at /\ state.at \in Nat /\ Top(s) \in Nat
  BY <1>2, TopIsNat DEF Top, Local, Loaded, Stored
<1>6. Written(s, item)
  BY <1>3 DEF Written, Stored
<1>7. Chain(s)'
  BY <1>2, <1>3, <1>5, <1>6, ChainExtended DEF Texts, Local, Cursor, Loaded
<1> QED
  BY <1>4, <1>7 DEF Local

\* A control is taken: its state, or the one it may undo, is saved next.
LEMMA ContinueLocal ==
  ASSUME Shapes, Texts, NEW s \in Sessions, Local(s), NEW state, NEW undo,
         phase[s] = "playing",
         Continue(s, state, undo), UNCHANGED <<store, lease, queue, writing, reply>>,
         Stored(state), state.session = s, state.revision = snap[s].revision,
         undo # NoState => Stored(undo) /\ undo.session = s
  PROVE  Local(s)'
<1>1. PICK next : next = [state EXCEPT !.revision = @ + 1, !.at = 0]
  OBVIOUS
<1>2. PICK undone : undone = [undo EXCEPT !.revision = next.revision, !.at = 0]
  OBVIOUS
<1>3. PICK saved : saved = IF undo = NoState THEN next ELSE undone
  OBVIOUS
<1>4. PICK item : item = [state |-> saved, expected |-> state.revision, reply |-> "control"]
  OBVIOUS
<1>5. /\ snap' = [snap EXCEPT ![s] = next]
      /\ backup' = [backup EXCEPT ![s] = IF undo = NoState THEN NoState ELSE undone]
      /\ saving' = [saving EXCEPT ![s] = {item}]
      /\ phase' = [phase EXCEPT ![s] = "saving"]
  BY <1>1, <1>2, <1>3, <1>4 DEF Continue
<1>6. /\ snap'[s] = next /\ backup'[s] = (IF undo = NoState THEN NoState ELSE undone)
      /\ saving'[s] = {item} /\ phase'[s] = "saving"
      /\ queue'[s] = queue[s] /\ writing'[s] = writing[s] /\ reply'[s] = reply[s]
  BY <1>5 DEF Shapes, OnSessions
<1>7. state.revision \in Nat /\ state.revision + 1 \in Nat
  BY DEF Stored
<1>8. /\ Stored(next) /\ next.session = s /\ next.at = 0
      /\ next.revision = state.revision + 1
  BY <1>1, <1>7 DEF Stored, Marks
<1>9. undo # NoState => Stored(undone) /\ undone.session = s /\ undone.at = 0
                       /\ undone.revision = next.revision
  BY <1>2, <1>8 DEF Stored, Marks
<1>10. Stored(saved) /\ saved.session = s /\ saved.at = 0 /\ saved.revision = next.revision
  BY <1>3, <1>8, <1>9
<1>11. item.state = saved /\ item.expected = state.revision
  BY <1>4
<1>12. Written(s, item)
  BY <1>7, <1>8, <1>10, <1>11 DEF Written
<1>13. Owned(s)' /\ Answering(s)' /\ Cursor(s)'
  <2>1. Owned(s)'
    BY <1>6 DEF Local, Owned, Held, Loaded, Phases
  <2>2. Answering(s)'
    BY <1>6 DEF Local, Answering
  <2>3. Cursor(s)'
    BY <1>6, <1>8, <1>9 DEF Cursor, Loaded
  <2> QED BY <2>1, <2>2, <2>3
<1>14. Top(s)' = 0 /\ Top(s) \in Nat
  BY <1>6, TopIsNat DEF Top, Local, Loaded
<1>15. snap'[s].revision = snap[s].revision + 1 /\ Stored(snap[s]) /\ Stored(snap'[s])
  BY <1>6, <1>8 DEF Local, Cursor, Loaded
<1>16. item.state.revision = snap'[s].revision /\ item.state.at = Top(s)'
  BY <1>6, <1>10, <1>11, <1>14
<1>17. Chain(s)'
  BY <1>6, <1>11, <1>12, <1>14, <1>15, <1>16, ChainExtended DEF Texts, Local, Loaded
<1> QED
  BY <1>13, <1>17 DEF Local
-----------------------------------------------------------------------------
(***************************************************************************)
(* The steps of one session.                                               *)
(***************************************************************************)
\* Only the part of s changes.
Alone(s) == Shapes' /\ \A t \in Sessions : t # s => Same(t)

LEMMA AdvanceAlone ==
  ASSUME Shapes, NEW s \in Sessions, Acquire(s) \/ Advance(s)
  PROVE  Alone(s)
<1> USE DEF Alone, Same, Shapes, OnSessions, own, writer
<1>1. CASE Acquire(s) \/ ReadProfile(s)
  BY <1>1 DEF Acquire, ReadProfile
<1>2. CASE Claim(s)
  BY <1>2 DEF Claim
<1>3. CASE GiveUp(s) \/ Release(s) \/ ReleaseLate(s)
  BY <1>3 DEF GiveUp, Release, ReleaseLate, Forget
<1>4. CASE Begin(s) \/ Format(s)
  BY <1>4 DEF Begin, Format
<1>5. CASE DoNotBegin(s) \/ NoFormat(s)
  BY <1>5 DEF DoNotBegin, NoFormat, Finish
<1>6. CASE SendTrack(s) \/ SendTrackEnd(s) \/ SendEof(s)
  BY <1>6 DEF SendTrack, SendTrackEnd, SendEof
<1>7. CASE SendAudio(s)
  BY <1>7 DEF SendAudio
<1>8. CASE Acknowledge(s)
  BY <1>8 DEF Acknowledge
<1>9. CASE Seek(s)
  <2>1. /\ UNCHANGED <<prior, reply, queue, writing>>
        /\ \/ \E state, undo : Continue(s, state, undo)
           \/ \E state : Finish(s, state, TRUE)
    BY <1>9 DEF Seek
  <2>2. ASSUME NEW state, NEW undo, Continue(s, state, undo) PROVE Alone(s)
    <3>1. PICK next, undone, item :
            /\ snap' = [snap EXCEPT ![s] = next] /\ backup' = [backup EXCEPT ![s] = undone]
            /\ stream' = [stream EXCEPT ![s] = NoStream]
            /\ saving' = [saving EXCEPT ![s] = item]
            /\ phase' = [phase EXCEPT ![s] = "saving"]
      BY <2>2 DEF Continue
    <3> QED BY <2>1, <3>1
  <2>3. ASSUME NEW state, Finish(s, state, TRUE) PROVE Alone(s)
    BY <2>1, <2>3 DEF Finish
  <2> QED BY <2>1, <2>2, <2>3
<1>10. CASE Edit(s)
  BY <1>10 DEF Edit, Continue, Finish
<1>11. CASE Stop(s) \/ PlayedOut(s) \/ Interrupted(s)
  BY <1>11 DEF Stop, PlayedOut, Interrupted, Halt, Finish
<1>12. CASE ControlSaved(s)
  BY <1>12 DEF ControlSaved
<1>13. CASE ControlNotSaved(s)
  BY <1>13 DEF ControlNotSaved, Finish
<1>14. CASE Flushed(s) \/ Defer(s)
  BY <1>14 DEF Flushed, Defer, HandOver
<1> QED
  BY <1>1, <1>2, <1>3, <1>4, <1>5, <1>6, <1>7, <1>8, <1>9, <1>10, <1>11, <1>12,
     <1>13, <1>14 DEF Advance

LEMMA WriteAlone ==
  ASSUME Shapes, NEW s \in Sessions, SendSave(s) \/ Write(s)
  PROVE  Alone(s)
<1> USE DEF Alone, Same, Shapes, OnSessions, own, writer
<1>1. CASE SendSave(s)
  BY <1>1 DEF SendSave
<1>2. CASE Take(s)
  BY <1>2 DEF Take
<1>3. CASE Publish(s)
  BY <1>3 DEF Publish
<1>4. CASE DoNotPublish(s)
  BY <1>4 DEF DoNotPublish
<1> QED
  BY <1>1, <1>2, <1>3, <1>4 DEF Write

\* Taking the profile and reading what is stored.
LEMMA BeginningLocal ==
  ASSUME IInv, NEW s \in Sessions, Acquire(s) \/ ReadProfile(s) \/ GiveUp(s)
  PROVE  Local(s)' /\ UNCHANGED store /\ (lease' = lease \/ lease = Nobody \/ Held(s))
<1>0. Local(s) /\ Shapes /\ Texts
  BY DEF IInv, Texts
<1>1. CASE Acquire(s)
  <2>1. /\ phase[s] = "idle" /\ phase'[s] = "reading" /\ lease' = s /\ lease = Nobody
        /\ UNCHANGED <<store, prior, backup, saving, reply, queue, writing>>
    BY <1>0, <1>1 DEF Acquire, Shapes, OnSessions, own, writer
  <2> QED BY <1>0, <2>1 DEF Local, Owned, Answering, Cursor, Chain, Held, Loaded, Phases
<1>2. CASE ReadProfile(s)
  <2>1. /\ phase[s] = "reading" /\ phase'[s] = "claiming" /\ prior'[s] = disk
        /\ UNCHANGED <<store, lease, backup, saving, reply, queue, writing>>
    BY <1>0, <1>2 DEF ReadProfile, Shapes, OnSessions, writer
  <2> QED BY <1>0, <2>1 DEF Texts, Local, Owned, Answering, Cursor, Chain, Held, Loaded, Phases
<1>3. CASE GiveUp(s)
  <2>1. /\ phase[s] \in {"reading", "claiming"} /\ phase'[s] = "closed"
        /\ UNCHANGED <<store, saving, reply, queue, writing>>
    BY <1>0, <1>3 DEF GiveUp, Forget, Shapes, OnSessions, writer
  <2>2. Held(s)
    BY <2>1 DEF Held
  <2> QED BY <1>0, <2>1, <2>2 DEF Local, Owned, Answering, Cursor, Chain, Held, Loaded, Phases
<1> QED
  BY <1>1, <1>2, <1>3

\* The first state of a session, a revision after the one it replaces.
LEMMA FirstStored ==
  ASSUME NEW s \in Sessions, Stored(prior[s]), NEW resume, NEW n, NEW first,
         first = FirstState(s, resume, n)
  PROVE  /\ Stored(first) /\ first.session = s /\ first.at = 0
         /\ first.revision = prior[s].revision + 1
<1>1. PICK revision \in Nat : revision = prior[s].revision + 1
  BY DEF Stored
<1>2. CASE resume
  <2>1. PICK x : x = prior[s]
    OBVIOUS
  <2>2. first = [x EXCEPT !.session = s, !.revision = revision, !.at = 0]
    BY <1>1, <1>2, <2>1 DEF FirstState
  <2>3. Stored(x)
    BY <2>1
  <2>4. PICK y : y = [x EXCEPT !.session = s]
    OBVIOUS
  <2>5. Stored(y) /\ y.session = s
    BY <2>3, <2>4 DEF Stored, Marks
  <2>6. first = [y EXCEPT !.revision = revision, !.at = 0]
    BY <2>2, <2>4
  <2>7. /\ DOMAIN first = Marks /\ first = [m \in Marks |-> first[m]]
        /\ first.at = 0 /\ first.revision = revision /\ first.session = s
    BY <2>5, <2>6 DEF Stored, Marks
  <2> QED BY <1>1, <2>7 DEF Stored
<1>3. CASE ~resume
  <2>1. PICK entries : entries = [i \in 1..n |-> i]
    OBVIOUS
  <2>2. first = [session |-> s, revision |-> revision, entries |-> entries,
                 current |-> 1, position |-> 0, at |-> 0]
    BY <1>1, <1>3, <2>1 DEF FirstState
  <2> QED BY <1>1, <2>2 DEF Stored, Marks
<1> QED
  BY <1>2, <1>3

LEMMA ClaimLocal ==
  ASSUME IInv, NEW s \in Sessions, Claim(s)
  PROVE  /\ Local(s)' /\ Texts' /\ lease' = lease /\ Held(s)
         /\ disk' = written' /\ disk'.session = s /\ archives' = archives
<1>0. Local(s) /\ Shapes /\ Texts
  BY DEF IInv
<1>1. phase[s] = "claiming" /\ Stored(prior[s])
  BY <1>0 DEF Claim, Local, Cursor
<1>2. PICK first :
        /\ \E resume, n : first = FirstState(s, resume, n)
        /\ disk' = first /\ written' = first /\ archives' = archives
        /\ snap' = [snap EXCEPT ![s] = first]
  BY DEF Claim
<1>3. /\ phase'[s] = "opening" /\ snap'[s] = first
      /\ UNCHANGED <<lease, backup, saving, reply, queue, writing>>
  BY <1>0, <1>2 DEF Claim, Shapes, OnSessions, writer
<1>4. /\ Stored(first) /\ first.session = s /\ first.at = 0
      /\ first.revision = prior[s].revision + 1
  BY <1>1, <1>2, FirstStored
<1>5. saving[s] = {} /\ queue[s] = <<>> /\ writing[s] = {}
  BY <1>0, <1>1 DEF Local, Owned, Loaded
<1>6. Owned(s)' /\ Answering(s)'
  BY <1>0, <1>1, <1>3, <1>5 DEF Local, Owned, Answering, Held, Loaded, Phases
<1>7. Cursor(s)'
  BY <1>0, <1>1, <1>3, <1>4 DEF Local, Cursor, Loaded
<1>8. Chain(s)'
  <2>1. Writes(s)' = {}
    BY <1>3, <1>5, ShortQueues DEF Writes
  <2>2. written'.session = s /\ Under(s, written)'
    BY <1>2, <1>3, <1>4 DEF Under, Top, Stored
  <2> QED BY <1>3, <1>5, <2>1, <2>2, ShortQueues DEF Chain
<1>9. Texts'
  BY <1>0, <1>2, <1>4 DEF Texts
<1> QED
  BY <1>1, <1>2, <1>3, <1>4, <1>6, <1>7, <1>8, <1>9 DEF Local, Held

\* An epoch is prepared.
LEMMA PreparedLocal ==
  ASSUME IInv, NEW s \in Sessions, Begin(s) \/ Format(s)
  PROVE  Local(s)'
<1>0. Local(s) /\ Shapes /\ Texts
  BY DEF IInv
<1>1. /\ \/ phase[s] = "opening" /\ phase'[s] = "waiting" /\ stream'[s] = NoStream
         \/ phase[s] = "waiting" /\ phase'[s] = "playing" /\ stream' = stream
      /\ UNCHANGED <<store, lease, snap, backup, saving, reply, queue, writing>>
  BY <1>0 DEF Begin, Format, Shapes, OnSessions, writer
<1>2. Owned(s)' /\ Answering(s)'
  BY <1>0, <1>1 DEF Local, Owned, Answering, Held, Loaded, Phases
<1>3. Tracked(NoStream) /\ NoStream.acked = 0
  BY DEF Tracked, NoStream
<1>4. Cursor(s)'
  BY <1>0, <1>1, <1>3 DEF Local, Cursor, Loaded
<1>5. Top(s) = 0 /\ Top(s)' = 0
  BY <1>0, <1>1, <1>3 DEF Local, Cursor, Top
<1>6. Chain(s)'
  BY <1>0, <1>1, <1>5, ChainKept DEF Texts, Local, Loaded
<1> QED
  BY <1>2, <1>4, <1>6 DEF Local

\* What is confirmed has the session's own revision, at the start of the epoch.
LEMMA ConfirmedStored ==
  ASSUME NEW s \in Sessions, Cursor(s), phase[s] \in {"opening", "waiting", "saving"},
         NEW c, c = Confirmed(s)
  PROVE  Stored(c) /\ c.session = s /\ c.revision = snap[s].revision /\ Top(s) <= c.at
<1>1. Stored(snap[s]) /\ snap[s].session = s /\ Top(s) = 0
  BY DEF Cursor, Loaded, Top
<1>2. \/ c = snap[s]
      \/ /\ Stored(c) /\ c.session = s
         /\ c.revision = snap[s].revision /\ c.at = 0
  BY DEF Confirmed, Cursor
<1> QED
  BY <1>1, <1>2 DEF Stored

LEMMA BrokenOffLocal ==
  ASSUME IInv, NEW s \in Sessions, DoNotBegin(s) \/ NoFormat(s) \/ ControlNotSaved(s)
  PROVE  Local(s)'
<1>0. Local(s) /\ Shapes /\ Texts
  BY DEF IInv
<1>1. PICK c : c = Confirmed(s)
  OBVIOUS
<1>2. /\ \E fails : Finish(s, c, fails)
      /\ phase[s] \in {"opening", "waiting", "saving"}
      /\ UNCHANGED <<store, lease, queue, writing>>
  BY <1>1 DEF DoNotBegin, NoFormat, ControlNotSaved
<1>3. Stored(c) /\ c.session = s /\ c.revision = snap[s].revision /\ Top(s) <= c.at
  BY <1>0, <1>1, <1>2, ConfirmedStored DEF Local
<1> QED
  BY <1>0, <1>2, <1>3, FinishLocal

\* The cursor of a playing session has come as far as the rest, or further.
LEMMA PlayingCursor ==
  ASSUME NEW s \in Sessions, Cursor(s), phase[s] = "playing",
         NEW acked \in Nat, stream[s].acked <= acked,
         NEW c, c = AtCursor(snap[s], stream[s].line, acked)
  PROVE  /\ Stored(c) /\ c.session = s /\ c.revision = snap[s].revision
         /\ c.at = acked /\ Top(s) <= c.at
<1>1. Stored(snap[s]) /\ snap[s].session = s
  BY DEF Cursor, Loaded
<1>2. Stored(c) /\ c.at = acked /\ c.revision = snap[s].revision /\ c.session = s
  BY <1>1, CursorStored
<1> QED
  BY <1>2 DEF Top

LEMMA EndedLocal ==
  ASSUME IInv, NEW s \in Sessions, Stop(s) \/ PlayedOut(s) \/ Interrupted(s)
  PROVE  Local(s)'
<1>0. Local(s) /\ Shapes /\ Texts
  BY DEF IInv
<1>1. phase[s] = "playing"
  BY DEF Stop, PlayedOut, Interrupted
<1>2. Tracked(stream[s]) /\ Cursor(s)
  BY <1>0, <1>1 DEF Local, Cursor
<1>3. ASSUME NEW acked \in Nat, stream[s].acked <= acked, NEW state, NEW fails,
             \/ state = AtCursor(snap[s], stream[s].line, acked)
             \/ state = [AtCursor(snap[s], stream[s].line, acked)
                           EXCEPT !.current = 0, !.position = 0],
             Halt(s, acked, state, fails)
      PROVE  Local(s)'
  <2>1. PICK c : c = AtCursor(snap[s], stream[s].line, acked)
    OBVIOUS
  <2>2. /\ Stored(c) /\ c.session = s /\ c.revision = snap[s].revision
        /\ c.at = acked /\ Top(s) <= c.at
    BY <1>1, <1>2, <1>3, <2>1, PlayingCursor
  <2>3. /\ Stored(state) /\ state.session = s /\ state.revision = snap[s].revision
        /\ Top(s) <= state.at
    <3>1. CASE state = c
      BY <2>2, <3>1
    <3>2. CASE state = [c EXCEPT !.current = 0, !.position = 0]
      BY <2>2, <3>2 DEF Stored, Marks
    <3> QED BY <1>3, <2>1, <3>1, <3>2
  <2>4. (\E flag : Finish(s, state, flag)) /\ UNCHANGED <<store, lease, queue, writing>>
    BY <1>3 DEF Halt
  <2> QED BY <1>0, <1>1, <2>3, <2>4, FinishLocal
<1>4. CASE Stop(s)
  <2>1. \A acked \in stream[s].acked..stream[s].sent : acked \in Nat /\ stream[s].acked <= acked
    BY <1>2 DEF Tracked
  <2> QED BY <1>3, <1>4, <2>1 DEF Stop
<1>5. stream[s].acked \in Nat /\ stream[s].acked <= stream[s].acked
  BY <1>2 DEF Tracked
<1>6. CASE Interrupted(s) \/ PlayedOut(s)
  BY <1>3, <1>5, <1>6 DEF Interrupted, PlayedOut
<1> QED
  BY <1>4, <1>5, <1>6

\* The decoder produces: what has been acknowledged stays.
LEMMA StreamLocal ==
  ASSUME IInv, NEW s \in Sessions,
         SendTrack(s) \/ SendAudio(s) \/ SendTrackEnd(s) \/ SendEof(s)
  PROVE  Local(s)'
<1>0. Local(s) /\ Shapes /\ Texts
  BY DEF IInv
<1>1. /\ phase[s] = "playing"
      /\ UNCHANGED <<store, lease, phase, snap, backup, saving, reply, queue, writing>>
  <2>1. SendTrack(s) \/ SendAudio(s) \/ SendTrackEnd(s) \/ SendEof(s) => phase[s] = "playing"
    BY DEF SendTrack, SendAudio, SendTrackEnd, SendEof
  <2> QED BY <2>1 DEF SendTrack, SendAudio, SendTrackEnd, SendEof, writer
<1>2. Tracked(stream[s])
  BY <1>0, <1>1 DEF Local, Cursor
<1>3. Tracked(stream'[s]) /\ stream'[s].acked = stream[s].acked
  <2>0. ASSUME NEW y, stream' = [stream EXCEPT ![s] = y],
               Tracked(y) /\ y.acked = stream[s].acked
        PROVE  Tracked(stream'[s]) /\ stream'[s].acked = stream[s].acked
    BY <1>0, <2>0 DEF Shapes, OnSessions
  <2>1. ASSUME NEW line, stream' = [stream EXCEPT ![s].line = line]
        PROVE  Tracked(stream'[s]) /\ stream'[s].acked = stream[s].acked
    <3>1. PICK y : y = [stream[s] EXCEPT !.line = line]
      OBVIOUS
    <3>2. Tracked(y) /\ y.acked = stream[s].acked
      BY <1>2, <3>1 DEF Tracked
    <3> QED BY <2>0, <2>1, <3>1, <3>2
  <2>2. CASE SendTrack(s) \/ SendTrackEnd(s)
    BY <2>1, <2>2 DEF SendTrack, SendTrackEnd
  <2>3. CASE SendAudio(s)
    <3>1. PICK sent, tape : /\ stream' = [stream EXCEPT ![s].sent = sent, ![s].tape = tape]
                            /\ sent = stream[s].sent + 1
      BY <2>3 DEF SendAudio
    <3>2. PICK y : y = [stream[s] EXCEPT !.sent = sent, !.tape = tape]
      OBVIOUS
    <3>3. sent \in Nat
      BY <1>2, <3>1 DEF Tracked
    <3>4. Tracked(y) /\ y.acked = stream[s].acked
      BY <1>2, <3>2, <3>3 DEF Tracked
    <3>5. stream' = [stream EXCEPT ![s] = y]
      BY <1>0, <3>1, <3>2 DEF Shapes, OnSessions
    <3> QED BY <2>0, <3>4, <3>5
  <2>4. CASE SendEof(s)
    <3>1. PICK y : y = [stream[s] EXCEPT !.eof = TRUE]
      OBVIOUS
    <3>2. Tracked(y) /\ y.acked = stream[s].acked
      BY <1>2, <3>1 DEF Tracked
    <3> QED BY <2>0, <2>4, <3>1, <3>2 DEF SendEof
  <2> QED BY <2>2, <2>3, <2>4
<1>4. Owned(s)' /\ Answering(s)' /\ Cursor(s)'
  BY <1>0, <1>1, <1>3 DEF Local, Owned, Answering, Cursor, Held, Loaded, Phases
<1>5. Top(s)' = Top(s) /\ Top(s) \in Nat
  BY <1>0, <1>1, <1>2, <1>3 DEF Top, Tracked
<1>6. Chain(s)'
  BY <1>0, <1>1, <1>5, ChainKept DEF Texts, Local, Loaded
<1> QED
  BY <1>4, <1>6 DEF Local

\* The client has heard more, and now and then that is queued to be stored.
LEMMA AcknowledgeLocal ==
  ASSUME IInv, NEW s \in Sessions, Acknowledge(s)
  PROVE  Local(s)'
<1>0. Local(s) /\ Shapes /\ Texts /\ phase[s] = "playing"
  BY DEF IInv, Acknowledge
<1>1. Tracked(stream[s]) /\ Stored(snap[s]) /\ snap[s].session = s /\ saving[s] = {}
  BY <1>0 DEF Local, Cursor, Owned, Loaded
<1>2. PICK acked, item :
        /\ acked \in Nat /\ stream[s].acked <= acked
        /\ stream' = [stream EXCEPT ![s].acked = acked]
        /\ item = [state |-> AtCursor(snap[s], stream[s].line, acked),
                   expected |-> snap[s].revision, reply |-> "none"]
        /\ \/ queue' = queue
           \/ queue[s] = <<>> /\ queue' = [queue EXCEPT ![s] = <<item>>]
  <2>1. \A acked \in (stream[s].acked + 1)..stream[s].sent :
          acked \in Nat /\ stream[s].acked <= acked
    BY <1>1 DEF Tracked
  <2> QED BY <2>1 DEF Acknowledge
<1>3. UNCHANGED <<store, lease, phase, snap, backup, saving, reply, writing>>
  BY DEF Acknowledge
<1>4. Tracked(stream'[s]) /\ stream'[s].acked = acked
  <2>1. PICK y : y = [stream[s] EXCEPT !.acked = acked]
    OBVIOUS
  <2>2. Tracked(y) /\ y.acked = acked
    BY <1>1, <1>2, <2>1 DEF Tracked
  <2>3. stream'[s] = y
    BY <1>0, <1>2, <2>1 DEF Shapes, OnSessions
  <2> QED BY <2>2, <2>3
<1>5. PICK c : c = AtCursor(snap[s], stream[s].line, acked)
  OBVIOUS
<1>6. /\ Stored(c) /\ c.session = s /\ c.revision = snap[s].revision
      /\ c.at = acked /\ Top(s) <= c.at
  BY <1>0, <1>2, <1>5, PlayingCursor DEF Local
<1>7. item.state = c /\ item.expected = snap[s].revision /\ item.reply = "none"
  BY <1>2, <1>5
<1>8. Top(s)' = acked /\ Top(s) \in Nat /\ Top(s) <= acked
  BY <1>0, <1>1, <1>2, <1>3, <1>4 DEF Top, Tracked
<1>9. \/ queue'[s] = queue[s]
      \/ queue[s] = <<>> /\ queue'[s] = <<item>>
  BY <1>0, <1>2 DEF Shapes, OnSessions
<1>10. Owned(s)' /\ Cursor(s)'
  BY <1>0, <1>3, <1>4 DEF Local, Owned, Cursor, Held, Loaded, Phases
<1>11. Answering(s)'
  <2>1. Controls(Range(queue'[s])) = {}
    <3>1. Controls(Range(queue[s])) = {}
      BY <1>0 DEF Local, Answering
    <3>2. Range(<<item>>) = {item}
      BY ShortQueues
    <3> QED BY <1>7, <1>9, <3>1, <3>2 DEF Controls
  <2> QED BY <1>0, <1>3, <2>1 DEF Local, Answering
<1>12. Chain(s)'
  <2>1. CASE queue'[s] = queue[s]
    BY <1>0, <1>2, <1>3, <1>8, <2>1, ChainKept DEF Texts, Local, Loaded
  <2>2. CASE queue[s] = <<>> /\ queue'[s] = <<item>>
    <3>1. Range(queue[s]) = {} /\ Range(queue'[s]) = {item}
      BY <2>2, ShortQueues
    <3>2. \A x : Stored(x) /\ Under(s, x) =>
                   /\ x.revision <= snap'[s].revision
                   /\ x.revision = snap'[s].revision => x.at <= Top(s)'
      BY <1>1, <1>2, <1>3, <1>8 DEF Under, Stored
    <3>3. \A x : Stored(x) /\ Under(s, x) => Precedes(x, item)
      BY <1>1, <1>6, <1>7, <1>8 DEF Under, Precedes, Stored
    <3>4. Written(s, item) /\ Under(s, item.state)'
      BY <1>1, <1>3, <1>6, <1>7, <1>8 DEF Written, Under, Stored
    <3>5. \A x \in writing[s] :
            /\ Written(s, x) /\ Under(s, x.state)
            /\ Precedes(written, x)
      BY <1>0 DEF Local, Chain, Writes, Loaded
    <3>6. written.session = s /\ Under(s, written)
      BY <1>0 DEF Local, Chain, Loaded
    <3>7. writing'[s] = writing[s] /\ written' = written /\ saving'[s] = {}
      BY <1>1, <1>3
    <3>8. Writes(s)' = {item} \cup writing[s]
      BY <3>1, <3>7 DEF Writes
    <3>9. written'.session = s /\ Under(s, written)'
      BY <1>0, <3>2, <3>6, <3>7 DEF Under, Texts
    <3>10. \A x \in writing[s] : Under(s, x.state)'
      BY <3>2, <3>5 DEF Written, Under
    <3>11. \A x \in writing[s] : Precedes(x.state, item)
      BY <3>3, <3>5 DEF Written
    <3>12. Precedes(written, item)
      BY <1>0, <3>3, <3>6 DEF Texts
    <3>13. \A x \in Writes(s)' :
             /\ Written(s, x) /\ Under(s, x.state)'
             /\ Precedes(written', x)
      BY <3>4, <3>5, <3>7, <3>8, <3>10, <3>12
    <3>14. /\ \A x \in writing'[s] : \A later \in Range(queue'[s]) \cup saving'[s] :
                Precedes(x.state, later)
           /\ \A x \in Range(queue'[s]) : \A later \in saving'[s] : Precedes(x.state, later)
      BY <3>1, <3>7, <3>11
    <3> QED BY <2>2, <3>9, <3>13, <3>14 DEF Chain
  <2> QED BY <1>9, <2>1, <2>2
<1> QED
  BY <1>10, <1>11, <1>12 DEF Local

\* An edit changes what follows in the queue, and nothing the chain looks at.
LEMMA EditedStored ==
  ASSUME NEW state, Stored(state), NEW items, NEW next, NEW e, e = Edited(state, items, next)
  PROVE  Stored(e) /\ e.at = state.at /\ e.revision = state.revision
         /\ e.session = state.session
<1>1. PICK entries, current : e = [state EXCEPT !.entries = entries, !.current = current]
  BY DEF Edited
<1> QED
  BY <1>1 DEF Stored, Marks

\* A control: it continues with a state a revision further, or ends the session.
LEMMA ControlLocal ==
  ASSUME IInv, NEW s \in Sessions, Seek(s) \/ Edit(s)
  PROVE  Local(s)'
<1>0. Local(s) /\ Shapes /\ Texts /\ phase[s] = "playing"
  BY DEF IInv, Seek, Edit
<1>1. Tracked(stream[s]) /\ Cursor(s)
  BY <1>0 DEF Local, Cursor
<1>2. UNCHANGED <<store, lease, queue, writing, reply>>
  BY DEF Seek, Edit
<1>3. \A acked \in stream[s].acked..stream[s].sent : acked \in Nat /\ stream[s].acked <= acked
  BY <1>1 DEF Tracked
<1>4. ASSUME NEW acked \in stream[s].acked..stream[s].sent, NEW reached,
             reached = AtCursor(snap[s], stream[s].line, acked)
      PROVE  /\ Stored(reached) /\ reached.session = s /\ reached.revision = snap[s].revision
             /\ Top(s) <= reached.at
  BY <1>0, <1>1, <1>3, <1>4, PlayingCursor
<1>5. ASSUME NEW state, NEW undo, Continue(s, state, undo), Stored(state),
             state.session = s, state.revision = snap[s].revision,
             undo # NoState => Stored(undo) /\ undo.session = s
      PROVE  Local(s)'
  BY <1>0, <1>2, <1>5, ContinueLocal
<1>6. ASSUME NEW state, Finish(s, state, TRUE), Stored(state),
             state.session = s, state.revision = snap[s].revision, Top(s) <= state.at
      PROVE  Local(s)'
  <2>1. phase[s] \in {"opening", "waiting", "playing", "saving"}
    BY <1>0
  <2>2. UNCHANGED <<store, lease, queue, writing>>
    BY <1>2
  <2>3. \E fails : Finish(s, state, fails)
    BY <1>6
  <2> QED BY <1>0, <1>6, <2>1, <2>2, <2>3, FinishLocal
<1>7. CASE Seek(s)
  <2>1. PICK acked \in stream[s].acked..stream[s].sent, target \in Targets :
          LET reached == AtCursor(snap[s], stream[s].line, acked)
          IN \/ Continue(s, [reached EXCEPT !.position = target], reached)
             \/ Finish(s, reached, TRUE)
    BY <1>7 DEF Seek
  <2>2. PICK reached : reached = AtCursor(snap[s], stream[s].line, acked)
    OBVIOUS
  <2>3. /\ Stored(reached) /\ reached.session = s /\ reached.revision = snap[s].revision
        /\ Top(s) <= reached.at
    BY <1>4, <2>2
  <2>4. PICK state : state = [reached EXCEPT !.position = target]
    OBVIOUS
  <2>5. Stored(state) /\ state.session = s /\ state.revision = snap[s].revision
    BY <2>3, <2>4 DEF Stored, Marks
  <2>6. Continue(s, state, reached) \/ Finish(s, reached, TRUE)
    BY <2>1, <2>2, <2>4
  <2> QED BY <1>5, <1>6, <2>3, <2>5, <2>6
<1>8. CASE Edit(s)
  <2>1. PICK acked \in stream[s].acked..stream[s].sent :
          LET reached == AtCursor(snap[s], stream[s].line, acked)
          IN \E items : LET edited == Edited(reached, items, counts[s].next)
                        IN Continue(s, edited, NoState) \/ Finish(s, edited, TRUE)
    BY <1>8 DEF Edit
  <2>2. PICK reached : reached = AtCursor(snap[s], stream[s].line, acked)
    OBVIOUS
  <2>3. /\ Stored(reached) /\ reached.session = s /\ reached.revision = snap[s].revision
        /\ Top(s) <= reached.at
    BY <1>4, <2>2
  <2>4. PICK items, edited : /\ edited = Edited(reached, items, counts[s].next)
                             /\ Continue(s, edited, NoState) \/ Finish(s, edited, TRUE)
    BY <2>1, <2>2
  <2>5. /\ Stored(edited) /\ edited.session = s /\ edited.revision = snap[s].revision
        /\ Top(s) <= edited.at
    BY <2>3, <2>4, EditedStored
  <2>6. CASE Continue(s, edited, NoState)
    BY <1>5, <2>5, <2>6
  <2>7. CASE Finish(s, edited, TRUE)
    BY <1>6, <2>5, <2>7
  <2> QED BY <2>4, <2>6, <2>7
<1> QED
  BY <1>7, <1>8

\* The stored control is announced; the last answer is looked at; others wait.
LEMMA AnsweredLocal ==
  ASSUME IInv, NEW s \in Sessions, ControlSaved(s) \/ Flushed(s) \/ Defer(s)
  PROVE  Local(s)'
<1>0. Local(s) /\ Shapes /\ Texts
  BY DEF IInv
<1>1. /\ \/ /\ phase[s] = "saving" /\ phase'[s] = "opening"
            /\ reply[s] = "saved" /\ reply'[s] = "none" /\ saving'[s] = saving[s]
         \/ phase[s] = "flushing" /\ phase'[s] = "draining" /\ saving'[s] = {}
         \/ phase[s] = "draining" /\ phase'[s] = "deferred" /\ saving'[s] = saving[s]
      /\ UNCHANGED <<store, lease, snap, backup, queue, writing>>
  BY <1>0 DEF ControlSaved, Flushed, Defer, Shapes, OnSessions, own, writer
<1>2. Owned(s)'
  BY <1>0, <1>1 DEF Local, Owned, Answering, Held, Loaded, Phases
<1>3. Answering(s)'
  BY <1>0, <1>1 DEF Local, Answering
<1>4. Cursor(s)'
  BY <1>0, <1>1 DEF Local, Cursor, Loaded
<1>5. Top(s)' = Top(s) /\ Top(s) \in Nat
  BY <1>0, <1>1, TopIsNat DEF Top, Local, Loaded
<1>6. Chain(s)'
  BY <1>0, <1>1, <1>5, ChainKept DEF Texts, Local, Loaded
<1> QED
  BY <1>2, <1>3, <1>4, <1>6 DEF Local

\* The profile is given back when the writer has nothing left.
LEMMA ReleaseLocal ==
  ASSUME IInv, NEW s \in Sessions, Release(s) \/ ReleaseLate(s)
  PROVE  Local(s)' /\ UNCHANGED store /\ Held(s)
<1>0. Local(s) /\ Shapes
  BY DEF IInv
<1>1. /\ phase[s] \in {"draining", "deferred"} /\ phase'[s] = "closed"
      /\ queue[s] = <<>> /\ writing[s] = {}
      /\ UNCHANGED <<store, saving, reply, queue, writing>>
  BY <1>0 DEF Release, ReleaseLate, Forget, WriterDone, Shapes, OnSessions, writer
<1> QED
  BY <1>0, <1>1 DEF Local, Owned, Answering, Cursor, Chain, Held, Loaded, Phases

-----------------------------------------------------------------------------
(***************************************************************************)
(* The writer.                                                             *)
(***************************************************************************)
\* Whoever has something to write has claimed the profile.
LEMMA WriterLoaded ==
  ASSUME IInv, NEW s \in Sessions,
         saving[s] # {} \/ queue[s] # <<>> \/ writing[s] # {}
  PROVE  phase[s] \in Loaded /\ Held(s)
BY DEF IInv, Local, Owned, Held, Loaded

LEMMA SendSaveLocal ==
  ASSUME IInv, NEW s \in Sessions, SendSave(s)
  PROVE  Local(s)'
<1>0. Local(s) /\ Shapes
  BY DEF IInv
<1>1. PICK item \in saving[s] : queue' = [queue EXCEPT ![s] = <<item>>]
  BY DEF SendSave
<1>2. /\ queue[s] = <<>> /\ queue'[s] = <<item>> /\ saving'[s] = {}
      /\ UNCHANGED <<store, lease, phase, prior, snap, backup, stream, reply, writing>>
  BY <1>0, <1>1 DEF SendSave, Shapes, OnSessions, own
<1>3. phase[s] \in Loaded /\ phase[s] \notin {"opening", "waiting", "playing"}
  BY <1>0, <1>1, WriterLoaded DEF Local, Owned
<1>4. Range(queue[s]) = {} /\ Range(queue'[s]) = {item}
  BY <1>2, ShortQueues
<1>5. Owned(s)' /\ Cursor(s)'
  BY <1>0, <1>2, <1>3 DEF Local, Owned, Cursor, Held
<1>6. Answering(s)'
  BY <1>0, <1>1, <1>2, <1>3, <1>4 DEF Local, Answering, Controls, Loaded
<1>7. Top(s)' = Top(s) /\ Writes(s)' \subseteq Writes(s)
  BY <1>1, <1>2, <1>4 DEF Top, Writes
<1>8. Chain(s)'
  BY <1>0, <1>1, <1>2, <1>3, <1>4, <1>7 DEF Local, Chain, Under
<1> QED
  BY <1>5, <1>6, <1>8 DEF Local

LEMMA TakeLocal ==
  ASSUME IInv, NEW s \in Sessions, Take(s)
  PROVE  Local(s)'
<1>0. Local(s) /\ Shapes
  BY DEF IInv
<1>1. queue[s] # <<>> /\ writing[s] = {} /\ phase[s] \in Loaded
  BY WriterLoaded DEF Take
<1>2. PICK item : queue[s] = <<item>>
  BY <1>0, <1>1 DEF Local, Chain
<1>3. /\ queue'[s] = <<>> /\ writing'[s] = {item}
      /\ UNCHANGED <<store, lease, phase, prior, snap, backup, stream, saving, reply>>
  BY <1>0, <1>2, ShortQueues DEF Take, Shapes, OnSessions, own
<1>4. Range(queue[s]) = {item} /\ Range(queue'[s]) = {}
  BY <1>2, <1>3, ShortQueues
<1>5. Owned(s)' /\ Cursor(s)'
  BY <1>0, <1>1, <1>3 DEF Local, Owned, Cursor, Held
<1>6. Answering(s)'
  BY <1>0, <1>1, <1>3, <1>4 DEF Local, Answering, Controls
<1>7. Top(s)' = Top(s) /\ Writes(s)' = Writes(s)
  BY <1>1, <1>3, <1>4 DEF Top, Writes
<1>8. Chain(s)'
  BY <1>0, <1>1, <1>3, <1>4, <1>7 DEF Local, Chain, Under
<1> QED
  BY <1>5, <1>6, <1>8 DEF Local

\* One write is stored, or it is not; the session that waits for it is told.
LEMMA PublishLocal ==
  ASSUME IInv, NEW s \in Sessions, Publish(s) \/ DoNotPublish(s)
  PROVE  /\ Local(s)' /\ Texts' /\ Held(s) /\ lease' = lease
         /\ archives' = archives /\ written.session = s
         /\ \/ disk' = disk /\ written' = written
            \/ /\ disk' = written' /\ disk'.session = s /\ NotOlder(disk', written)
               /\ disk.session = s /\ written.revision <= disk.revision
<1>0. Local(s) /\ Shapes /\ Texts
  BY DEF IInv
<1>1. PICK item, answer :
        /\ item \in writing[s]
        /\ reply' = [reply EXCEPT ![s] = IF Awaited(s, item) THEN answer ELSE reply[s]]
        /\ \/ disk' = disk /\ written' = written
           \/ /\ disk' = item.state /\ written' = item.state
              /\ Unchanged(disk, s, item.expected)
  BY DEF Publish, DoNotPublish
<1>2. phase[s] \in Loaded /\ Held(s)
  BY <1>1, WriterLoaded
<1>3. /\ writing'[s] = {} /\ reply'[s] = IF Awaited(s, item) THEN answer ELSE reply[s]
      /\ UNCHANGED <<lease, phase, prior, snap, backup, stream, saving, queue>>
  BY <1>0, <1>1 DEF Publish, DoNotPublish, Shapes, OnSessions, own
<1>4. /\ Written(s, item) /\ Under(s, item.state)
      /\ Precedes(written, item) /\ written.session = s /\ archives' = archives
  BY <1>0, <1>1, <1>2 DEF Local, Chain, Writes, Publish, DoNotPublish
<1>5. \A later \in Range(queue[s]) \cup saving[s] : Precedes(item.state, later)
  BY <1>0, <1>1, <1>2 DEF Local, Chain
<1>6. Owned(s)' /\ Cursor(s)'
  BY <1>0, <1>2, <1>3 DEF Local, Owned, Cursor, Held
<1>7. Answering(s)'
  <2>1. CASE Awaited(s, item) /\ phase[s] = "saving"
    <3>1. item.reply = "control"
      BY <2>1 DEF Awaited
    <3>2. Controls(writing[s]) # {}
      BY <1>1, <3>1 DEF Controls
    <3>3. saving[s] = {} /\ Controls(Range(queue[s])) = {}
      BY <1>0, <2>1, <3>2 DEF Local, Answering
    <3> QED BY <1>3, <2>1, <3>3 DEF Answering, Controls
  <2>2. CASE ~(Awaited(s, item) /\ phase[s] = "saving")
    <3>1. phase[s] # "flushing" => reply'[s] = reply[s]
      BY <1>3, <2>2 DEF Awaited
    <3> QED BY <1>0, <1>3, <3>1 DEF Local, Answering, Controls
  <2> QED BY <2>1, <2>2
<1>8. Top(s)' = Top(s) /\ Writes(s)' = saving[s] \cup Range(queue[s])
  BY <1>3 DEF Top, Writes
<1>9. CASE disk' = disk /\ written' = written
  <2>1. Chain(s)'
    BY <1>0, <1>2, <1>3, <1>8, <1>9 DEF Local, Chain, Writes, Under
  <2> QED BY <1>0, <1>2, <1>3, <1>4, <1>6, <1>7, <1>9, <2>1 DEF Local, Texts
<1>10. CASE /\ disk' = item.state /\ written' = item.state
            /\ Unchanged(disk, s, item.expected)
  <2>1. disk' = written' /\ Stored(disk)' /\ disk'.session = s /\ disk.session = s
    BY <1>4, <1>10 DEF Written, Unchanged
  <2>2. Texts'
    BY <1>0, <1>4, <1>10, <2>1 DEF Texts
  <2>3. NotOlder(disk', written) /\ written.revision <= disk.revision
    BY <1>0, <1>4, <1>10 DEF Written, Unchanged, NotOlder, Precedes, Stored, Texts
  <2>4. written'.session = s /\ Under(s, written)'
    BY <1>3, <1>4, <1>8, <1>10, <2>1 DEF Under
  <2>5. \A later \in Writes(s)' :
          /\ Written(s, later) /\ Under(s, later.state)'
          /\ Precedes(written', later)
    <3>1. \A later \in Writes(s)' : Written(s, later) /\ Under(s, later.state)
      BY <1>0, <1>2, <1>8 DEF Local, Chain, Writes
    <3>2. \A later \in Writes(s)' : Precedes(written', later)
      BY <1>5, <1>8, <1>10
    <3> QED BY <1>3, <1>8, <3>1, <3>2 DEF Under
  <2>6. Chain(s)'
    BY <1>0, <1>2, <1>3, <2>4, <2>5 DEF Local, Chain
  <2> QED BY <1>2, <1>3, <1>4, <1>6, <1>7, <2>1, <2>2, <2>3, <2>6 DEF Local
<1> QED
  BY <1>1, <1>9, <1>10
-----------------------------------------------------------------------------
(***************************************************************************)
(* The whole step.                                                         *)
(***************************************************************************)
LEMMA InitIInv == Init => IInv
<1> SUFFICES ASSUME Init PROVE IInv
  OBVIOUS
<1>1. Shapes
  BY DEF Init, Shapes, OnSessions
<1>2. Texts
  BY NoStateStored DEF Init, Texts
<1>3. ASSUME NEW s \in Sessions
      PROVE  /\ phase[s] = "idle" /\ backup[s] = NoState /\ reply[s] = "none"
             /\ saving[s] = {} /\ queue[s] = <<>> /\ writing[s] = {}
  BY DEF Init
<1>4. ASSUME NEW s \in Sessions PROVE Local(s)
  BY <1>3, ShortQueues DEF Local, Owned, Answering, Cursor, Chain, Controls, Held, Loaded, Phases
<1> QED
  BY <1>1, <1>2, <1>4 DEF IInv

\* After a crash no session has anything left.
LEMMA CrashIInv ==
  ASSUME IInv, Crash
  PROVE  IInv' /\ UNCHANGED store
<1>1. Shapes'
  BY DEF Crash, Shapes, OnSessions
<1>2. UNCHANGED store /\ Texts'
  BY DEF IInv, Crash, Texts
<1>3. ASSUME NEW s \in Sessions
      PROVE  /\ phase'[s] \in {"idle", "closed"} /\ backup'[s] = NoState
             /\ reply'[s] = "none"
             /\ saving'[s] = {} /\ queue'[s] = <<>> /\ writing'[s] = {}
  BY DEF Crash
<1>4. ASSUME NEW s \in Sessions PROVE Local(s)'
  BY <1>3, ShortQueues DEF Local, Owned, Answering, Cursor, Chain, Controls, Held, Loaded, Phases
<1> QED
  BY <1>1, <1>2, <1>4 DEF IInv

\* A backup, a restore or nothing at all: no session changes, nor what was stored last.
LEMMA SessionsRest ==
  ASSUME IInv, Texts', written' = written,
         UNCHANGED <<lease, phase, prior, snap, backup, stream, saving, reply, queue, writing>>
  PROVE  IInv'
<1>1. Shapes'
  BY DEF IInv, Shapes, OnSessions
<1>2. ASSUME NEW s \in Sessions PROVE Local(s)'
  <2>1. Local(s)
    BY DEF IInv
  <2>2. Owned(s)' /\ Answering(s)' /\ Cursor(s)'
    BY <2>1 DEF Local, Owned, Answering, Cursor, Held
  <2>3. Top(s)' = Top(s) /\ Writes(s)' = Writes(s)
    BY DEF Top, Writes
  <2>4. Chain(s)'
    BY <2>1, <2>3 DEF Local, Chain, Under
  <2> QED BY <2>2, <2>4 DEF Local
<1> QED
  BY <1>1, <1>2 DEF IInv

\* What another server's backup brings.
LEMMA RestoredState ==
  ASSUME IInv, Restore
  PROVE  /\ Stored(disk)'
         /\ disk' \in archives \/ disk'.session \notin Sessions
<1>1. PICK position : position = Milliseconds(Length)
  OBVIOUS
<1>2. disk' \in archives \cup
        {NoState, [session |-> Outside, revision |-> 1, entries |-> <<1>>,
                   current |-> 1, position |-> position, at |-> 0]}
  BY <1>1 DEF Restore
<1> QED
  BY <1>2, NoStateStored, ConstantsAssumption DEF IInv, Texts, Stored, Marks

LEMMA RestoreIInv ==
  ASSUME IInv, BackUp \/ Restore
  PROVE  IInv' /\ written' = written
<1>1. /\ written' = written
      /\ UNCHANGED <<lease, phase, prior, snap, backup, stream, saving, reply, queue, writing>>
  BY DEF BackUp, Restore, own, writer
<1>2. Texts'
  <2>1. CASE BackUp
    BY <2>1 DEF BackUp, IInv, Texts
  <2>2. CASE Restore
    <3>1. archives' = archives /\ Stored(disk)'
      BY <2>2, RestoredState DEF Restore
    <3> QED BY <1>1, <3>1 DEF IInv, Texts
  <2> QED BY <2>1, <2>2
<1> QED
  BY <1>1, <1>2, SessionsRest

\* A step of a session other than its claim and its writer's stores nothing.
LEMMA QuietStep ==
  ASSUME IInv, NEW s \in Sessions, Acquire(s) \/ Advance(s) \/ SendSave(s) \/ Take(s),
         ~Claim(s)
  PROVE  IInv' /\ UNCHANGED store
<1>0. Shapes /\ Texts
  BY DEF IInv
<1>1. Alone(s)
  BY <1>0, AdvanceAlone, WriteAlone DEF Write
<1>2. /\ Local(s)' /\ UNCHANGED store
      /\ lease' = lease \/ lease = Nobody \/ Held(s)
  <2>1. CASE Acquire(s) \/ ReadProfile(s) \/ GiveUp(s)
    BY <2>1, BeginningLocal
  <2>2. CASE Begin(s) \/ Format(s)
    BY <2>2, PreparedLocal DEF Begin, Format
  <2>3. CASE DoNotBegin(s) \/ NoFormat(s) \/ ControlNotSaved(s)
    BY <2>3, BrokenOffLocal DEF DoNotBegin, NoFormat, ControlNotSaved
  <2>4. CASE SendTrack(s) \/ SendAudio(s) \/ SendTrackEnd(s) \/ SendEof(s)
    BY <2>4, StreamLocal DEF SendTrack, SendAudio, SendTrackEnd, SendEof
  <2>5. CASE Acknowledge(s)
    BY <2>5, AcknowledgeLocal DEF Acknowledge
  <2>6. CASE Seek(s) \/ Edit(s)
    BY <2>6, ControlLocal DEF Seek, Edit
  <2>7. CASE Stop(s) \/ PlayedOut(s) \/ Interrupted(s)
    BY <2>7, EndedLocal DEF Stop, PlayedOut, Interrupted, Halt
  <2>8. CASE ControlSaved(s) \/ Flushed(s) \/ Defer(s)
    BY <2>8, AnsweredLocal DEF ControlSaved, Flushed, Defer
  <2>9. CASE Release(s) \/ ReleaseLate(s)
    BY <2>9, ReleaseLocal
  <2>10. CASE SendSave(s)
    BY <2>10, SendSaveLocal DEF SendSave
  <2>11. CASE Take(s)
    BY <2>11, TakeLocal DEF Take
  <2> QED
    BY <2>1, <2>2, <2>3, <2>4, <2>5, <2>6, <2>7, <2>8, <2>9, <2>10, <2>11 DEF Advance
<1>3. Texts'
  BY <1>0, <1>2 DEF Texts
<1> QED
  BY <1>0, <1>1, <1>2, <1>3, StepsKeep DEF Alone, Steps

LEMMA StepIInv == IInv /\ [Next]_vars => IInv'
<1> SUFFICES ASSUME IInv, [Next]_vars PROVE IInv'
  OBVIOUS
<1>1. CASE UNCHANGED vars
  <2>1. /\ Texts' /\ written' = written
        /\ UNCHANGED <<lease, phase, prior, snap, backup, stream, saving, reply, queue, writing>>
    BY <1>1 DEF IInv, Texts, vars, own, writer
  <2> QED BY <2>1, SessionsRest
<1>2. ASSUME NEW s \in Sessions, Claim(s) PROVE IInv'
  <2>1. Alone(s)
    BY <1>2, AdvanceAlone DEF IInv, Advance
  <2> QED BY <1>2, <2>1, ClaimLocal, StepsKeep DEF Alone, Steps
<1>3. ASSUME NEW s \in Sessions, Publish(s) \/ DoNotPublish(s) PROVE IInv'
  <2>1. Alone(s)
    BY <1>3, WriteAlone DEF IInv, Write
  <2> QED BY <1>3, <2>1, PublishLocal, StepsKeep DEF Alone, Steps
<1> QED
  BY <1>1, <1>2, <1>3, QuietStep, CrashIInv, RestoreIInv DEF Next, Write

\* The invariant of the sessions, their writers and what is stored.
THEOREM SessionInvariant == Spec => []IInv
<1> QED
  BY InitIInv, StepIInv, PTL DEF Spec

\* LeaseCoversWrites: whatever may still be written to the stored state of a
\* profile - to be sent, queued or with the writer, also of a session that
\* no longer plays - is of the session that holds the lease.
THEOREM LeaseIsExclusive == Spec => []LeaseCoversWrites
<1>1. IInv => LeaseCoversWrites
  <2> SUFFICES ASSUME IInv, NEW s \in Sessions, Held(s) \/ Writes(s) # {}
               PROVE  lease = s
    BY DEF LeaseCoversWrites
  <2>1. Writes(s) # {} => saving[s] # {} \/ queue[s] # <<>> \/ writing[s] # {}
    BY ShortQueues DEF Writes
  <2>2. Held(s)
    BY <2>1, WriterLoaded
  <2> QED BY <2>2 DEF IInv, Local, Owned
<1> QED
  BY <1>1, SessionInvariant, PTL

-----------------------------------------------------------------------------
(***************************************************************************)
(* What is in the store and in its backups, against the last write.        *)
(***************************************************************************)
Early == {"idle", "reading", "claiming"}
Copies == archives \cup {disk}

\* No copy of a session's state has come further than what it stored last, and
\* of a session that has not claimed the profile nothing has ever been stored.
Older(s) ==
  /\ phase[s] \in Loaded => \A x \in Copies : x.session = s => NotOlder(written, x)
  /\ phase[s] \in Early => written.session # s /\ \A x \in Copies : x.session # s

OlderInv == faults \in Nat /\ \A s \in Sessions : Older(s)

LEMMA NotOlderOrder ==
  ASSUME NEW x, NEW y, NEW z, Stored(x), Stored(y), Stored(z)
  PROVE  /\ NotOlder(x, x)
         /\ NotOlder(x, y) /\ NotOlder(y, z) => NotOlder(x, z)
         /\ NotOlder(x, y) => y.revision <= x.revision
BY DEF NotOlder, Stored

LEMMA PhaseKept ==
  ASSUME Shapes, NEW s \in Sessions, Acquire(s) \/ Advance(s) \/ SendSave(s) \/ Write(s),
         ~Claim(s)
  PROVE  /\ phase'[s] \in Loaded => phase[s] \in Loaded
         /\ phase'[s] \in Early => phase[s] \in Early
<1> USE DEF Shapes, OnSessions, Loaded, Early
<1>1. CASE Acquire(s) \/ ReadProfile(s)
  BY <1>1 DEF Acquire, ReadProfile
<1>2. CASE GiveUp(s) \/ Release(s) \/ ReleaseLate(s)
  BY <1>2 DEF GiveUp, Release, ReleaseLate, Forget
<1>3. CASE Begin(s) \/ Format(s) \/ ControlSaved(s) \/ Flushed(s) \/ Defer(s)
  BY <1>3 DEF Begin, Format, ControlSaved, Flushed, Defer
<1>4. CASE DoNotBegin(s) \/ NoFormat(s) \/ ControlNotSaved(s)
  BY <1>4 DEF DoNotBegin, NoFormat, ControlNotSaved, Finish
<1>5. CASE Stop(s) \/ PlayedOut(s) \/ Interrupted(s)
  BY <1>5 DEF Stop, PlayedOut, Interrupted, Halt, Finish
<1>6. CASE Seek(s)
  <2>1. phase'[s] \in {"saving", "flushing"} /\ phase[s] = "playing"
    BY <1>6 DEF Seek, Continue, Finish
  <2> QED BY <2>1
<1>7. CASE Edit(s)
  <2>1. phase'[s] \in {"saving", "flushing"} /\ phase[s] = "playing"
    BY <1>7 DEF Edit, Continue, Finish
  <2> QED BY <2>1
<1>8. CASE SendTrack(s) \/ SendAudio(s) \/ SendTrackEnd(s) \/ SendEof(s)
  BY <1>8 DEF SendTrack, SendAudio, SendTrackEnd, SendEof
<1>9. CASE Acknowledge(s) \/ SendSave(s) \/ Write(s)
  BY <1>9 DEF Acknowledge, SendSave, Write, Take, Publish, DoNotPublish
<1> QED
  BY <1>1, <1>2, <1>3, <1>4, <1>5, <1>6, <1>7, <1>8, <1>9 DEF Advance

LEMMA FaultsStill ==
  ASSUME NEW s \in Sessions, Acquire(s) \/ Advance(s) \/ SendSave(s) \/ Write(s)
  PROVE  faults' = faults
<1>1. CASE Acquire(s) \/ ReadProfile(s) \/ Claim(s) \/ GiveUp(s)
  BY <1>1 DEF Acquire, ReadProfile, Claim, GiveUp
<1>2. CASE Begin(s) \/ DoNotBegin(s) \/ Format(s) \/ NoFormat(s)
  BY <1>2 DEF Begin, DoNotBegin, Format, NoFormat
<1>3. CASE SendTrack(s) \/ SendAudio(s) \/ SendTrackEnd(s) \/ SendEof(s)
  BY <1>3 DEF SendTrack, SendAudio, SendTrackEnd, SendEof
<1>4. CASE Acknowledge(s) \/ Seek(s) \/ Edit(s)
  BY <1>4 DEF Acknowledge, Seek, Edit
<1>5. CASE Stop(s) \/ PlayedOut(s) \/ Interrupted(s)
  BY <1>5 DEF Stop, PlayedOut, Interrupted, Halt
<1>6. CASE ControlSaved(s) \/ ControlNotSaved(s) \/ Flushed(s)
  BY <1>6 DEF ControlSaved, ControlNotSaved, Flushed
<1>7. CASE Release(s) \/ Defer(s) \/ ReleaseLate(s)
  BY <1>7 DEF Release, Defer, ReleaseLate
<1>8. CASE SendSave(s) \/ Write(s)
  BY <1>8 DEF SendSave, Write, Take, Publish, DoNotPublish
<1> QED
  BY <1>1, <1>2, <1>3, <1>4, <1>5, <1>6, <1>7, <1>8 DEF Advance

\* One session at a time has anything to do with the store.
LEMMA OneHolds ==
  ASSUME IInv, NEW s \in Sessions, NEW t \in Sessions, Held(s), Held(t)
  PROVE  s = t
BY DEF IInv, Local, Owned

LEMMA OlderStep ==
  ASSUME IInv, OlderInv, NEW t \in Sessions,
         Acquire(t) \/ Advance(t) \/ SendSave(t) \/ Write(t)
  PROVE  OlderInv'
<1>0. Shapes /\ Texts /\ faults' = faults
  BY FaultsStill DEF IInv
<1>1. Alone(t)
  BY <1>0, AdvanceAlone, WriteAlone
<1>2. CASE ~Claim(t) /\ UNCHANGED store
  <2>1. ASSUME NEW s \in Sessions PROVE Older(s)'
    <3>1. /\ phase'[s] \in Loaded => phase[s] \in Loaded
          /\ phase'[s] \in Early => phase[s] \in Early
      BY <1>0, <1>1, <1>2, PhaseKept DEF Alone, Same
    <3>2. Older(s) /\ Copies' = Copies /\ written' = written
      BY <1>2 DEF OlderInv, Copies
    <3> QED BY <3>1, <3>2 DEF Older
  <2> QED BY <1>0, <2>1 DEF OlderInv
<1>3. CASE Claim(t)
  <2>1. /\ Texts' /\ Held(t) /\ disk' = written' /\ disk'.session = t /\ archives' = archives
    BY <1>3, ClaimLocal
  <2>2. phase[t] = "claiming" /\ phase'[t] = "opening"
    BY <1>0, <1>3 DEF Claim, Shapes, OnSessions
  <2>3. ASSUME NEW s \in Sessions PROVE Older(s)'
    <3>1. Older(s)
      BY DEF OlderInv
    <3>2. CASE s = t
      <4>1. \A x \in archives : x.session # t
        BY <2>2, <3>1, <3>2 DEF Older, Early, Copies
      <4>2. NotOlder(written', disk')
        BY <2>1, NotOlderOrder DEF Texts
      <4> QED BY <2>1, <2>2, <3>2, <4>1, <4>2 DEF Older, Early, Copies
    <3>3. CASE s # t
      <4>1. phase'[s] = phase[s] /\ ~Held(s)
        BY <1>1, <2>1, <3>3, OneHolds DEF Alone, Same
      <4>2. phase[s] \notin Loaded
        BY <4>1 DEF Held, Loaded
      <4> QED BY <2>1, <3>1, <3>3, <4>1, <4>2 DEF Older, Copies
    <3> QED BY <3>2, <3>3
  <2> QED BY <1>0, <2>3 DEF OlderInv
<1>4. CASE Publish(t)
  <2>1. /\ Texts' /\ Held(t) /\ archives' = archives
        /\ \/ disk' = disk /\ written' = written
           \/ disk' = written' /\ disk'.session = t /\ NotOlder(written', written)
    BY <1>4, PublishLocal
  <2>2. phase' = phase
    BY <1>4 DEF Publish
  <2>3. ASSUME NEW s \in Sessions PROVE Older(s)'
    <3>1. Older(s)
      BY DEF OlderInv
    <3>2. CASE disk' = disk /\ written' = written
      BY <2>1, <2>2, <3>1, <3>2 DEF Older, Copies
    <3>3. CASE disk' = written' /\ disk'.session = t /\ NotOlder(written', written) /\ s = t
      <4>1. phase[s] \in Loaded
        BY <1>4, <3>3, WriterLoaded DEF Publish
      <4>2. \A x \in archives : x.session = s => NotOlder(written', x)
        BY <1>0, <2>1, <3>1, <3>3, <4>1, NotOlderOrder DEF Older, Copies, Texts
      <4>3. NotOlder(written', disk')
        BY <2>1, <3>3, NotOlderOrder DEF Texts
      <4> QED BY <2>1, <2>2, <4>1, <4>2, <4>3 DEF Older, Copies, Loaded, Early
    <3>4. CASE disk' = written' /\ disk'.session = t /\ s # t
      <4>1. ~Held(s)
        BY <2>1, <3>4, OneHolds
      <4>2. phase[s] \notin Loaded
        BY <4>1 DEF Held, Loaded
      <4> QED BY <2>1, <2>2, <3>1, <3>4, <4>2 DEF Older, Copies
    <3> QED BY <2>1, <3>2, <3>3, <3>4
  <2> QED BY <1>0, <2>3 DEF OlderInv
<1>5. Claim(t) \/ Publish(t) \/ (~Claim(t) /\ UNCHANGED store)
  <2>1. CASE DoNotPublish(t)
    BY <2>1 DEF DoNotPublish, Claim
  <2>2. CASE ~Publish(t) /\ ~DoNotPublish(t) /\ ~Claim(t)
    <3>1. Acquire(t) \/ Advance(t) \/ SendSave(t) \/ Take(t)
      BY <2>2 DEF Write
    <3> QED BY <2>2, <3>1, QuietStep
  <2> QED BY <2>1, <2>2
<1> QED
  BY <1>2, <1>3, <1>4, <1>5

\* A backup copies what there is, and a restore brings a copy or no session's state.
LEMMA CopiesGrow ==
  ASSUME IInv, BackUp \/ Restore
  PROVE  \A x \in Copies' : x \in Copies \/ x.session \notin Sessions
<1>1. CASE BackUp
  BY <1>1 DEF BackUp, Copies
<1>2. CASE Restore
  BY <1>2, RestoredState DEF Restore, Copies
<1> QED
  BY <1>1, <1>2

LEMMA OlderHolds == Spec => []OlderInv
<1>1. Init => OlderInv
  <2>1. ASSUME Init, NEW s \in Sessions PROVE Older(s)
    BY <2>1, NoStateStored, ConstantsAssumption DEF Init, Older, Copies, Loaded
  <2> QED BY <2>1 DEF Init, OlderInv
<1>2. IInv /\ OlderInv /\ [Next]_vars => OlderInv'
  <2> SUFFICES ASSUME IInv, OlderInv, [Next]_vars PROVE OlderInv'
    OBVIOUS
  <2>1. CASE Crash
    <3>1. /\ UNCHANGED store /\ faults' \in Nat
      BY <2>1 DEF Crash, OlderInv
    <3>2. ASSUME NEW s \in Sessions PROVE Older(s)'
      <4>1. phase'[s] \notin Loaded /\ (phase'[s] \in Early => phase[s] = "idle")
        BY <2>1 DEF Crash, Loaded, Early
      <4>2. Older(s) /\ Copies' = Copies
        BY <3>1 DEF OlderInv, Copies
      <4> QED BY <3>1, <4>1, <4>2 DEF Older, Early
    <3> QED BY <3>1, <3>2 DEF OlderInv
  <2>2. CASE BackUp \/ Restore
    <3>1. written' = written /\ phase' = phase /\ faults' \in Nat
      BY <2>2 DEF BackUp, Restore, OlderInv
    <3>2. \A x \in Copies' : x \in Copies \/ x.session \notin Sessions
      BY <2>2, CopiesGrow
    <3>3. ASSUME NEW s \in Sessions PROVE Older(s)'
      <4>1. Older(s)
        BY DEF OlderInv
      <4> QED BY <3>1, <3>2, <4>1 DEF Older
    <3> QED BY <3>1, <3>3 DEF OlderInv
  <2>3. CASE UNCHANGED vars
    <3>1. UNCHANGED <<disk, written, archives, phase, faults>> /\ Copies' = Copies
      BY <2>3 DEF vars, Copies
    <3> QED BY <3>1 DEF OlderInv, Older
  <2> QED BY <2>1, <2>2, <2>3, OlderStep DEF Next
<1> QED
  BY <1>1, <1>2, SessionInvariant, PTL DEF Spec

\* What a write replaces.
LEMMA WriteFollows ==
  ASSUME IInv, OlderInv, NEW t \in Sessions, NEW s \in Sessions, disk'.session = s,
         Claim(t) \/ (Publish(t) /\ disk' # disk)
  PROVE  Follows(s)
<1>0. Texts /\ Older(t)
  BY DEF IInv, OlderInv
<1>1. CASE Claim(t)
  <2>1. Held(t) /\ s = t
    BY <1>1, ClaimLocal
  <2>2. phase[t] = "claiming" /\ Unchanged(disk, prior[t].session, prior[t].revision)
    BY <1>1 DEF Claim
  <2>3. \A u \in Sessions \ {t} : phase[u] # "claiming"
    BY <2>1, OneHolds DEF Held
  <2>4. written.session # t
    BY <1>0, <2>2 DEF Older, Early
  <2> QED BY <2>1, <2>2, <2>3, <2>4 DEF Follows
<1>2. CASE Publish(t) /\ disk' # disk
  <2>1. /\ Held(t) /\ s = t /\ written.session = t /\ NotOlder(disk', written)
        /\ disk.session = t /\ written.revision <= disk.revision
    BY <1>2, PublishLocal
  <2>2. phase[t] \in Loaded
    BY <1>2, WriterLoaded DEF Publish
  <2>3. disk.revision <= written.revision
    BY <1>0, <2>1, <2>2, NotOlderOrder DEF Older, Copies, Texts
  <2>4. disk.revision = written.revision
    BY <1>0, <2>1, <2>3 DEF Texts, Stored
  <2>5. \A u \in Sessions \ {t} : phase[u] # "claiming"
    BY <2>1, OneHolds DEF Held
  <2> QED BY <2>1, <2>4, <2>5 DEF Follows, Unchanged
<1> QED
  BY <1>1, <1>2

\* WritesInOrder: nobody writes between a session's reading of the stored state
\* and its claim; its later writes follow each other by revision and
\* acknowledgement, and each replaces a state of its own with the revision it
\* stored last - that write, or an older checkpoint that a restore has put there.
THEOREM WritesStayInOrder == Spec => WritesInOrder
<1>1. ASSUME IInv, OlderInv, [Next]_vars, disk' # disk, faults' = faults,
             NEW s \in Sessions, disk'.session = s
      PROVE  Follows(s)
  <2>1. ASSUME NEW t \in Sessions, Acquire(t) \/ Advance(t) \/ SendSave(t) \/ Write(t)
        PROVE  Follows(s)
    <3>1. Claim(t) \/ Publish(t)
      <4>1. CASE DoNotPublish(t)
        BY <1>1, <4>1 DEF DoNotPublish
      <4>2. CASE ~Publish(t) /\ ~DoNotPublish(t) /\ ~Claim(t)
        <5>1. Acquire(t) \/ Advance(t) \/ SendSave(t) \/ Take(t)
          BY <2>1, <4>2 DEF Write
        <5> QED BY <1>1, <4>2, <5>1, QuietStep
      <4> QED BY <4>1, <4>2
    <3> QED BY <1>1, <3>1, WriteFollows
  <2>2. ~Crash
    BY <1>1 DEF Crash
  <2>3. ~BackUp /\ ~Restore
    BY <1>1 DEF BackUp, Restore, OlderInv
  <2> QED BY <1>1, <2>1, <2>2, <2>3 DEF Next, vars
<1>2. IInv /\ OlderInv /\ [Next]_vars =>
        [disk' # disk /\ faults' = faults =>
           \A s \in Sessions : disk'.session = s => Follows(s)]_vars
  BY <1>1
<1> QED
  BY <1>2, SessionInvariant, OlderHolds, PTL DEF Spec, WritesInOrder
-----------------------------------------------------------------------------
(***************************************************************************)
(* The last save.                                                          *)
(***************************************************************************)
Finals(set) == {item \in set : item.reply = "final"}

\* The last save is the session's own state, behind every other write; when it
\* is answered nothing else is left, and when it was stored it was stored last.
Last(s) ==
  /\ phase[s] \in {"opening", "waiting", "playing", "saving"} => Finals(Writes(s)) = {}
  /\ phase[s] = "flushing" =>
       /\ \A item \in Finals(Writes(s)) : item.state = snap[s]
       /\ Finals(writing[s]) # {} => queue[s] = <<>> /\ saving[s] = {}
       /\ Finals(Range(queue[s])) # {} => saving[s] = {}
       /\ reply[s] # "none" => Writes(s) = {}
       /\ reply[s] = "saved" => written = snap[s]
  /\ phase[s] = "draining" /\ ~failed[s] =>
       Writes(s) = {} /\ written = snap[s]

LastInv == OnSessions(failed) /\ \A s \in Sessions : Last(s)

LEMMA FailedAlone ==
  ASSUME OnSessions(failed), NEW s \in Sessions,
         Acquire(s) \/ Advance(s) \/ SendSave(s) \/ Write(s)
  PROVE  OnSessions(failed)' /\ \A t \in Sessions : t # s => failed'[t] = failed[t]
<1> USE DEF OnSessions
<1>1. CASE GiveUp(s) \/ Release(s) \/ ReleaseLate(s)
  BY <1>1 DEF GiveUp, Release, ReleaseLate, Forget
<1>2. CASE DoNotBegin(s) \/ NoFormat(s) \/ ControlNotSaved(s)
  BY <1>2 DEF DoNotBegin, NoFormat, ControlNotSaved, Finish
<1>3. CASE Stop(s) \/ PlayedOut(s) \/ Interrupted(s)
  BY <1>3 DEF Stop, PlayedOut, Interrupted, Halt, Finish
<1>4. CASE Seek(s)
  <2>1. failed' = failed \/ failed' = [failed EXCEPT ![s] = TRUE]
    BY <1>4 DEF Seek, Continue, Finish
  <2> QED BY <2>1
<1>5. CASE Edit(s)
  <2>1. failed' = failed \/ failed' = [failed EXCEPT ![s] = TRUE]
    BY <1>5 DEF Edit, Continue, Finish
  <2> QED BY <2>1
<1>6. CASE Flushed(s) \/ Defer(s)
  BY <1>6 DEF Flushed, Defer
<1>7. CASE Acquire(s) \/ ReadProfile(s) \/ Claim(s) \/ Begin(s) \/ Format(s)
  BY <1>7 DEF Acquire, ReadProfile, Claim, Begin, Format
<1>8. CASE SendTrack(s) \/ SendAudio(s) \/ SendTrackEnd(s) \/ SendEof(s)
  BY <1>8 DEF SendTrack, SendAudio, SendTrackEnd, SendEof
<1>9. CASE Acknowledge(s) \/ ControlSaved(s) \/ SendSave(s) \/ Write(s)
  BY <1>9 DEF Acknowledge, ControlSaved, SendSave, Write, Take, Publish, DoNotPublish
<1> QED
  BY <1>1, <1>2, <1>3, <1>4, <1>5, <1>6, <1>7, <1>8, <1>9 DEF Advance

\* A session that does not act keeps its last save.
LEMMA OthersKeepLast ==
  ASSUME IInv, NEW s \in Sessions, NEW t \in Sessions, t # s, Last(t), Same(t),
         failed'[t] = failed[t], written' = written \/ Held(s)
  PROVE  Last(t)'
<1>1. Writes(t)' = Writes(t)
  BY DEF Same, Writes
<1>2. phase[t] \in Loaded => written' = written
  BY DEF IInv, Local, Owned, Held, Loaded
<1> QED
  BY <1>1, <1>2 DEF Last, Same, Loaded

\* The session ends: its last save is the only one.
LEMMA FinishLast ==
  ASSUME IInv, NEW s \in Sessions, Last(s), NEW state, NEW fails,
         phase[s] \in {"opening", "waiting", "playing", "saving"},
         Finish(s, state, fails), UNCHANGED <<queue, writing>>, reply'[s] = "none"
  PROVE  Last(s)'
<1>0. Shapes
  BY DEF IInv
<1>1. PICK item : item = [state |-> state, expected |-> state.revision, reply |-> "final"]
  OBVIOUS
<1>2. /\ snap'[s] = state /\ saving'[s] = {item} /\ phase'[s] = "flushing"
      /\ queue'[s] = queue[s] /\ writing'[s] = writing[s] /\ item.state = state
  BY <1>0, <1>1 DEF Finish, Shapes, OnSessions
<1>3. Finals(Range(queue[s])) = {} /\ Finals(writing[s]) = {}
  BY DEF Last, Finals, Writes
<1>4. Finals(Writes(s)') \subseteq {item}
  BY <1>2, <1>3 DEF Finals, Writes
<1> QED
  BY <1>2, <1>3, <1>4 DEF Last

LEMMA EndingLast ==
  ASSUME IInv, NEW s \in Sessions, Last(s),
         \/ DoNotBegin(s) \/ NoFormat(s) \/ ControlNotSaved(s)
         \/ Stop(s) \/ PlayedOut(s) \/ Interrupted(s)
  PROVE  Last(s)'
<1>0. Shapes /\ Answering(s)
  BY DEF IInv, Local
<1>1. /\ \E state, fails : Finish(s, state, fails)
      /\ UNCHANGED <<queue, writing>>
      /\ phase[s] \in {"opening", "waiting", "playing", "saving"}
      /\ reply'[s] = "none"
  <2>1. CASE DoNotBegin(s) \/ NoFormat(s)
    BY <1>0, <2>1 DEF DoNotBegin, NoFormat, Answering
  <2>2. CASE ControlNotSaved(s)
    BY <1>0, <2>2 DEF ControlNotSaved, Shapes, OnSessions
  <2>3. CASE Stop(s) \/ PlayedOut(s) \/ Interrupted(s)
    BY <1>0, <2>3 DEF Stop, PlayedOut, Interrupted, Halt, Answering
  <2> QED BY <2>1, <2>2, <2>3
<1> QED
  BY <1>1, FinishLast

\* While a session plays on, no last save is on its way.
LEMMA PlayingLast ==
  ASSUME IInv, NEW s \in Sessions, Last(s),
         phase'[s] \in {"opening", "waiting", "playing", "saving"},
         phase[s] \in {"claiming", "opening", "waiting", "playing", "saving"},
         \A item \in Writes(s)' : item \in Writes(s) \/ item.reply # "final"
  PROVE  Last(s)'
<1>1. Finals(Writes(s)) = {}
  BY ShortQueues DEF IInv, Local, Owned, Last, Loaded, Finals, Writes
<1> QED
  BY <1>1 DEF Last, Finals

LEMMA ControlLast ==
  ASSUME IInv, NEW s \in Sessions, Last(s), Seek(s) \/ Edit(s)
  PROVE  Last(s)'
<1>0. Shapes /\ Answering(s) /\ phase[s] = "playing"
  BY DEF IInv, Local, Seek, Edit
<1>1. /\ UNCHANGED <<reply, queue, writing>>
      /\ \/ \E state, undo : Continue(s, state, undo)
         \/ \E state : Finish(s, state, TRUE)
  <2>1. CASE Seek(s)
    BY <2>1 DEF Seek
  <2>2. CASE Edit(s)
    BY <2>2 DEF Edit
  <2> QED BY <2>1, <2>2
<1>2. ASSUME NEW state, NEW undo, Continue(s, state, undo) PROVE Last(s)'
  <2>1. PICK saved : saving' = [saving EXCEPT ![s] =
          {[state |-> saved, expected |-> state.revision, reply |-> "control"]}]
    BY <1>2 DEF Continue
  <2>2. phase'[s] = "saving" /\ queue'[s] = queue[s] /\ writing'[s] = writing[s]
    BY <1>0, <1>1, <1>2 DEF Continue, Shapes, OnSessions
  <2>3. \A item \in saving'[s] : item.reply = "control"
    BY <1>0, <2>1 DEF Shapes, OnSessions
  <2>4. \A item \in Writes(s)' : item \in Writes(s) \/ item.reply # "final"
    BY <2>2, <2>3 DEF Writes
  <2> QED BY <1>0, <2>2, <2>4, PlayingLast
<1>3. ASSUME NEW state, Finish(s, state, TRUE) PROVE Last(s)'
  <2>1. reply'[s] = "none"
    BY <1>0, <1>1 DEF Answering
  <2>2. UNCHANGED <<queue, writing>> /\ \E fails : Finish(s, state, fails)
    BY <1>1, <1>3
  <2>3. phase[s] \in {"opening", "waiting", "playing", "saving"}
    BY <1>0
  <2> QED BY <2>1, <2>2, <2>3, FinishLast
<1> QED
  BY <1>1, <1>2, <1>3

LEMMA GoingOnLast ==
  ASSUME IInv, NEW s \in Sessions, Last(s),
         \/ Claim(s) \/ Begin(s) \/ Format(s) \/ Acknowledge(s) \/ ControlSaved(s)
         \/ SendTrack(s) \/ SendAudio(s) \/ SendTrackEnd(s) \/ SendEof(s)
  PROVE  Last(s)'
<1>0. Shapes
  BY DEF IInv
<1>1. CASE Acknowledge(s)
  <2>1. PICK acked :
          /\ UNCHANGED <<phase, saving, writing>>
          /\ \/ queue' = queue
             \/ queue' = [queue EXCEPT ![s] =
                  <<[state |-> AtCursor(snap[s], stream[s].line, acked),
                     expected |-> snap[s].revision, reply |-> "none"]>>]
    BY <1>1 DEF Acknowledge
  <2>2. PICK item : item.reply = "none" /\ (queue'[s] = queue[s] \/ queue'[s] = <<item>>)
    <3>1. PICK item : item = [state |-> AtCursor(snap[s], stream[s].line, acked),
                              expected |-> snap[s].revision, reply |-> "none"]
      OBVIOUS
    <3>2. item.reply = "none"
      BY <3>1
    <3> QED BY <1>0, <2>1, <3>1, <3>2 DEF Shapes, OnSessions
  <2>3. Range(queue'[s]) \subseteq Range(queue[s]) \cup {item}
    BY <2>2, ShortQueues
  <2>4. \A x \in Writes(s)' : x \in Writes(s) \/ x.reply # "final"
    BY <2>1, <2>2, <2>3 DEF Writes
  <2>5. phase[s] = "playing" /\ phase'[s] = "playing"
    BY <1>1, <2>1 DEF Acknowledge
  <2> QED BY <2>4, <2>5, PlayingLast
<1>2. CASE SendTrack(s) \/ SendAudio(s) \/ SendTrackEnd(s) \/ SendEof(s)
  <2>1. phase[s] = "playing"
    BY <1>2 DEF SendTrack, SendAudio, SendTrackEnd, SendEof
  <2>2. UNCHANGED <<phase, saving, queue, writing>>
    BY <1>2 DEF SendTrack, SendAudio, SendTrackEnd, SendEof, writer
  <2> QED BY <2>1, <2>2, PlayingLast DEF Writes
<1>3. CASE Claim(s) \/ Begin(s) \/ Format(s) \/ ControlSaved(s)
  <2>1. /\ phase[s] \in {"claiming", "opening", "waiting", "saving"}
        /\ phase'[s] \in {"opening", "waiting", "playing"}
    BY <1>0, <1>3 DEF Claim, Begin, Format, ControlSaved, Shapes, OnSessions
  <2>2. UNCHANGED <<saving, queue, writing>>
    BY <1>3 DEF Claim, Begin, Format, ControlSaved, writer
  <2> QED BY <2>1, <2>2, PlayingLast DEF Writes
<1> QED
  BY <1>1, <1>2, <1>3

\* Nothing is expected before a session has claimed the profile, or after its end.
LEMMA OutsideLast ==
  ASSUME IInv, NEW s \in Sessions,
         Acquire(s) \/ ReadProfile(s) \/ GiveUp(s) \/ Release(s) \/ ReleaseLate(s) \/ Defer(s)
  PROVE  Last(s)'
<1>1. phase'[s] \in {"reading", "claiming", "closed", "deferred"}
  BY DEF IInv, Shapes, OnSessions, Acquire, ReadProfile, GiveUp, Release, ReleaseLate,
         Defer, Forget
<1> QED
  BY <1>1 DEF Last

\* The answer that counts is that of the last save.
LEMMA FlushedLast ==
  ASSUME IInv, OnSessions(failed), NEW s \in Sessions, Last(s), Flushed(s)
  PROVE  Last(s)'
<1>1. /\ phase[s] = "flushing" /\ phase'[s] = "draining" /\ saving'[s] = {}
      /\ ~failed'[s] => reply[s] = "saved"
      /\ UNCHANGED <<written, snap, queue, writing>>
  BY DEF IInv, Shapes, OnSessions, Flushed
<1>2. Writes(s)' \subseteq Writes(s)
  BY <1>1 DEF Writes
<1> QED
  BY <1>1, <1>2 DEF Last

LEMMA SentLast ==
  ASSUME IInv, NEW s \in Sessions, Last(s), SendSave(s) \/ Take(s)
  PROVE  Last(s)'
<1>0. Local(s) /\ Shapes
  BY DEF IInv
<1>1. CASE SendSave(s)
  <2>1. PICK item \in saving[s] : queue' = [queue EXCEPT ![s] = <<item>>]
    BY <1>1 DEF SendSave
  <2>2. /\ queue[s] = <<>> /\ queue'[s] = <<item>> /\ saving'[s] = {}
        /\ UNCHANGED <<written, phase, snap, reply, writing, failed>>
    BY <1>0, <1>1, <2>1 DEF SendSave, Shapes, OnSessions, own
  <2>3. Range(queue'[s]) = {item} /\ Writes(s)' \subseteq Writes(s)
    BY <2>1, <2>2, ShortQueues DEF Writes
  <2>4. Finals(writing[s]) = {} \/ phase[s] # "flushing"
    BY <2>1 DEF Last
  <2>5. Writes(s) # {}
    BY <2>1 DEF Writes
  <2> QED BY <2>2, <2>3, <2>4, <2>5 DEF Last, Finals
<1>2. CASE Take(s)
  <2>1. queue[s] # <<>> /\ phase[s] \in Loaded
    BY <1>2, WriterLoaded DEF Take
  <2>2. PICK item : queue[s] = <<item>>
    BY <1>0, <2>1 DEF Local, Chain
  <2>3. /\ queue'[s] = <<>> /\ writing'[s] = {item}
        /\ UNCHANGED <<written, phase, snap, saving, reply, failed>>
    BY <1>0, <1>2, <2>2, ShortQueues DEF Take, Shapes, OnSessions, own
  <2>4. Range(queue[s]) = {item} /\ Range(queue'[s]) = {}
    BY <2>2, <2>3, ShortQueues
  <2>5. Writes(s)' \subseteq Writes(s) /\ Writes(s) # {}
    BY <2>3, <2>4 DEF Writes
  <2>6. Finals({item}) # {} /\ phase[s] = "flushing" => saving[s] = {}
    BY <2>4 DEF Last
  <2> QED BY <2>3, <2>4, <2>5, <2>6 DEF Last, Finals
<1> QED
  BY <1>1, <1>2

LEMMA PublishedLast ==
  ASSUME IInv, NEW s \in Sessions, Last(s), Publish(s) \/ DoNotPublish(s)
  PROVE  Last(s)'
<1>0. Shapes
  BY DEF IInv
<1>1. PICK item \in writing[s] :
        \/ /\ written' = item.state
           /\ reply' = [reply EXCEPT ![s] = IF Awaited(s, item) THEN "saved" ELSE reply[s]]
        \/ /\ written' = written
           /\ reply' = [reply EXCEPT ![s] = IF Awaited(s, item) THEN "refused" ELSE reply[s]]
  BY DEF Publish, DoNotPublish
<1>2. /\ writing'[s] = {}
      /\ UNCHANGED <<phase, snap, saving, queue, failed>>
  BY <1>0 DEF Publish, DoNotPublish, Shapes, OnSessions, own
<1>3. item \in Writes(s) /\ Writes(s)' \subseteq Writes(s)
  BY <1>1, <1>2 DEF Writes
<1>4. CASE phase[s] = "flushing"
  <2>1. reply[s] = "none"
    BY <1>3, <1>4 DEF Last
  <2>2. CASE item.reply = "final"
    <3>1. item \in Finals(writing[s]) /\ item \in Finals(Writes(s))
      BY <1>1, <1>3, <2>2 DEF Finals
    <3>2. queue[s] = <<>> /\ saving[s] = {} /\ item.state = snap[s]
      BY <1>4, <3>1 DEF Last
    <3>3. Writes(s)' = {}
      BY <1>2, <3>2, ShortQueues DEF Writes
    <3>4. reply'[s] = "saved" => written' = snap[s]
      BY <1>0, <1>1, <1>4, <2>1, <2>2, <3>2 DEF Shapes, OnSessions, Awaited
    <3> QED BY <1>2, <1>4, <3>2, <3>3, <3>4, ShortQueues DEF Last, Finals
  <2>3. CASE item.reply # "final"
    <3>1. reply'[s] = "none"
      BY <1>0, <1>1, <1>4, <2>1, <2>3 DEF Shapes, OnSessions, Awaited
    <3> QED BY <1>2, <1>3, <1>4, <3>1 DEF Last, Finals
  <2> QED BY <2>2, <2>3
<1>5. CASE phase[s] # "flushing"
  BY <1>2, <1>3, <1>5 DEF Last, Finals
<1> QED
  BY <1>4, <1>5

LEMMA LastInvHolds == Spec => []LastInv
<1>1. Init => LastInv
  <2>1. ASSUME Init, NEW s \in Sessions PROVE Last(s)
    BY <2>1 DEF Init, Last
  <2> QED BY <2>1 DEF Init, LastInv, OnSessions
<1>2. IInv /\ LastInv /\ [Next]_vars => LastInv'
  <2> SUFFICES ASSUME IInv, LastInv, [Next]_vars PROVE LastInv'
    OBVIOUS
  <2>1. ASSUME NEW s \in Sessions, Acquire(s) \/ Advance(s) \/ SendSave(s) \/ Write(s)
        PROVE  LastInv'
    <3>1. Last(s) /\ OnSessions(failed)
      BY DEF LastInv
    <3>2. Alone(s)
      BY <2>1, AdvanceAlone, WriteAlone DEF IInv
    <3>3. written' = written \/ Held(s)
      <4>1. CASE Claim(s)
        BY <4>1, ClaimLocal
      <4>2. CASE Publish(s) \/ DoNotPublish(s)
        BY <4>2, PublishLocal
      <4>3. CASE ~Claim(s) /\ ~(Publish(s) \/ DoNotPublish(s))
        <5>1. Acquire(s) \/ Advance(s) \/ SendSave(s) \/ Take(s)
          BY <2>1, <4>3 DEF Write
        <5> QED BY <4>3, <5>1, QuietStep
      <4> QED BY <4>1, <4>2, <4>3
    <3>4. Last(s)'
      BY <2>1, <3>1, EndingLast, ControlLast, GoingOnLast, OutsideLast, FlushedLast,
         SentLast, PublishedLast DEF Advance, Write
    <3>5. OnSessions(failed)' /\ \A t \in Sessions : t # s => failed'[t] = failed[t]
      BY <2>1, <3>1, FailedAlone
    <3>6. \A t \in Sessions : t # s => Last(t)'
      BY <3>2, <3>3, <3>5, OthersKeepLast DEF Alone, LastInv
    <3> QED BY <3>4, <3>5, <3>6 DEF LastInv
  <2>2. CASE Crash
    <3>1. ASSUME NEW s \in Sessions PROVE phase'[s] \in {"idle", "closed"}
      BY <2>2 DEF Crash
    <3> QED BY <2>2, <3>1 DEF Crash, LastInv, Last, OnSessions
  <2>3. CASE BackUp \/ Restore \/ UNCHANGED vars
    <3>1. UNCHANGED <<written, phase, snap, saving, reply, queue, writing, failed>>
      BY <2>3 DEF BackUp, Restore, vars, own, writer
    <3>2. ASSUME NEW s \in Sessions PROVE Last(s)'
      <4>1. Writes(s)' = Writes(s) /\ Last(s)
        BY <3>1 DEF Writes, LastInv
      <4> QED BY <3>1, <4>1 DEF Last
    <3> QED BY <3>1, <3>2 DEF LastInv, OnSessions
  <2> QED BY <2>1, <2>2, <2>3 DEF Next
<1> QED
  BY <1>1, <1>2, SessionInvariant, PTL DEF Spec

\* SavedIsDurable: when a session has ended without a failure, what was stored
\* last is its last state, whatever checkpoints and controls were still on
\* their way when it ended, and whatever was backed up or restored meanwhile.
THEOREM SavedStaysSaved == Spec => []SavedIsDurable
<1>1. LastInv => SavedIsDurable
  BY DEF LastInv, Last, SavedIsDurable
<1> QED
  BY <1>1, LastInvHolds, PTL
=============================================================================
