------------------------------- MODULE PcmQueue -------------------------------
(***************************************************************************)
(* The bounded hand-over of PCM from the decoding side to the callback of  *)
(* the audio device (aede-audio queue.rs), with the two ends that use it:  *)
(* the strict ("exact") and the ordinary ("native") output of aede play,   *)
(* and the preview player (output.rs).  One thread writes, the callback    *)
(* reads, and they share only atomic counters and the ring.                *)
(*                                                                         *)
(* Frames are handed over in order, so a frame is its position in the      *)
(* programme and the ring is the interval between two positions.  The      *)
(* atomics are written by one side each with release and read by the other *)
(* with acquire ordering: interleaving their accesses loses nothing.       *)
(***************************************************************************)
EXTENDS Naturals

CONSTANTS
  Players,      \* who may use the queue
  Lengths,      \* how many frames a programme may have
  Capacity,     \* frames of the ring
  MaxRequest,   \* bound of this model: frames that one callback asks for
  MaxCounted    \* bound of this model: where the counts of silence saturate

ASSUME PcmQueueAssumption ==
  /\ Players \subseteq {"exact", "native", "preview"}
  /\ Lengths \subseteq Nat
  /\ Capacity \in Nat \ {0}
  /\ MaxRequest \in Nat
  /\ MaxCounted \in Nat

VARIABLES
  player,       \* who uses the queue
  total,        \* frames of the programme: how many its source turns out to have
  published,    \* frames put into the ring; the ring's tail
  taken,        \* frames the callback has copied out; the ring's head
  submitted,    \* Counters.submitted_samples
  consumed,     \* Counters.consumed_samples
  closed,       \* Counters.closed
  failed,       \* Counters.failed; Signals.failed of the preview
  deviceFailed, \* DeviceStatus of aede play has seen a fatal error
  started,      \* the stream plays
  paused,
  cancelled,    \* Signals.cancel: the preview player is being dropped
  driver,       \* where the writing thread is
  callback,     \* where the callback is, and what it has read
  underruns,    \* Counters.underrun_frames
  finished,     \* Signals.finished
  silence       \* what was heard: not state of the program

vars == <<player, total, published, taken, submitted, consumed, closed, failed,
          deviceFailed, started, paused, cancelled, driver, callback, underruns,
          finished, silence>>

source  == <<player, total>>
control == <<source, deviceFailed, paused, cancelled>>
-----------------------------------------------------------------------------
Exact   == player = "exact"
Preview == player = "preview"

Queued == published - taken

Capped(count) == IF count > MaxCounted THEN MaxCounted ELSE count

NoCallback == [at |-> "idle", requested |-> 0, partial |-> FALSE, closed |-> FALSE,
               started |-> FALSE, took |-> FALSE, missing |-> 0]

\* inside: frames of silence between two frames of the programme; tail: since the
\* last frame; excused: in callbacks that saw no frame submitted yet.
Init ==
  /\ player \in Players
  /\ total \in Lengths
  /\ published = 0
  /\ taken = 0
  /\ submitted = 0
  /\ consumed = 0
  /\ closed = FALSE
  /\ failed = FALSE
  /\ deviceFailed = FALSE
  /\ started = Preview
  /\ paused = Preview
  /\ cancelled = FALSE
  /\ driver = "writing"
  /\ callback = NoCallback
  /\ underruns = 0
  /\ finished = FALSE
  /\ silence = [inside |-> 0, tail |-> 0, excused |-> 0]
-----------------------------------------------------------------------------
(***************************************************************************)
(* The writing thread.                                                     *)
(***************************************************************************)

\* In aede play the thread that writes also polls the controls between its steps,
\* and waits there while paused.  In the preview another thread owns the pause.
Awake == paused => Preview

\* StartState::ensure.
Ensure(ready) == started' = (started \/ (ready /\ ~paused))

Broken == failed \/ deviceFailed

\* Mutated form: the strict stream starts with the first block, as the other does.
EnsureBeforeWrite_Early == Ensure(TRUE)

\* The ordinary stream starts before its first frame, the strict one with a full
\* ring.  QueueSnapshot counts what was submitted and not consumed.
EnsureBeforeWrite == Ensure(Exact => submitted - consumed = Capacity)

CheckWrite ==
  /\ driver = "writing" /\ Awake
  /\ published < total
  /\ ~cancelled
  /\ IF Broken
     THEN driver' = "failed" /\ started' = started
     ELSE driver' = "checked" /\ EnsureBeforeWrite
  /\ UNCHANGED <<published, taken, submitted, consumed, closed, failed, control,
                 callback, underruns, finished, silence>>

\* Mutated form: the ring is taken to have room.
Accepted_All(frames) == frames

\* The largest prefix of complete frames that fits.
Accepted(frames) == IF frames > Capacity - Queued THEN Capacity - Queued ELSE frames

\* write_validated puts the frames into the ring; WouldBlock is tried again.
PublishFrames(frames) ==
  /\ driver = "checked"
  /\ published + frames <= total
  /\ published' = published + Accepted(frames)
  /\ driver' = IF Accepted(frames) = 0 THEN "writing" ELSE "counting"
  /\ UNCHANGED <<taken, submitted, consumed, closed, failed, started, control,
                 callback, underruns, finished, silence>>

CountSubmitted ==
  /\ driver = "counting"
  /\ submitted' = published
  /\ driver' = "writing"
  /\ UNCHANGED <<published, taken, consumed, closed, failed, started, control,
                 callback, underruns, finished, silence>>

\* The session starts the strict stream early when too many records are pending.
EnsureStarted ==
  /\ driver = "writing" /\ Awake
  /\ Exact
  /\ ~Broken
  /\ Ensure(submitted - consumed > 0)
  /\ UNCHANGED <<published, taken, submitted, consumed, closed, failed, control,
                 driver, callback, underruns, finished, silence>>

\* The decoder of the preview fails.
DecodeFails ==
  /\ Preview
  /\ driver = "writing"
  /\ failed' = (failed \/ ~cancelled)
  /\ driver' = "failed"
  /\ UNCHANGED <<published, taken, submitted, consumed, closed, started, control,
                 callback, underruns, finished, silence>>

\* A cancelled publish returns as if it had written everything.  The worker then
\* ends, or closes the input when that was the last publish.
GiveUp ==
  /\ driver = "writing"
  /\ cancelled
  /\ \E last \in BOOLEAN :
       /\ closed' = (closed \/ last)
       /\ driver' = "cancelled"
  /\ UNCHANGED <<published, taken, submitted, consumed, failed, started, control,
                 callback, underruns, finished, silence>>

\* close_input; the worker of the preview has nothing else to do.
Close ==
  /\ driver = "writing" /\ Awake
  /\ published = total
  /\ closed' = TRUE
  /\ driver' = IF Preview THEN "done" ELSE "draining"
  /\ UNCHANGED <<published, taken, submitted, consumed, failed, started, control,
                 callback, underruns, finished, silence>>

\* Mutated form: the drain does not start a stream that was never full.
EnsureAtDrain_Never == started' = started

EnsureAtDrain == Ensure(Exact /\ submitted - consumed > 0)

\* drain_progress first checks for failures and starts a strict stream.
DrainCheck ==
  /\ driver = "draining" /\ Awake
  /\ IF Broken
     THEN driver' = "failed" /\ started' = started
     ELSE driver' = "polling" /\ EnsureAtDrain
  /\ UNCHANGED <<published, taken, submitted, consumed, closed, failed, control,
                 callback, underruns, finished, silence>>

Drained == submitted = consumed

DrainRead ==
  /\ driver = "polling"
  /\ driver' = IF Drained THEN "done" ELSE "draining"
  /\ UNCHANGED <<published, taken, submitted, consumed, closed, failed, started,
                 control, callback, underruns, finished, silence>>

\* Five seconds of active time without a consumed frame.
DrainStalls ==
  /\ driver = "polling"
  /\ ~Drained
  /\ ~paused
  /\ driver' = "failed"
  /\ UNCHANGED <<published, taken, submitted, consumed, closed, failed, started,
                 control, callback, underruns, finished, silence>>
-----------------------------------------------------------------------------
(***************************************************************************)
(* The callback: render_mapped, and render around it in the preview.       *)
(***************************************************************************)
\* The preview looks for the end after each callback.
AfterRender == IF Preview THEN [callback EXCEPT !.at = "ending"] ELSE NoCallback

\* A strict callback first latches what the error callback has recorded.
StartCallback(requested, partial) ==
  /\ callback.at = "idle"
  /\ started /\ ~paused
  /\ ~(Preview /\ failed)
  /\ failed' = (failed \/ (Exact /\ deviceFailed))
  /\ callback' = [NoCallback EXCEPT !.at = "starting", !.requested = requested,
                                    !.partial = partial, !.closed = closed]
  /\ UNCHANGED <<published, taken, submitted, consumed, closed, started, control,
                 driver, underruns, finished, silence>>

ReadStarted ==
  /\ callback.at = "starting"
  /\ callback' = [callback EXCEPT !.at = "checking", !.started = (submitted > 0)]
  /\ UNCHANGED <<published, taken, submitted, consumed, closed, failed, started,
                 control, driver, underruns, finished, silence>>

\* The queue of the preview has no failure handle; its player checks its own.
Refuses == failed /\ ~Preview

CheckFailed ==
  /\ callback.at = "checking"
  /\ failed' = (failed \/ (Exact /\ callback.partial))
  /\ callback' = IF Refuses \/ (Exact /\ callback.partial) THEN NoCallback
                 ELSE IF callback.requested = 0 THEN AfterRender
                 ELSE [callback EXCEPT !.at = "rendering"]
  /\ UNCHANGED <<published, taken, submitted, consumed, closed, started, control,
                 driver, underruns, finished, silence>>

Took == IF callback.requested > Queued THEN Queued ELSE callback.requested

\* Frames first, then silence.
Render ==
  /\ callback.at = "rendering"
  /\ taken' = taken + Took
  /\ LET missing == callback.requested - Took IN
     /\ callback' = [callback EXCEPT !.at = "counting", !.took = (Took > 0),
                                     !.missing = missing]
     /\ silence' =
          [inside |-> IF Took > 0 THEN Capped(silence.inside + silence.tail)
                                  ELSE silence.inside,
           tail |-> IF Took > 0 THEN Capped(missing)
                    ELSE IF taken > 0 THEN Capped(silence.tail + missing)
                    ELSE 0,
           excused |-> IF callback.started THEN silence.excused
                       ELSE Capped(silence.excused + missing)]
  /\ UNCHANGED <<published, submitted, consumed, closed, failed, started, control,
                 driver, underruns, finished>>

\* Strict queues look at the closure again, others have looked before the copy.
CountConsumed ==
  /\ callback.at = "counting"
  /\ consumed' = taken
  /\ callback' = [callback EXCEPT !.at = IF Exact THEN "closing" ELSE "judging"]
  /\ UNCHANGED <<published, taken, submitted, closed, failed, started, control,
                 driver, underruns, finished, silence>>

ReadClosed ==
  /\ callback.at = "closing"
  /\ callback' = [callback EXCEPT !.at = "judging", !.closed = closed]
  /\ UNCHANGED <<published, taken, submitted, consumed, closed, failed, started,
                 control, driver, underruns, finished, silence>>

\* Mutated form: only a callback that found some frames is counted.
Shortage_Partial ==
  /\ callback.missing > 0
  /\ callback.took
  /\ ~(callback.closed /\ (Exact => Queued = 0))

\* Frames were missing although the programme had begun and had not ended.
Shortage ==
  /\ callback.missing > 0
  /\ callback.started \/ (Exact /\ callback.took)
  /\ ~(callback.closed /\ (Exact => Queued = 0))

Judge ==
  /\ callback.at = "judging"
  /\ underruns' = IF Shortage THEN Capped(underruns + callback.missing) ELSE underruns
  /\ failed' = (failed \/ (Exact /\ Shortage))
  /\ callback' = AfterRender
  /\ UNCHANGED <<published, taken, submitted, consumed, closed, started, control,
                 driver, finished, silence>>

EndReadsClosed ==
  /\ callback.at = "ending"
  /\ callback' = [callback EXCEPT !.at = "ended", !.closed = closed]
  /\ UNCHANGED <<published, taken, submitted, consumed, closed, failed, started,
                 control, driver, underruns, finished, silence>>

\* Mutated form: a callback that ran short takes the ring for empty.
RingEmpty_RanShort == callback.missing > 0

RingEmpty == Queued = 0

EndReadsRing ==
  /\ callback.at = "ended"
  /\ finished' = (finished \/ (callback.closed /\ RingEmpty))
  /\ callback' = NoCallback
  /\ UNCHANGED <<published, taken, submitted, consumed, closed, failed, started,
                 control, driver, underruns, silence>>
-----------------------------------------------------------------------------
(***************************************************************************)
(* The user and the host.                                                  *)
(***************************************************************************)
\* Between the steps of the thread that writes, or from another one.
Controllable == ~cancelled /\ (Preview \/ driver \in {"writing", "draining"})

\* NativeOutput looks for failures first; its session ends with the error.
SetPaused(wanted) ==
  IF Broken /\ ~Preview THEN driver' = "failed" /\ paused' = paused
                        ELSE driver' = driver /\ paused' = wanted

Pause ==
  /\ Controllable
  /\ SetPaused(TRUE)
  /\ UNCHANGED <<source, published, taken, submitted, consumed, closed, failed,
                 deviceFailed, started, cancelled, callback, underruns, finished,
                 silence>>

Resume ==
  /\ Controllable
  /\ SetPaused(FALSE)
  /\ UNCHANGED <<source, published, taken, submitted, consumed, closed, failed,
                 deviceFailed, started, cancelled, callback, underruns, finished,
                 silence>>

\* MinimalPlayer is dropped, also by a seek that replaces it.
Cancel ==
  /\ Preview
  /\ paused' = TRUE
  /\ cancelled' = TRUE
  /\ UNCHANGED <<source, published, taken, submitted, consumed, closed, failed,
                 deviceFailed, started, driver, callback, underruns, finished, silence>>

HostFails ==
  /\ deviceFailed' = ~Preview
  /\ failed' = (failed \/ Exact \/ Preview)
  /\ UNCHANGED <<source, published, taken, submitted, consumed, closed, started,
                 paused, cancelled, driver, callback, underruns, finished, silence>>
-----------------------------------------------------------------------------
DriverStep ==
  \/ CheckWrite
  \/ \E frames \in 1..total : PublishFrames(frames)
  \/ CountSubmitted
  \/ GiveUp
  \/ Close
  \/ DrainCheck
  \/ DrainRead

RenderStep ==
  \/ ReadStarted
  \/ CheckFailed
  \/ Render
  \/ CountConsumed
  \/ ReadClosed
  \/ Judge
  \/ EndReadsClosed
  \/ EndReadsRing

Next ==
  \/ DriverStep
  \/ EnsureStarted
  \/ DecodeFails
  \/ DrainStalls
  \/ \E requested \in 0..MaxRequest, partial \in BOOLEAN : StartCallback(requested, partial)
  \/ RenderStep
  \/ Pause
  \/ Resume
  \/ Cancel
  \/ HostFails

Spec == Init /\ [][Next]_vars

\* Both threads run, and the device asks for whole frames again and again while it
\* plays, whatever else it asks for.
FairSpec ==
  /\ Spec
  /\ WF_vars(DriverStep)
  /\ WF_vars(RenderStep)
  /\ SF_vars(\E requested \in 1..MaxRequest : StartCallback(requested, FALSE))
-----------------------------------------------------------------------------
CallbackState ==
  [at : {"idle", "starting", "checking", "rendering", "counting", "closing", "judging",
         "ending", "ended"},
   requested : 0..MaxRequest, partial : BOOLEAN, closed : BOOLEAN, started : BOOLEAN,
   took : BOOLEAN, missing : 0..MaxRequest]

TypeOK ==
  /\ player \in Players
  /\ total \in Lengths
  /\ published \in 0..total
  /\ taken \in 0..published
  /\ Queued \in 0..Capacity
  /\ submitted \in 0..published
  /\ consumed \in 0..taken
  /\ closed \in BOOLEAN
  /\ failed \in BOOLEAN
  /\ deviceFailed \in BOOLEAN
  /\ started \in BOOLEAN
  /\ paused \in BOOLEAN
  /\ cancelled \in BOOLEAN
  /\ driver \in {"writing", "checked", "counting", "draining", "polling", "done",
                 "failed", "cancelled"}
  /\ callback \in CallbackState
  /\ underruns \in 0..MaxCounted
  /\ finished \in BOOLEAN
  /\ silence \in [inside : 0..MaxCounted, tail : 0..MaxCounted, excused : 0..MaxCounted]

\* "An underrun during an active source span inserts missing audio": a strict output
\* stops instead.  Whatever the callback and the writer do between each other's
\* reads, no silence is ever followed by another frame of the programme.
StrictExact == Exact => silence.inside = 0

\* "native output must be drained before finalization", "Natural EOF after all
\* admitted PCM has drained": playback is reported as complete, and a preview that
\* is not being dropped shows its end, only when every frame has been taken by the
\* device.
CompleteIsPlayed ==
  (driver = "done" /\ ~Preview) \/ (finished /\ ~cancelled) => taken = total

\* Every frame of silence inside the programme is counted as missing, except
\* in callbacks that began before the first block was counted as submitted.
GapsCounted == ~Exact => silence.inside <= underruns + silence.excused

\* When the user stops pausing, playback ends by itself: neither side waits for
\* the other with a ring that is full, empty, or was never started.
Ended == IF Preview THEN finished \/ failed \/ cancelled
                    ELSE driver \in {"done", "failed"}
PlaybackEnds == <>[]~paused => <>Ended
=============================================================================
