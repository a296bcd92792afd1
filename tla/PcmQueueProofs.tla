---------------------------- MODULE PcmQueueProofs ----------------------------
(***************************************************************************)
(* What the hand-over of PCM guarantees for every capacity, every length   *)
(* of the programme and every size of the callback's buffer.               *)
(***************************************************************************)
EXTENDS PcmQueue, TLAPS

\* The input is sealed and the callback has copied all of it.
Complete == closed /\ published = taken

\* The writer counts what it publishes before it looks at anything else, seals
\* the input only at the end, and cannot write afterwards.
DriverInv ==
  /\ driver # "counting" => submitted = published
  /\ driver \in {"draining", "polling", "done"} => published = total
  /\ driver = "done" /\ ~Preview => taken = total
  /\ closed => driver \in {"draining", "polling", "done", "failed", "cancelled"}
  /\ closed => published = total \/ cancelled

\* What the callback has read about the other side still holds; a strict stream
\* never runs before something has been counted as submitted.
CallbackInv ==
  /\ callback.at # "counting" => consumed = taken
  /\ callback.at # "idle" /\ callback.closed => closed
  /\ Exact /\ started => submitted > 0
  /\ Exact /\ callback.at # "idle" => started
  /\ Exact /\ callback.at \in {"checking", "rendering", "counting", "closing", "judging"} =>
       callback.started
  /\ callback.at \in {"ending", "ended"} => Preview
  /\ callback.at = "rendering" => callback.requested > 0

\* Silence after a frame of a strict programme means that the programme is over,
\* that the queue has failed, or that this very callback is about to find out.
SilenceInv ==
  Exact =>
    /\ silence.inside = 0
    /\ callback.at \in {"idle", "starting", "checking"} =>
         silence.tail = 0 \/ failed \/ Complete
    /\ callback.at = "rendering" => silence.tail = 0 \/ Complete
    /\ callback.at \in {"counting", "closing", "judging"} =>
         silence.tail = 0 \/ callback.missing > 0

FinishInv == finished => Complete

\* The inductive invariant.
IInv == TypeOK /\ DriverInv /\ CallbackInv /\ SilenceInv /\ FinishInv

\* Saturated counts stay in their range.
LEMMA CappedRange ==
  ASSUME NEW count \in Nat
  PROVE  Capped(count) \in 0..MaxCounted /\ (count = 0 => Capped(count) = 0)
  BY PcmQueueAssumption DEF Capped

LEMMA InitInv == Init => IInv
<1> SUFFICES ASSUME Init
             PROVE  IInv
  OBVIOUS
<1>0. total \in Nat
  BY PcmQueueAssumption DEF Init
<1>1. /\ closed \in BOOLEAN /\ failed \in BOOLEAN /\ deviceFailed \in BOOLEAN
      /\ started \in BOOLEAN /\ paused \in BOOLEAN /\ cancelled \in BOOLEAN
      /\ finished \in BOOLEAN
  BY DEF Init, Preview
<1>2. callback \in CallbackState
  <2>1. 0 \in 0..MaxRequest
    BY PcmQueueAssumption
  <2> QED BY <2>1 DEF Init, NoCallback, CallbackState
<1>3. TypeOK
  BY <1>0, <1>1, <1>2, PcmQueueAssumption DEF Init, TypeOK, Queued
<1>4. DriverInv /\ FinishInv
  BY DEF Init, DriverInv, FinishInv
<1>5. CallbackInv /\ SilenceInv
  BY PcmQueueAssumption DEF Init, CallbackInv, SilenceInv, NoCallback, Exact, Preview
<1> QED BY <1>3, <1>4, <1>5 DEF IInv

LEMMA StepInv == IInv /\ [Next]_vars => IInv'
<1> SUFFICES ASSUME IInv, [Next]_vars
             PROVE  IInv'
  OBVIOUS
<1> USE PcmQueueAssumption DEF IInv, source, control, Exact, Preview, Queued, Complete
<1>1. CASE CheckWrite
  <2>0. started' \in BOOLEAN
    BY <1>1 DEF CheckWrite, TypeOK, Ensure, EnsureBeforeWrite
  <2>1. TypeOK'
    BY <1>1, <2>0
    DEF CheckWrite, TypeOK, CallbackState, Ensure, EnsureBeforeWrite
  <2>2. DriverInv'
    BY <1>1
    DEF CheckWrite, TypeOK, DriverInv, Ensure, EnsureBeforeWrite
  <2>3. CallbackInv'
    BY <1>1
    DEF CheckWrite, TypeOK, DriverInv, CallbackInv, CallbackState, Ensure, EnsureBeforeWrite
  <2>4. SilenceInv'
    BY <1>1
    DEF CheckWrite, TypeOK, DriverInv, CallbackInv, SilenceInv, CallbackState, Ensure, EnsureBeforeWrite
  <2>5. FinishInv'
    BY <1>1
    DEF CheckWrite, TypeOK, DriverInv, CallbackInv, FinishInv, CallbackState, Ensure, EnsureBeforeWrite
  <2> QED BY <2>1, <2>2, <2>3, <2>4, <2>5
<1>2. ASSUME NEW frames \in 1..total, PublishFrames(frames)
      PROVE  IInv'
  <2>1. TypeOK'
    BY <1>2
    DEF PublishFrames, TypeOK, CallbackState, Accepted
  <2>2. DriverInv'
    BY <1>2
    DEF PublishFrames, TypeOK, DriverInv, Accepted
  <2>3. CallbackInv'
    BY <1>2
    DEF PublishFrames, TypeOK, DriverInv, CallbackInv, CallbackState, Accepted
  <2>4. SilenceInv'
    BY <1>2
    DEF PublishFrames, TypeOK, DriverInv, CallbackInv, SilenceInv, CallbackState, Accepted
  <2>5. FinishInv'
    BY <1>2
    DEF PublishFrames, TypeOK, DriverInv, CallbackInv, FinishInv, CallbackState, Accepted
  <2> QED BY <2>1, <2>2, <2>3, <2>4, <2>5
<1>3. CASE CountSubmitted
  <2>1. TypeOK'
    BY <1>3
    DEF CountSubmitted, TypeOK, CallbackState
  <2>2. DriverInv'
    BY <1>3
    DEF CountSubmitted, TypeOK, DriverInv
  <2>3. CallbackInv'
    BY <1>3
    DEF CountSubmitted, TypeOK, DriverInv, CallbackInv, CallbackState
  <2>4. SilenceInv'
    BY <1>3
    DEF CountSubmitted, TypeOK, DriverInv, CallbackInv, SilenceInv, CallbackState
  <2>5. FinishInv'
    BY <1>3
    DEF CountSubmitted, TypeOK, DriverInv, CallbackInv, FinishInv, CallbackState
  <2> QED BY <2>1, <2>2, <2>3, <2>4, <2>5
<1>4. CASE GiveUp
  <2>1. TypeOK'
    BY <1>4
    DEF GiveUp, TypeOK, CallbackState
  <2>2. DriverInv'
    BY <1>4
    DEF GiveUp, TypeOK, DriverInv
  <2>3. CallbackInv'
    BY <1>4
    DEF GiveUp, TypeOK, DriverInv, CallbackInv, CallbackState
  <2>4. SilenceInv'
    BY <1>4
    DEF GiveUp, TypeOK, DriverInv, CallbackInv, SilenceInv, CallbackState
  <2>5. FinishInv'
    BY <1>4
    DEF GiveUp, TypeOK, DriverInv, CallbackInv, FinishInv, CallbackState
  <2> QED BY <2>1, <2>2, <2>3, <2>4, <2>5
<1>5. CASE Close
  <2>1. TypeOK'
    BY <1>5
    DEF Close, TypeOK, CallbackState
  <2>2. DriverInv'
    BY <1>5
    DEF Close, TypeOK, DriverInv
  <2>3. CallbackInv'
    BY <1>5
    DEF Close, TypeOK, DriverInv, CallbackInv, CallbackState
  <2>4. SilenceInv'
    BY <1>5
    DEF Close, TypeOK, DriverInv, CallbackInv, SilenceInv, CallbackState
  <2>5. FinishInv'
    BY <1>5
    DEF Close, TypeOK, DriverInv, CallbackInv, FinishInv, CallbackState
  <2> QED BY <2>1, <2>2, <2>3, <2>4, <2>5
<1>6. CASE DrainCheck
  <2>0. started' \in BOOLEAN
    BY <1>6 DEF DrainCheck, TypeOK, Ensure, EnsureAtDrain
  <2>1. TypeOK'
    BY <1>6, <2>0
    DEF DrainCheck, TypeOK, CallbackState, Ensure, EnsureAtDrain
  <2>2. DriverInv'
    BY <1>6
    DEF DrainCheck, TypeOK, DriverInv, Ensure, EnsureAtDrain
  <2>3. CallbackInv'
    BY <1>6
    DEF DrainCheck, TypeOK, DriverInv, CallbackInv, CallbackState, Ensure, EnsureAtDrain
  <2>4. SilenceInv'
    BY <1>6
    DEF DrainCheck, TypeOK, DriverInv, CallbackInv, SilenceInv, CallbackState, Ensure, EnsureAtDrain
  <2>5. FinishInv'
    BY <1>6
    DEF DrainCheck, TypeOK, DriverInv, CallbackInv, FinishInv, CallbackState, Ensure, EnsureAtDrain
  <2> QED BY <2>1, <2>2, <2>3, <2>4, <2>5
<1>7. CASE DrainRead
  <2>1. TypeOK'
    BY <1>7
    DEF DrainRead, TypeOK, CallbackState, Drained
  <2>2. DriverInv'
    BY <1>7
    DEF DrainRead, TypeOK, DriverInv, Drained
  <2>3. CallbackInv'
    BY <1>7
    DEF DrainRead, TypeOK, DriverInv, CallbackInv, CallbackState, Drained
  <2>4. SilenceInv'
    BY <1>7
    DEF DrainRead, TypeOK, DriverInv, CallbackInv, SilenceInv, CallbackState, Drained
  <2>5. FinishInv'
    BY <1>7
    DEF DrainRead, TypeOK, DriverInv, CallbackInv, FinishInv, CallbackState, Drained
  <2> QED BY <2>1, <2>2, <2>3, <2>4, <2>5
<1>8. CASE EnsureStarted
  <2>1. TypeOK'
    BY <1>8
    DEF EnsureStarted, TypeOK, CallbackState, Ensure
  <2>2. DriverInv'
    BY <1>8
    DEF EnsureStarted, TypeOK, DriverInv, Ensure
  <2>3. CallbackInv'
    BY <1>8
    DEF EnsureStarted, TypeOK, DriverInv, CallbackInv, CallbackState, Ensure
  <2>4. SilenceInv'
    BY <1>8
    DEF EnsureStarted, TypeOK, DriverInv, CallbackInv, SilenceInv, CallbackState, Ensure
  <2>5. FinishInv'
    BY <1>8
    DEF EnsureStarted, TypeOK, DriverInv, CallbackInv, FinishInv, CallbackState, Ensure
  <2> QED BY <2>1, <2>2, <2>3, <2>4, <2>5
<1>9. CASE DecodeFails
  <2>1. TypeOK'
    BY <1>9
    DEF DecodeFails, TypeOK, CallbackState
  <2>2. DriverInv'
    BY <1>9
    DEF DecodeFails, TypeOK, DriverInv
  <2>3. CallbackInv'
    BY <1>9
    DEF DecodeFails, TypeOK, DriverInv, CallbackInv, CallbackState
  <2>4. SilenceInv'
    BY <1>9
    DEF DecodeFails, TypeOK, DriverInv, CallbackInv, SilenceInv, CallbackState
  <2>5. FinishInv'
    BY <1>9
    DEF DecodeFails, TypeOK, DriverInv, CallbackInv, FinishInv, CallbackState
  <2> QED BY <2>1, <2>2, <2>3, <2>4, <2>5
<1>10. CASE DrainStalls
  <2>1. TypeOK'
    BY <1>10
    DEF DrainStalls, TypeOK, CallbackState
  <2>2. DriverInv'
    BY <1>10
    DEF DrainStalls, TypeOK, DriverInv
  <2>3. CallbackInv'
    BY <1>10
    DEF DrainStalls, TypeOK, DriverInv, CallbackInv, CallbackState
  <2>4. SilenceInv'
    BY <1>10
    DEF DrainStalls, TypeOK, DriverInv, CallbackInv, SilenceInv, CallbackState
  <2>5. FinishInv'
    BY <1>10
    DEF DrainStalls, TypeOK, DriverInv, CallbackInv, FinishInv, CallbackState
  <2> QED BY <2>1, <2>2, <2>3, <2>4, <2>5
<1>11. ASSUME NEW requested \in 0..MaxRequest, NEW partial \in BOOLEAN,
              StartCallback(requested, partial)
      PROVE  IInv'
  <2>0. callback' \in CallbackState
    <3>1. closed \in BOOLEAN /\ 0 \in 0..MaxRequest
      BY DEF TypeOK
    <3> QED BY <3>1, <1>11 DEF StartCallback, NoCallback, CallbackState
  <2>1. TypeOK'
    BY <1>11, <2>0 DEF StartCallback, TypeOK
  <2>2. DriverInv'
    BY <1>11
    DEF StartCallback, TypeOK, DriverInv, NoCallback
  <2>3. CallbackInv'
    BY <1>11
    DEF StartCallback, TypeOK, DriverInv, CallbackInv, CallbackState, NoCallback
  <2>4. SilenceInv'
    BY <1>11
    DEF StartCallback, TypeOK, DriverInv, CallbackInv, SilenceInv, CallbackState, NoCallback
  <2>5. FinishInv'
    BY <1>11
    DEF StartCallback, TypeOK, DriverInv, CallbackInv, FinishInv, CallbackState, NoCallback
  <2> QED BY <2>1, <2>2, <2>3, <2>4, <2>5
<1>12. CASE ReadStarted
  <2>0. callback' \in CallbackState
    <3>1. (submitted > 0) \in BOOLEAN /\ callback \in CallbackState
      BY DEF TypeOK
    <3> QED BY <3>1, <1>12 DEF ReadStarted, CallbackState
  <2>1. TypeOK'
    BY <1>12, <2>0 DEF ReadStarted, TypeOK
  <2>2. DriverInv'
    BY <1>12
    DEF ReadStarted, TypeOK, DriverInv
  <2>3. CallbackInv'
    BY <1>12
    DEF ReadStarted, TypeOK, DriverInv, CallbackInv, CallbackState
  <2>4. SilenceInv'
    BY <1>12
    DEF ReadStarted, TypeOK, DriverInv, CallbackInv, SilenceInv, CallbackState
  <2>5. FinishInv'
    BY <1>12
    DEF ReadStarted, TypeOK, DriverInv, CallbackInv, FinishInv, CallbackState
  <2> QED BY <2>1, <2>2, <2>3, <2>4, <2>5
<1>13. CASE CheckFailed
  <2>1. TypeOK'
    BY <1>13
    DEF CheckFailed, TypeOK, CallbackState, Refuses, AfterRender, NoCallback
  <2>2. DriverInv'
    BY <1>13
    DEF CheckFailed, TypeOK, DriverInv, Refuses, AfterRender, NoCallback
  <2>3. CallbackInv'
    BY <1>13
    DEF CheckFailed, TypeOK, DriverInv, CallbackInv, CallbackState, Refuses, AfterRender, NoCallback
  <2>4. SilenceInv'
    BY <1>13
    DEF CheckFailed, TypeOK, DriverInv, CallbackInv, SilenceInv, CallbackState, Refuses, AfterRender, NoCallback
  <2>5. FinishInv'
    BY <1>13
    DEF CheckFailed, TypeOK, DriverInv, CallbackInv, FinishInv, CallbackState, Refuses, AfterRender, NoCallback
  <2> QED BY <2>1, <2>2, <2>3, <2>4, <2>5
<1>14. CASE Render
  <2> DEFINE missing == callback.requested - Took
  <2>a. /\ Took \in 0..Queued /\ missing \in 0..MaxRequest
        /\ (Took > 0) \in BOOLEAN /\ callback \in CallbackState
    BY DEF TypeOK, CallbackState, Took
  <2>b. callback' = [callback EXCEPT !.at = "counting", !.took = (Took > 0),
                                     !.missing = missing]
    BY <1>14 DEF Render
  <2>c. callback' \in CallbackState
    <3> HIDE DEF missing
    <3> QED BY <2>a, <2>b DEF CallbackState
  <2>d. /\ Capped(silence.inside + silence.tail) \in 0..MaxCounted
        /\ Capped(missing) \in 0..MaxCounted
        /\ Capped(silence.tail + missing) \in 0..MaxCounted
        /\ Capped(silence.excused + missing) \in 0..MaxCounted
        /\ missing = 0 => Capped(missing) = 0
        /\ silence.tail = 0 /\ missing = 0 => Capped(silence.tail + missing) = 0
        /\ silence.inside = 0 /\ silence.tail = 0 => Capped(silence.inside + silence.tail) = 0
    <3>1. silence.inside \in Nat /\ silence.tail \in Nat /\ silence.excused \in Nat
      BY DEF TypeOK
    <3>2. missing \in Nat
      BY <2>a
    <3> HIDE DEF missing
    <3> QED BY <3>1, <3>2, CappedRange
  <2>e. silence' \in [inside : 0..MaxCounted, tail : 0..MaxCounted, excused : 0..MaxCounted]
    <3>1. /\ 0 \in 0..MaxCounted /\ silence.inside \in 0..MaxCounted
          /\ silence.excused \in 0..MaxCounted
      BY DEF TypeOK
    <3> QED BY <3>1, <2>d, <1>14 DEF Render
  <2>1. TypeOK'
    <3>1. taken' = taken + Took /\ taken' \in 0..published /\ Queued' \in 0..Capacity
      BY <2>a, <1>14 DEF Render, TypeOK
    <3>2. consumed \in 0..taken'
      BY <3>1, <2>a DEF TypeOK
    <3> QED BY <3>1, <3>2, <2>c, <2>e, <1>14 DEF Render, TypeOK
  <2>2. DriverInv'
    BY <1>14, <2>a
    DEF Render, TypeOK, DriverInv
  <2>3. CallbackInv'
    BY <1>14
    DEF Render, TypeOK, DriverInv, CallbackInv, CallbackState, Took
  <2>4. SilenceInv'
    BY <1>14, CappedRange
    DEF Render, TypeOK, DriverInv, CallbackInv, SilenceInv, CallbackState, Took
  <2>5. FinishInv'
    BY <1>14
    DEF Render, TypeOK, DriverInv, CallbackInv, FinishInv, CallbackState, Took
  <2> QED BY <2>1, <2>2, <2>3, <2>4, <2>5
<1>15. CASE CountConsumed
  <2>1. TypeOK'
    BY <1>15
    DEF CountConsumed, TypeOK, CallbackState
  <2>2. DriverInv'
    BY <1>15
    DEF CountConsumed, TypeOK, DriverInv
  <2>3. CallbackInv'
    BY <1>15
    DEF CountConsumed, TypeOK, DriverInv, CallbackInv, CallbackState
  <2>4. SilenceInv'
    BY <1>15
    DEF CountConsumed, TypeOK, DriverInv, CallbackInv, SilenceInv, CallbackState
  <2>5. FinishInv'
    BY <1>15
    DEF CountConsumed, TypeOK, DriverInv, CallbackInv, FinishInv, CallbackState
  <2> QED BY <2>1, <2>2, <2>3, <2>4, <2>5
<1>16. CASE ReadClosed
  <2>1. TypeOK'
    BY <1>16, ZenonT(60)
    DEF ReadClosed, TypeOK, CallbackState
  <2>2. DriverInv'
    BY <1>16
    DEF ReadClosed, TypeOK, DriverInv
  <2>3. CallbackInv'
    BY <1>16
    DEF ReadClosed, TypeOK, DriverInv, CallbackInv, CallbackState
  <2>4. SilenceInv'
    BY <1>16
    DEF ReadClosed, TypeOK, DriverInv, CallbackInv, SilenceInv, CallbackState
  <2>5. FinishInv'
    BY <1>16
    DEF ReadClosed, TypeOK, DriverInv, CallbackInv, FinishInv, CallbackState
  <2> QED BY <2>1, <2>2, <2>3, <2>4, <2>5
<1>17. CASE Judge
  <2>1. TypeOK'
    BY <1>17, CappedRange
    DEF Judge, TypeOK, CallbackState, Shortage, AfterRender, NoCallback
  <2>2. DriverInv'
    BY <1>17
    DEF Judge, TypeOK, DriverInv, Shortage, AfterRender, NoCallback
  <2>3. CallbackInv'
    BY <1>17
    DEF Judge, TypeOK, DriverInv, CallbackInv, CallbackState, Shortage, AfterRender, NoCallback
  <2>4. SilenceInv'
    BY <1>17, CappedRange
    DEF Judge, TypeOK, DriverInv, CallbackInv, SilenceInv, CallbackState, Shortage, AfterRender, NoCallback
  <2>5. FinishInv'
    BY <1>17
    DEF Judge, TypeOK, DriverInv, CallbackInv, FinishInv, CallbackState, Shortage, AfterRender, NoCallback
  <2> QED BY <2>1, <2>2, <2>3, <2>4, <2>5
<1>18. CASE EndReadsClosed
  <2>1. TypeOK'
    BY <1>18, ZenonT(60)
    DEF EndReadsClosed, TypeOK, CallbackState
  <2>2. DriverInv'
    BY <1>18
    DEF EndReadsClosed, TypeOK, DriverInv
  <2>3. CallbackInv'
    BY <1>18
    DEF EndReadsClosed, TypeOK, DriverInv, CallbackInv, CallbackState
  <2>4. SilenceInv'
    BY <1>18
    DEF EndReadsClosed, TypeOK, DriverInv, CallbackInv, SilenceInv, CallbackState
  <2>5. FinishInv'
    BY <1>18
    DEF EndReadsClosed, TypeOK, DriverInv, CallbackInv, FinishInv, CallbackState
  <2> QED BY <2>1, <2>2, <2>3, <2>4, <2>5
<1>19. CASE EndReadsRing
  <2>1. TypeOK'
    BY <1>19
    DEF EndReadsRing, TypeOK, CallbackState, RingEmpty, NoCallback
  <2>2. DriverInv'
    BY <1>19
    DEF EndReadsRing, TypeOK, DriverInv, RingEmpty, NoCallback
  <2>3. CallbackInv'
    BY <1>19
    DEF EndReadsRing, TypeOK, DriverInv, CallbackInv, CallbackState, RingEmpty, NoCallback
  <2>4. SilenceInv'
    BY <1>19
    DEF EndReadsRing, TypeOK, DriverInv, CallbackInv, SilenceInv, CallbackState, RingEmpty, NoCallback
  <2>5. FinishInv'
    BY <1>19
    DEF EndReadsRing, TypeOK, DriverInv, CallbackInv, FinishInv, CallbackState, RingEmpty, NoCallback
  <2> QED BY <2>1, <2>2, <2>3, <2>4, <2>5
<1>20. CASE Pause
  <2>0. paused' \in BOOLEAN
    BY <1>20 DEF Pause, SetPaused, TypeOK
  <2>1. TypeOK'
    BY <1>20, <2>0
    DEF Pause, SetPaused, Controllable, Broken, TypeOK, CallbackState
  <2>2. DriverInv'
    BY <1>20
    DEF Pause, SetPaused, Controllable, Broken, TypeOK, DriverInv
  <2>3. CallbackInv'
    BY <1>20
    DEF Pause, SetPaused, Controllable, Broken, TypeOK, DriverInv, CallbackInv, CallbackState
  <2>4. SilenceInv'
    BY <1>20
    DEF Pause, SetPaused, Controllable, Broken, TypeOK, DriverInv, CallbackInv, SilenceInv, CallbackState
  <2>5. FinishInv'
    BY <1>20
    DEF Pause, SetPaused, Controllable, Broken, TypeOK, DriverInv, CallbackInv, FinishInv, CallbackState
  <2> QED BY <2>1, <2>2, <2>3, <2>4, <2>5
<1>21. CASE Resume
  <2>0. paused' \in BOOLEAN
    BY <1>21 DEF Resume, SetPaused, TypeOK
  <2>1. TypeOK'
    BY <1>21, <2>0
    DEF Resume, SetPaused, Controllable, Broken, TypeOK, CallbackState
  <2>2. DriverInv'
    BY <1>21
    DEF Resume, SetPaused, Controllable, Broken, TypeOK, DriverInv
  <2>3. CallbackInv'
    BY <1>21
    DEF Resume, SetPaused, Controllable, Broken, TypeOK, DriverInv, CallbackInv, CallbackState
  <2>4. SilenceInv'
    BY <1>21
    DEF Resume, SetPaused, Controllable, Broken, TypeOK, DriverInv, CallbackInv, SilenceInv, CallbackState
  <2>5. FinishInv'
    BY <1>21
    DEF Resume, SetPaused, Controllable, Broken, TypeOK, DriverInv, CallbackInv, FinishInv, CallbackState
  <2> QED BY <2>1, <2>2, <2>3, <2>4, <2>5
<1>22. CASE Cancel
  <2>1. TypeOK'
    BY <1>22
    DEF Cancel, TypeOK, CallbackState
  <2>2. DriverInv'
    BY <1>22
    DEF Cancel, TypeOK, DriverInv
  <2>3. CallbackInv'
    BY <1>22
    DEF Cancel, TypeOK, DriverInv, CallbackInv, CallbackState
  <2>4. SilenceInv'
    BY <1>22
    DEF Cancel, TypeOK, DriverInv, CallbackInv, SilenceInv, CallbackState
  <2>5. FinishInv'
    BY <1>22
    DEF Cancel, TypeOK, DriverInv, CallbackInv, FinishInv, CallbackState
  <2> QED BY <2>1, <2>2, <2>3, <2>4, <2>5
<1>23. CASE HostFails
  <2>1. TypeOK'
    BY <1>23
    DEF HostFails, TypeOK, CallbackState
  <2>2. DriverInv'
    BY <1>23
    DEF HostFails, TypeOK, DriverInv
  <2>3. CallbackInv'
    BY <1>23
    DEF HostFails, TypeOK, DriverInv, CallbackInv, CallbackState
  <2>4. SilenceInv'
    BY <1>23
    DEF HostFails, TypeOK, DriverInv, CallbackInv, SilenceInv, CallbackState
  <2>5. FinishInv'
    BY <1>23
    DEF HostFails, TypeOK, DriverInv, CallbackInv, FinishInv, CallbackState
  <2> QED BY <2>1, <2>2, <2>3, <2>4, <2>5
<1>24. CASE UNCHANGED vars
  BY <1>24 DEF vars, TypeOK, DriverInv, CallbackInv, SilenceInv, FinishInv,
                 CallbackState, Exact, Preview
<1> QED
  BY <1>1, <1>2, <1>3, <1>4, <1>5, <1>6, <1>7, <1>8, <1>9, <1>10, <1>11, <1>12, <1>13, <1>14, <1>15, <1>16, <1>17, <1>18, <1>19, <1>20, <1>21, <1>22, <1>23, <1>24
  DEF Next, DriverStep, RenderStep

\* The inductive invariant holds of every behaviour: the two sides of the queue
\* may interleave their reads and writes in any way.
THEOREM QueueInvariant == Spec => []IInv
<1>1. Init => IInv
  BY InitInv
<1>2. IInv /\ [Next]_vars => IInv'
  BY StepInv
<1> QED
  BY <1>1, <1>2, PTL DEF Spec

\* The ring never holds more than its capacity, the callback never takes a frame
\* that was not published, and every variable keeps its type.
THEOREM TypeCorrect == Spec => []TypeOK
<1>1. IInv => TypeOK
  BY DEF IInv
<1> QED
  BY <1>1, QueueInvariant, PTL

\* A strict output never inserts silence between two frames of its programme:
\* it stops at the first gap, for every timing of the writer and the callback.
THEOREM StrictIsExact == Spec => []StrictExact
<1>1. IInv => StrictExact
  BY DEF IInv, SilenceInv, StrictExact
<1> QED
  BY <1>1, QueueInvariant, PTL

\* Playback is reported as complete, and a preview shows its end, only after the
\* device has taken every frame, unless the preview is being dropped.
THEOREM CompleteMeansPlayed == Spec => []CompleteIsPlayed
<1>1. IInv => CompleteIsPlayed
  BY DEF IInv, DriverInv, FinishInv, Complete, CompleteIsPlayed
<1> QED
  BY <1>1, QueueInvariant, PTL
-----------------------------------------------------------------------------
(***************************************************************************)
(* What the listeners of the ordinary output and of the preview are told.  *)
(***************************************************************************)
\* A count has saturated: it is not less than any other.
Saturated == underruns >= MaxCounted \/ silence.excused >= MaxCounted

Counted == underruns + silence.excused

\* What the running callback will still count: it has looked at both sides.
Pending == IF callback.started /\ ~callback.closed THEN callback.missing ELSE 0

\* Silence since the last frame is counted, or about to be, before a frame can
\* follow it; silence after the last frame of all need not be.
TailCounted ==
  /\ callback.at \notin {"counting", "judging"} =>
       Saturated \/ Complete \/ silence.inside + silence.tail <= Counted
  /\ callback.at \in {"counting", "judging"} =>
       Saturated \/ Complete \/ silence.inside + silence.tail <= Counted + Pending

GapInv == ~Exact => silence.inside <= Counted /\ TailCounted

\* Nothing is written behind a sealed programme, and no frame is taken back.
LEMMA CompleteStays ==
  ASSUME IInv, [Next]_vars, Complete
  PROVE  Complete'
<1>1. closed /\ published = taken /\ driver \notin {"writing", "checked", "counting"}
  BY DEF IInv, DriverInv, Complete
<1>2. CASE DriverStep
  BY <1>1, <1>2 DEF Complete, DriverStep, CheckWrite, PublishFrames, CountSubmitted,
     GiveUp, Close, DrainCheck, DrainRead
<1>3. CASE Render
  <2>1. Took = 0
    BY <1>1, <1>3, PcmQueueAssumption
    DEF Took, Queued, Render, IInv, TypeOK, CallbackState, CallbackInv
  <2>2. taken' = taken
    BY <1>1, <1>3, <2>1, PcmQueueAssumption DEF Render, IInv, TypeOK
  <2> QED BY <1>1, <1>3, <2>2 DEF Complete, Render
<1>4. CASE RenderStep /\ ~Render
  BY <1>1, <1>4 DEF Complete, RenderStep, ReadStarted, CheckFailed, CountConsumed,
     ReadClosed, Judge, EndReadsClosed, EndReadsRing
<1>5. CASE \E requested \in 0..MaxRequest, partial \in BOOLEAN : StartCallback(requested, partial)
  BY <1>1, <1>5 DEF Complete, StartCallback
<1>6. CASE EnsureStarted \/ DecodeFails \/ DrainStalls
  BY <1>1, <1>6 DEF Complete, EnsureStarted, DecodeFails, DrainStalls
<1>7. CASE Pause \/ Resume \/ Cancel \/ HostFails
  BY <1>1, <1>7 DEF Complete, Pause, Resume, Cancel, HostFails
<1>8. CASE UNCHANGED vars
  BY <1>1, <1>8 DEF Complete, vars
<1> QED
  BY <1>2, <1>3, <1>4, <1>5, <1>6, <1>7, <1>8 DEF Next

LEMMA GapKept ==
  ASSUME IInv, GapInv, [Next]_vars, UNCHANGED <<player, silence, underruns>>,
         \/ callback' = callback
         \/ callback.at = "counting" /\ callback'.at = "judging" /\ Pending' = Pending
         \/ callback.at \notin {"counting", "judging"} /\ Pending' \in Nat
  PROVE  GapInv'
<1>1. Complete => Complete'
  BY CompleteStays
<1>2. /\ Saturated' = Saturated /\ Counted' = Counted /\ Exact' = Exact
      /\ silence.inside + silence.tail \in Nat /\ Counted \in Nat
  BY PcmQueueAssumption DEF Saturated, Counted, Exact, IInv, TypeOK
<1>3. callback' = callback => Pending' = Pending
  BY DEF Pending
<1> QED
  BY <1>1, <1>2, <1>3 DEF GapInv, TailCounted

\* A callback copies frames: the silence before them had been counted.
LEMMA GapRender ==
  ASSUME IInv, GapInv, Render, ~Exact
  PROVE  GapInv'
<1>1. /\ silence.inside \in 0..MaxCounted /\ silence.tail \in 0..MaxCounted
      /\ silence.excused \in 0..MaxCounted /\ underruns \in 0..MaxCounted
      /\ MaxCounted \in Nat /\ Queued \in Nat /\ callback.requested \in Nat
      /\ callback \in CallbackState /\ taken \in Nat /\ published \in Nat
  <2>1. total \in Nat
    BY PcmQueueAssumption DEF IInv, TypeOK
  <2> QED BY <2>1, PcmQueueAssumption DEF IInv, TypeOK, CallbackState
<1>2. PICK missing \in Nat : missing = callback.requested - Took
  BY <1>1 DEF Took
<1>3. /\ callback'.at = "counting" /\ callback'.missing = missing
      /\ callback'.started = callback.started /\ callback'.closed = callback.closed
  BY <1>1, <1>2 DEF Render, CallbackState
<1>4. /\ Took > 0 => silence'.inside = Capped(silence.inside + silence.tail)
                     /\ silence'.tail = Capped(missing)
      /\ ~(Took > 0) => silence'.inside = silence.inside
                        /\ silence'.tail \in {0, Capped(silence.tail + missing)}
      /\ silence'.excused = IF callback.started THEN silence.excused
                            ELSE Capped(silence.excused + missing)
      /\ underruns' = underruns /\ Exact' = Exact
  BY <1>2 DEF Render, control, source, Exact
<1>5. Saturated \/ Complete \/ silence.inside + silence.tail <= Counted
  BY DEF GapInv, TailCounted, Render
<1>6. Took > 0 => ~Complete
  BY <1>1 DEF Took, Complete, Queued, IInv, TypeOK
<1>7. Complete \/ (callback.closed /\ missing > 0) => Complete'
  <2>1. Complete => Complete'
    BY CompleteStays DEF Next, RenderStep
  <2>2. ASSUME callback.closed, missing > 0 PROVE Complete'
    <3>1. closed /\ closed' = closed /\ published' = published
      BY <2>2 DEF Render, IInv, CallbackInv
    <3>2. taken' = published
      BY <1>1, <1>2, <2>2 DEF Render, Took, Queued, IInv, TypeOK
    <3> QED BY <3>1, <3>2 DEF Complete
  <2> QED BY <2>1, <2>2
<1>8. \A n \in Nat : Capped(n) \in Nat /\ Capped(n) <= n /\ Capped(n) <= MaxCounted
                     /\ (Capped(n) = n \/ Capped(n) = MaxCounted)
  BY <1>1 DEF Capped
<1>9. silence'.excused \in Nat /\ silence'.excused <= MaxCounted
  BY <1>1, <1>2, <1>4, <1>8
<1>10. Saturated => Saturated'
  BY <1>1, <1>2, <1>4, <1>8 DEF Saturated
<1>11. ~Saturated' => silence'.excused = IF callback.started THEN silence.excused
                                         ELSE silence.excused + missing
  BY <1>1, <1>2, <1>4, <1>8 DEF Saturated
<1>12. silence'.inside <= Counted'
  <2>1. CASE Saturated'
    <3>1. silence'.inside <= MaxCounted
      BY <1>1, <1>4, <1>8, <2>1
    <3> QED BY <1>1, <1>4, <1>8, <1>9, <2>1, <3>1 DEF Saturated, Counted
  <2>2. CASE ~Saturated' /\ Took > 0
    <3>1. silence.inside + silence.tail <= Counted
      BY <1>5, <1>6, <1>10, <2>2
    <3> QED BY <1>1, <1>2, <1>4, <1>8, <1>11, <2>2, <3>1 DEF Counted
  <2>3. CASE ~Saturated' /\ ~(Took > 0)
    <3>1. silence.inside <= Counted
      BY DEF GapInv
    <3> QED BY <1>1, <1>2, <1>4, <1>11, <2>3, <3>1 DEF Counted
  <2> QED BY <2>1, <2>2, <2>3
<1>13. ASSUME ~Saturated', ~Complete'
       PROVE  silence'.inside + silence'.tail <= Counted' + Pending'
  <2>1. silence.inside + silence.tail <= Counted
    BY <1>5, <1>7, <1>10, <1>13
  <2>2. Counted' + Pending' = Counted + missing
    BY <1>1, <1>2, <1>3, <1>4, <1>7, <1>11, <1>13 DEF Counted, Pending
  <2>3. silence'.inside + silence'.tail <= silence.inside + silence.tail + missing
    <3>1. CASE Took > 0
      BY <1>1, <1>4, <1>8, <3>1
    <3>2. CASE ~(Took > 0)
      BY <1>1, <1>4, <1>8, <3>2
    <3> QED BY <3>1, <3>2
  <2>4. silence'.inside \in Nat /\ silence'.tail \in Nat
    BY <1>1, <1>4, <1>8
  <2> QED BY <1>1, <1>2, <2>1, <2>2, <2>3, <2>4 DEF Counted
<1> QED
  BY <1>3, <1>12, <1>13 DEF GapInv, TailCounted

\* A callback that ran short is judged by what it saw before it copied.
LEMMA GapJudge ==
  ASSUME IInv, GapInv, Judge, ~Exact
  PROVE  GapInv'
<1>1. /\ silence.inside \in 0..MaxCounted /\ silence.tail \in 0..MaxCounted
      /\ silence.excused \in 0..MaxCounted /\ underruns \in 0..MaxCounted
      /\ MaxCounted \in Nat /\ callback.missing \in Nat
  BY PcmQueueAssumption DEF IInv, TypeOK, CallbackState
<1>2. callback'.at \notin {"counting", "judging"} /\ silence' = silence
  BY DEF Judge, AfterRender, NoCallback, IInv, TypeOK, CallbackState
<1>3. \/ underruns' = underruns + Pending
      \/ underruns' = MaxCounted /\ underruns' >= underruns
  BY <1>1 DEF Judge, Shortage, Pending, Capped, Exact
<1>4. Saturated \/ Complete \/ silence.inside + silence.tail <= Counted + Pending
  BY DEF GapInv, TailCounted, Judge
<1>5. Complete => Complete'
  BY CompleteStays DEF Next, RenderStep
<1>6. Pending \in Nat
  BY <1>1 DEF Pending
<1>7. silence.inside <= Counted
  BY DEF GapInv
<1> QED
  BY <1>1, <1>2, <1>3, <1>4, <1>5, <1>6, <1>7 DEF GapInv, TailCounted, Saturated, Counted

LEMMA GapStep ==
  ASSUME IInv, GapInv, [Next]_vars
  PROVE  GapInv'
<1>0. callback \in CallbackState
  BY DEF IInv, TypeOK
<1>1. CASE DriverStep
  <2>1. UNCHANGED <<player, silence, underruns, callback>>
    BY <1>1 DEF DriverStep, CheckWrite, PublishFrames, CountSubmitted, GiveUp, Close,
       DrainCheck, DrainRead, control, source
  <2> QED BY <2>1, GapKept
<1>2. CASE EnsureStarted \/ DecodeFails \/ DrainStalls
  <2>1. UNCHANGED <<player, silence, underruns, callback>>
    BY <1>2 DEF EnsureStarted, DecodeFails, DrainStalls, control, source
  <2> QED BY <2>1, GapKept
<1>3. CASE Pause \/ Resume \/ Cancel \/ HostFails \/ UNCHANGED vars
  <2>1. UNCHANGED <<player, silence, underruns, callback>>
    BY <1>3 DEF Pause, Resume, Cancel, HostFails, vars, source
  <2> QED BY <2>1, GapKept
<1>4. ASSUME NEW requested \in 0..MaxRequest, NEW partial \in BOOLEAN,
             StartCallback(requested, partial)
      PROVE  GapInv'
  <2>1. UNCHANGED <<player, silence, underruns>> /\ callback.at = "idle"
    BY <1>4 DEF StartCallback, control, source
  <2>2. callback'.missing = 0
    BY <1>4 DEF StartCallback, NoCallback
  <2>3. Pending' \in Nat
    BY <2>2 DEF Pending
  <2> QED BY <2>1, <2>3, GapKept
<1>5. CASE ReadStarted \/ CheckFailed \/ ReadClosed \/ EndReadsClosed \/ EndReadsRing
  <2>1. UNCHANGED <<player, silence, underruns>>
    BY <1>5 DEF ReadStarted, CheckFailed, ReadClosed, EndReadsClosed, EndReadsRing,
       control, source
  <2>2. callback.at \notin {"counting", "judging"}
    BY <1>5 DEF ReadStarted, CheckFailed, ReadClosed, EndReadsClosed, EndReadsRing
  <2>3. callback'.missing \in {0, callback.missing}
    <3>1. NoCallback.missing = 0
      BY DEF NoCallback
    <3>2. AfterRender.missing \in {0, callback.missing}
      BY <1>0, <3>1 DEF AfterRender, CallbackState
    <3>3. CASE ReadStarted
      BY <1>0, <3>3 DEF ReadStarted, CallbackState
    <3>4. CASE CheckFailed
      <4>1. [callback EXCEPT !.at = "rendering"].missing = callback.missing
        BY <1>0 DEF CallbackState
      <4> QED BY <3>1, <3>2, <3>4, <4>1 DEF CheckFailed
    <3>5. CASE ReadClosed \/ EndReadsClosed
      BY <1>0, <3>5 DEF ReadClosed, EndReadsClosed, CallbackState
    <3>6. CASE EndReadsRing
      BY <3>1, <3>6 DEF EndReadsRing
    <3> QED BY <1>5, <3>3, <3>4, <3>5, <3>6
  <2>4. Pending' \in Nat
    BY <1>0, <2>3, PcmQueueAssumption DEF Pending, CallbackState
  <2> QED BY <2>1, <2>2, <2>4, GapKept
<1>6. CASE CountConsumed
  <2>1. UNCHANGED <<player, silence, underruns>> /\ callback.at = "counting"
    BY <1>6 DEF CountConsumed, control, source
  <2>2. /\ callback'.started = callback.started /\ callback'.closed = callback.closed
        /\ callback'.missing = callback.missing
    BY <1>0, <1>6 DEF CountConsumed, CallbackState
  <2>3. Pending' = Pending
    BY <2>2 DEF Pending
  <2>4. ~Exact => callback'.at = "judging"
    BY <1>0, <1>6 DEF CountConsumed, CallbackState
  <2>5. CASE ~Exact
    BY <2>1, <2>3, <2>4, <2>5, GapKept
  <2>6. CASE Exact
    BY <2>1, <2>6 DEF GapInv, Exact
  <2> QED BY <2>5, <2>6
<1>7. CASE Render
  <2>1. Exact' = Exact
    BY <1>7 DEF Render, control, source, Exact
  <2> QED BY <1>7, <2>1, GapRender DEF GapInv
<1>8. CASE Judge
  <2>1. Exact' = Exact
    BY <1>8 DEF Judge, control, source, Exact
  <2> QED BY <1>8, <2>1, GapJudge DEF GapInv
<1> QED
  BY <1>1, <1>2, <1>3, <1>4, <1>5, <1>6, <1>7, <1>8 DEF Next, RenderStep

LEMMA GapAtStart ==
  Init => GapInv
BY PcmQueueAssumption DEF Init, GapInv, TailCounted, Counted, NoCallback

\* The ordinary output and the preview count every frame of silence between two
\* frames of the programme, whatever the callback and the writer see of each other.
THEOREM GapsAreCounted == Spec => []GapsCounted
<1>1. GapInv /\ IInv /\ [Next]_vars => GapInv'
  BY GapStep
<1>2. GapInv => GapsCounted
  BY DEF GapInv, GapsCounted, Counted
<1> QED
  BY <1>1, <1>2, GapAtStart, QueueInvariant, PTL DEF Spec
=============================================================================
