---- MODULE InteractiveHistoryProofs ----
EXTENDS InteractivePlaybackProofs, WellFoundedInduction, FiniteSetTheorems, SequenceTheorems

\* Every step that leaves the store alone is read with this definition.
USE DEF store

(***************************************************************************)
(* Numbers: least elements, bounded greatest ones, induction, sums.        *)
(***************************************************************************)
LEMMA LeastElement ==
  ASSUME NEW T, T \subseteq Nat, T # {}
  PROVE  \E n \in T : \A m \in T : n <= m
<1>1. PICK n \in T : \A m \in T : ~(<<m, n>> \in OpToRel(<, Nat))
  BY NatLessThanWellFounded, WFMin
<1>2. \A m \in T : ~(m < n)
  BY <1>1 DEF OpToRel
<1> QED
  BY <1>2

LEMMA GreatestElement ==
  ASSUME NEW T, T \subseteq Nat, T # {}, NEW bound \in Nat, \A m \in T : m <= bound
  PROVE  \E n \in T : \A m \in T : m <= n
<1> DEFINE Gaps == {bound - m : m \in T}
<1>1. Gaps \subseteq Nat /\ Gaps # {}
  <2>1. \A m \in T : bound - m \in Nat
    OBVIOUS
  <2>2. Gaps \subseteq Nat
    BY <2>1
  <2>3. PICK m : m \in T
    OBVIOUS
  <2>4. bound - m \in Gaps
    BY <2>3
  <2> QED BY <2>2, <2>4
<1>2. PICK g \in Gaps : \A h \in Gaps : g <= h
  <2> HIDE DEF Gaps
  <2> QED BY <1>1, LeastElement
<1>3. PICK n \in T : g = bound - n
  OBVIOUS
<1>4. ASSUME NEW m \in T PROVE m <= n
  <2>1. bound - m \in Gaps
    OBVIOUS
  <2>2. bound - n <= bound - m
    BY <1>2, <1>3, <2>1
  <2>3. m \in Nat /\ n \in Nat
    OBVIOUS
  <2> HIDE DEF Gaps
  <2> QED BY <2>2, <2>3
<1> QED
  BY <1>4

LEMMA SetInduction ==
  ASSUME NEW T, 0 \in T, \A n \in Nat : n \in T => n + 1 \in T
  PROVE  Nat \subseteq T
<1>1. SUFFICES ASSUME Nat \ T # {} PROVE FALSE
  OBVIOUS
<1>2. PICK n \in Nat \ T : \A m \in Nat \ T : n <= m
  BY <1>1, LeastElement
<1>3. n # 0 /\ n - 1 \in Nat
  BY <1>2
<1>4. n - 1 \in T
  BY <1>2, <1>3
<1> QED
  BY <1>2, <1>3, <1>4

\* Whole milliseconds of a number of frames.
LEMMA WholeMilliseconds ==
  ASSUME NEW n \in Nat
  PROVE  /\ Milliseconds(n) \in Nat /\ Milliseconds(n) * FramesPerMs <= n
         /\ Milliseconds(0) = 0
<1>1. PICK F \in Nat \ {0} : F = FramesPerMs
  BY ConstantsAssumption
<1>2. (n \div F) \in Nat /\ F * (n \div F) <= n /\ (0 \div F) = 0
  OBVIOUS
<1>3. Milliseconds(n) = n \div F /\ Milliseconds(0) = 0 \div F
  BY <1>1 DEF Milliseconds
<1>4. \A a \in Nat : a * F = F * a
  OBVIOUS
<1> QED
  BY <1>1, <1>2, <1>3, <1>4

From(state) == state.position * FramesPerMs

LEMMA FromIsNat ==
  ASSUME NEW state, state.position \in Nat
  PROVE  From(state) \in Nat /\ (state.position = 0 => From(state) = 0)
<1>1. \A a \in Nat, b \in Nat : a * b \in Nat /\ 0 * b = 0
  OBVIOUS
<1> QED
  BY <1>1, ConstantsAssumption DEF From

(***************************************************************************)
(* States, epochs and the cursor.                                          *)
(***************************************************************************)
Distinct(entries) == \A i, j \in DOMAIN entries : entries[i] = entries[j] => i = j

Proper(x) ==
  /\ x \in PlaybackState /\ x.entries # <<>> /\ Distinct(x.entries)
  /\ x.current = 0 => x.position = 0
  /\ x.current # 0 => Selected(x)

Epoch ==
  [line : Seq(Span), sent : Nat, acked : Nat, eof : BOOLEAN,
   tape : Seq(Occurrences \X (1..Length))]

EndOf(run, i) == IF run.line[i].end = Open THEN run.sent ELSE run.line[i].end

Spanned(state, run, i) ==
  /\ run.line[i].start = IF i = 1 THEN 0 ELSE run.line[i - 1].end
  /\ run.line[i].position = IF i = 1 THEN state.position ELSE 0
  /\ run.line[i].end = Open => i = Len(run.line)
  /\ run.line[i].end # Open => run.line[i].end = run.line[i].start + FramesOf(state, i)
  /\ i = Len(run.line) => EndOf(run, i) = run.sent
  /\ run.line[i].start <= EndOf(run, i) /\ EndOf(run, i) <= run.sent
  /\ EndOf(run, i) - run.line[i].start <= FramesOf(state, i)
  /\ \A k \in (run.line[i].start + 1)..EndOf(run, i) :
        run.tape[k] = <<Programme(state)[i],
                        Length - FramesOf(state, i) + (k - run.line[i].start)>>

Lined(state, run) ==
  /\ run \in Epoch /\ run.acked <= run.sent
  /\ Selected(state) /\ From(state) <= Length
  /\ Len(run.line) <= Len(Programme(state))
  /\ run.line = <<>> => run.sent = 0
  /\ Len(run.tape) = run.sent
  /\ \A i \in DOMAIN run.line : Spanned(state, run, i)
  /\ \A k \in 1..run.sent : \E i \in DOMAIN run.line :
        run.line[i].start < k /\ k <= EndOf(run, i)
  /\ run.eof => /\ Len(run.line) = Len(Programme(state))
                /\ run.line[Len(run.line)].end # Open

LEMMA NoStateTyped == NoState \in PlaybackState
BY ConstantsAssumption DEF NoState, PlaybackState

LEMMA ProgrammeIs ==
  ASSUME NEW state, Proper(state), Selected(state), NEW p, p = PositionOf(state)
  PROVE  /\ p \in 1..Len(state.entries) /\ state.entries[p] = state.current
         /\ Programme(state) \in Seq(Occurrences)
         /\ Len(Programme(state)) = Len(state.entries) - p + 1
         /\ \A i \in 1..Len(Programme(state)) :
              /\ p + i - 1 \in 1..Len(state.entries)
              /\ Programme(state)[i] = state.entries[p + i - 1]
              /\ Programme(state)[i] \in Occurrences
         /\ Programme(state)[1] = state.current
         /\ Distinct(Programme(state))
<1>1. state.entries \in Seq(Occurrences) /\ Len(state.entries) \in Nat
      /\ DOMAIN state.entries = 1..Len(state.entries)
  BY DEF Proper, PlaybackState
<1>2. \E i \in DOMAIN state.entries : state.entries[i] = state.current
  BY DEF Selected, Range
<1>3. p \in 1..Len(state.entries) /\ state.entries[p] = state.current
  BY <1>1, <1>2 DEF PositionOf
<1>4. \A i \in p..Len(state.entries) : state.entries[i] \in Occurrences
  BY <1>1, <1>3
<1>5. /\ Programme(state) \in Seq(Occurrences)
      /\ Len(Programme(state)) = Len(state.entries) - p + 1
      /\ \A i \in 1..(Len(state.entries) - p + 1) :
            Programme(state)[i] = state.entries[p + i - 1]
  BY <1>1, <1>3, <1>4, SubSeqProperties DEF Programme
<1>6. \A i \in 1..Len(Programme(state)) :
        /\ p + i - 1 \in 1..Len(state.entries)
        /\ Programme(state)[i] = state.entries[p + i - 1]
        /\ Programme(state)[i] \in Occurrences
  <2> SUFFICES ASSUME NEW i \in 1..Len(Programme(state))
               PROVE  /\ p + i - 1 \in 1..Len(state.entries)
                      /\ Programme(state)[i] = state.entries[p + i - 1]
                      /\ Programme(state)[i] \in Occurrences
    OBVIOUS
  <2>1. i \in 1..(Len(state.entries) - p + 1) /\ p + i - 1 \in p..Len(state.entries)
    BY <1>1, <1>3, <1>5
  <2>2. p + i - 1 \in 1..Len(state.entries)
    BY <1>1, <1>3, <2>1
  <2>3. Programme(state)[i] = state.entries[p + i - 1]
    BY <1>5, <2>1
  <2>4. state.entries[p + i - 1] \in Occurrences
    BY <1>4, <2>1
  <2> QED BY <2>2, <2>3, <2>4
<1>7. Programme(state)[1] = state.current
  <2>1. 1 \in 1..(Len(state.entries) - p + 1) /\ p + 1 - 1 = p
    BY <1>1, <1>3
  <2> QED BY <1>3, <1>5, <2>1
<1>8. Distinct(Programme(state))
  <2> SUFFICES ASSUME NEW i \in DOMAIN Programme(state), NEW j \in DOMAIN Programme(state),
                      Programme(state)[i] = Programme(state)[j]
               PROVE  i = j
    BY DEF Distinct
  <2>1. i \in 1..Len(Programme(state)) /\ j \in 1..Len(Programme(state))
    BY <1>5, LenProperties
  <2>2. state.entries[p + i - 1] = state.entries[p + j - 1]
    BY <1>6, <2>1
  <2>3. p + i - 1 \in DOMAIN state.entries /\ p + j - 1 \in DOMAIN state.entries
    BY <1>1, <1>6, <2>1
  <2>4. p + i - 1 = p + j - 1
    BY <2>2, <2>3 DEF Proper, Distinct
  <2> QED BY <1>3, <2>1, <2>4
<1> QED
  BY <1>3, <1>5, <1>6, <1>7, <1>8

\* The frames an epoch plays of a track.
LEMMA FramesAre ==
  ASSUME NEW state, Proper(state), From(state) <= Length, NEW i \in Nat
  PROVE  /\ FramesOf(state, i) \in 0..Length /\ From(state) \in Nat
         /\ FramesOf(state, i) = Length - (IF i = 1 THEN From(state) ELSE 0)
         /\ FramesOf(state, i) = 0 => i = 1 /\ From(state) = Length
<1>1. From(state) \in Nat
  BY FromIsNat DEF Proper, PlaybackState
<1>2. FramesOf(state, i) = Length - (IF i = 1 THEN From(state) ELSE 0)
  BY DEF FramesOf, From
<1> QED
  BY <1>1, <1>2, ConstantsAssumption

\* The spans of an epoch, their bounds and their type.
LEMMA SpansAre ==
  ASSUME NEW state, NEW run, Lined(state, run), NEW i \in DOMAIN run.line
  PROVE  /\ i \in 1..Len(run.line) /\ i \in 1..Len(Programme(state))
         /\ run.line[i] \in Span /\ Spanned(state, run, i)
         /\ run.line[i].start \in Nat /\ EndOf(run, i) \in Nat
         /\ run.sent \in Nat /\ Len(run.line) \in Nat
<1>1. run.line \in Seq(Span) /\ run.sent \in Nat /\ Len(Programme(state)) \in Int
  BY DEF Lined, Epoch
<1>2. i \in 1..Len(run.line) /\ run.line[i] \in Span
  BY <1>1
<1>3. run.line[i].start \in Nat /\ EndOf(run, i) \in Nat
  BY <1>1, <1>2 DEF Span, EndOf
<1> QED
  BY <1>1, <1>2, <1>3 DEF Lined

\* Where a cursor is: before any audio, at the end of a span, or inside one.
AtEnd(state, run, acked, i, c) ==
  /\ run.line[i].end # Open /\ run.line[i].end <= acked
  /\ c.position = 0
  /\ c.current = IF i < Len(Programme(state)) THEN Programme(state)[i + 1] ELSE 0
Inside(state, run, acked, i, c) ==
  /\ acked <= EndOf(run, i)
  /\ c.current = Programme(state)[i]
  /\ c.position = run.line[i].position + Milliseconds(acked - run.line[i].start)
Reaching(state, run, acked, c) ==
  \/ /\ run.line = <<>> /\ c.current = state.current /\ c.position = state.position
  \/ \E i \in DOMAIN run.line :
       /\ run.line[i].start <= acked
       /\ AtEnd(state, run, acked, i, c) \/ Inside(state, run, acked, i, c)

LEMMA MovedCursor ==
  ASSUME NEW state \in PlaybackState, NEW current \in 0..MaxExact, NEW position \in Nat,
         NEW acked \in Nat, NEW c,
         c = [state EXCEPT !.current = current, !.position = position, !.at = acked]
  PROVE  /\ c \in PlaybackState /\ c.current = current /\ c.position = position
         /\ c.entries = state.entries /\ c.session = state.session
         /\ c.revision = state.revision /\ c.at = acked
BY DEF PlaybackState

LEMMA CursorIs ==
  ASSUME NEW state, Proper(state), NEW run, Lined(state, run), NEW acked \in 0..run.sent,
         NEW c, c = AtCursor(state, run.line, acked)
  PROVE  /\ Proper(c) /\ c.entries = state.entries /\ c.session = state.session
         /\ c.revision = state.revision /\ c.at = acked
         /\ Reaching(state, run, acked, c)
<1> DEFINE line == run.line
           reached == {i \in DOMAIN line : line[i].start <= acked}
           top == CHOOSE j \in reached : \A k \in reached : k <= j
           songs == Programme(state)
<1>1. /\ state \in PlaybackState /\ run \in Epoch /\ acked \in Nat /\ Len(line) \in Nat
      /\ run.sent \in Nat /\ DOMAIN line = 1..Len(line)
  BY DEF Proper, Lined, Epoch
<1>2. Selected(state) /\ Len(line) <= Len(songs)
  BY DEF Lined
<1>3. /\ Len(songs) \in Nat
      /\ \A i \in 1..Len(songs) : songs[i] \in Occurrences /\ songs[i] \in Range(state.entries)
  <2>1. PICK p : p = PositionOf(state)
    OBVIOUS
  <2>2. /\ p \in 1..Len(state.entries) /\ Len(songs) = Len(state.entries) - p + 1
        /\ \A i \in 1..Len(songs) :
              /\ p + i - 1 \in 1..Len(state.entries) /\ songs[i] = state.entries[p + i - 1]
              /\ songs[i] \in Occurrences
    BY <1>2, <2>1, ProgrammeIs
  <2>3. DOMAIN state.entries = 1..Len(state.entries) /\ Len(state.entries) \in Nat
    BY <1>1 DEF PlaybackState
  <2>4. \A i \in 1..Len(state.entries) : state.entries[i] \in Range(state.entries)
    BY <2>3 DEF Range
  <2>5. Len(songs) \in Nat
    BY <2>2, <2>3
  <2>6. ASSUME NEW i \in 1..Len(songs)
        PROVE  songs[i] \in Occurrences /\ songs[i] \in Range(state.entries)
    BY <2>2, <2>4
  <2> QED BY <2>5, <2>6
<1>4. /\ state.current \in 0..MaxExact /\ state.position \in Nat /\ state.entries \in Seq(Occurrences)
      /\ 0 \notin Occurrences /\ Occurrences \subseteq 0..MaxExact
  BY <1>1, ConstantsAssumption DEF PlaybackState, Occurrences
<1>5. c = IF reached = {} THEN [state EXCEPT !.at = acked]
          ELSE IF line[top].end # Open /\ line[top].end <= acked
          THEN [state EXCEPT !.current = IF top < Len(songs) THEN songs[top + 1] ELSE 0,
                             !.position = 0, !.at = acked]
          ELSE [state EXCEPT !.current = songs[top], !.at = acked,
                  !.position = line[top].position + Milliseconds(Consumed(line[top], acked))]
  BY DEF AtCursor
<1>6. reached # {} => top \in reached /\ \A k \in reached : k <= top
  <2> SUFFICES ASSUME reached # {} PROVE \E j \in reached : \A k \in reached : k <= j
    OBVIOUS
  <2>1. reached \subseteq Nat /\ \A k \in reached : k <= Len(line)
    BY <1>1
  <2> HIDE DEF reached
  <2> QED BY <1>1, <2>1, GreatestElement
<1> HIDE DEF reached, top
<1>7. CASE reached = {}
  <2>1. c = [state EXCEPT !.at = acked]
    BY <1>5, <1>7
  <2>2. /\ c \in PlaybackState /\ c.current = state.current /\ c.position = state.position
        /\ c.entries = state.entries /\ c.session = state.session
        /\ c.revision = state.revision /\ c.at = acked
    BY <1>1, <2>1 DEF PlaybackState
  <2>3. line = <<>>
    <3>1. ASSUME line # <<>> PROVE FALSE
      <4>1. 1 \in DOMAIN line
        BY <1>1, <3>1 DEF Epoch
      <4>2. line[1].start = 0
        BY <4>1 DEF Lined, Spanned
      <4> QED BY <1>1, <1>7, <4>1, <4>2 DEF reached
    <3> QED BY <3>1
  <2> QED BY <2>2, <2>3 DEF Proper, Reaching, Selected
<1>8. CASE reached # {}
  <2>1. PICK i : i = top
    OBVIOUS
  <2>2. i \in DOMAIN line /\ line[i].start <= acked
    BY <1>6, <1>8, <2>1 DEF reached
  <2>3. /\ i \in 1..Len(line) /\ i \in 1..Len(songs) /\ line[i] \in Span
        /\ Spanned(state, run, i) /\ line[i].start \in Nat
    BY <2>2, SpansAre
  <2>4. CASE line[i].end # Open /\ line[i].end <= acked
    <3>1. PICK next : next = IF i < Len(songs) THEN songs[i + 1] ELSE 0
      OBVIOUS
    <3>0. PICK start \in Nat : start = 0
      OBVIOUS
    <3>2. c = [state EXCEPT !.current = next, !.position = start, !.at = acked]
      BY <1>5, <1>8, <2>1, <2>4, <3>0, <3>1
    <3>3. \/ next = 0
          \/ next \in Occurrences /\ next \in Range(state.entries)
      BY <1>3, <2>3, <3>1
    <3>4. next \in 0..MaxExact
      <4>1. 0 \in 0..MaxExact
        BY ConstantsAssumption
      <4> QED BY <1>4, <3>3, <4>1
    <3>5. /\ c \in PlaybackState /\ c.current = next /\ c.position = start
          /\ c.entries = state.entries /\ c.session = state.session
          /\ c.revision = state.revision /\ c.at = acked
      BY <1>1, <3>2, <3>4 DEF PlaybackState
    <3>6. Proper(c)
      BY <3>0, <3>3, <3>5 DEF Proper, Selected
    <3>7. AtEnd(state, run, acked, i, c)
      BY <2>4, <3>0, <3>1, <3>5 DEF AtEnd
    <3> QED BY <2>2, <3>5, <3>6, <3>7 DEF Reaching
  <2>5. CASE ~(line[i].end # Open /\ line[i].end <= acked)
    <3>1. acked <= EndOf(run, i) /\ Consumed(line[i], acked) = acked - line[i].start
          /\ acked - line[i].start \in Nat
      BY <1>1, <2>2, <2>3, <2>5 DEF Span, Consumed, EndOf
    <3>2. PICK position : position = line[i].position + Milliseconds(acked - line[i].start)
      OBVIOUS
    <3>3. c = [state EXCEPT !.current = songs[i], !.position = position, !.at = acked]
      BY <1>5, <1>8, <2>1, <2>5, <3>1, <3>2
    <3>4. position \in Nat
      <4>1. line[i].position \in Nat /\ Milliseconds(acked - line[i].start) \in Nat
        BY <2>3, <3>1, WholeMilliseconds DEF Span
      <4> QED BY <3>2, <4>1
    <3>5. songs[i] \in 0..MaxExact /\ songs[i] # 0 /\ songs[i] \in Range(state.entries)
      BY <1>3, <1>4, <2>3
    <3>6. /\ c \in PlaybackState /\ c.current = songs[i] /\ c.position = position
          /\ c.entries = state.entries /\ c.session = state.session
          /\ c.revision = state.revision /\ c.at = acked
      BY <1>1, <3>3, <3>4, <3>5 DEF PlaybackState
    <3>7. Proper(c)
      BY <3>5, <3>6 DEF Proper, Selected
    <3>8. Inside(state, run, acked, i, c)
      BY <3>1, <3>2, <3>6 DEF Inside
    <3> QED BY <2>2, <3>6, <3>7, <3>8 DEF Reaching
  <2> QED BY <2>4, <2>5
<1> QED
  BY <1>7, <1>8

(***************************************************************************)
(* Edits.                                                                  *)
(***************************************************************************)
\* The entry of a queue is found where it is.
LEMMA PositionIs ==
  ASSUME NEW state, Distinct(state.entries), NEW i \in DOMAIN state.entries,
         state.entries[i] = state.current
  PROVE  PositionOf(state) = i /\ Selected(state)
<1>1. Selected(state)
  BY DEF Selected, Range
<1>2. PositionOf(state) \in DOMAIN state.entries
      /\ state.entries[PositionOf(state)] = state.current
  BY DEF PositionOf
<1> QED
  BY <1>1, <1>2 DEF Distinct

\* The new entries among the first of an edit.
LEMMA FreshGrows ==
  ASSUME NEW n \in Nat, NEW items, NEW i \in 0..n, NEW j \in 0..n, i <= j
  PROVE  /\ Fresh(items, i) \in Nat /\ Fresh(items, i) <= Fresh(items, j)
         /\ i < j /\ items[j] = 0 => Fresh(items, i) + 1 <= Fresh(items, j)
         /\ j > 0 /\ items[j] = 0 => Fresh(items, j) >= 1
<1> DEFINE F(k) == {x \in 1..k : items[x] = 0}
<1>1. \A k \in 0..n : IsFiniteSet(F(k)) /\ Cardinality(F(k)) \in Nat
  <2> SUFFICES ASSUME NEW k \in 0..n PROVE IsFiniteSet(F(k)) /\ Cardinality(F(k)) \in Nat
    OBVIOUS
  <2>1. IsFiniteSet(1..k)
    BY FS_Interval
  <2>2. F(k) \in SUBSET (1..k)
    OBVIOUS
  <2>3. IsFiniteSet(F(k))
    BY <2>1, <2>2, FS_Subset
  <2> QED BY <2>3, FS_CardinalityType
<1>2. \A k \in 0..n : Fresh(items, k) = Cardinality(F(k))
  BY DEF Fresh
<1>3. F(i) \in SUBSET F(j)
  OBVIOUS
<1>4. Cardinality(F(i)) <= Cardinality(F(j))
  BY <1>1, <1>3, FS_Subset
<1>5. ASSUME i < j, items[j] = 0 PROVE Cardinality(F(i)) + 1 <= Cardinality(F(j))
  <2>1. j \notin F(i) /\ F(i) \cup {j} \in SUBSET F(j)
    BY <1>5
  <2>2. Cardinality(F(i) \cup {j}) = Cardinality(F(i)) + 1
    BY <1>1, <2>1, FS_AddElement
  <2> QED BY <1>1, <2>1, <2>2, FS_Subset
<1>6. ASSUME j > 0, items[j] = 0 PROVE Cardinality(F(j)) >= 1
  <2>1. j \in F(j)
    BY <1>6
  <2>2. Cardinality(F(j)) # 0
    BY <1>1, <2>1, FS_EmptySet
  <2> QED BY <1>1, <2>2
<1> HIDE DEF F
<1> QED
  BY <1>1, <1>2, <1>4, <1>5, <1>6

\* The prefix of a queue, and what may follow it.
LEMMA PrefixIs ==
  ASSUME NEW state, Proper(state)
  PROVE  \E m \in 1..Len(state.entries) :
           /\ Prefix(state) \in Seq(Occurrences) /\ Len(Prefix(state)) = m
           /\ \A k \in 1..m : Prefix(state)[k] = state.entries[k]
           /\ Future(state) = {state.entries[k] : k \in (m + 1)..Len(state.entries)}
           /\ state.current # 0 => m = PositionOf(state)
           /\ state.current = 0 => m = Len(state.entries) /\ Prefix(state) = state.entries
<1>1. /\ state.entries \in Seq(Occurrences) /\ Len(state.entries) \in Nat
      /\ Len(state.entries) > 0
  BY DEF Proper, PlaybackState
<1>2. CASE Selected(state)
  <2>1. PICK m : m = PositionOf(state)
    OBVIOUS
  <2>2. m \in 1..Len(state.entries) /\ state.entries[m] = state.current
    BY <1>2, <2>1, ProgrammeIs
  <2>3. state.current # 0
    <3>1. state.current \in Occurrences
      BY <1>1, <2>2
    <3> QED BY <3>1 DEF Occurrences
  <2>4. Prefix(state) = SubSeq(state.entries, 1, m)
    BY <1>2, <2>1 DEF Prefix
  <2>5. \A k \in 1..m : state.entries[k] \in Occurrences
    BY <1>1, <2>2
  <2>6. /\ Prefix(state) \in Seq(Occurrences) /\ Len(Prefix(state)) = m
        /\ \A k \in 1..m : Prefix(state)[k] = state.entries[k]
    <3>1. /\ Prefix(state) \in Seq(Occurrences)
          /\ Len(Prefix(state)) = m
          /\ \A k \in 1..(m - 1 + 1) : Prefix(state)[k] = state.entries[1 + k - 1]
      BY <2>2, <2>4, <2>5, SubSeqProperties
    <3>2. \A k \in 1..m : 1 + k - 1 = k /\ k \in 1..(m - 1 + 1)
      BY <2>2
    <3> QED BY <3>1, <3>2
  <2>7. Future(state) = {state.entries[k] : k \in (m + 1)..Len(state.entries)}
    BY <1>2, <2>1 DEF Future
  <2> QED BY <2>1, <2>2, <2>3, <2>6, <2>7
<1>3. CASE ~Selected(state)
  <2>1. state.current = 0
    BY <1>3 DEF Proper
  <2>2. PICK m : m = Len(state.entries)
    OBVIOUS
  <2>3. Prefix(state) = state.entries
    BY <1>3 DEF Prefix
  <2>4. Future(state) = {state.entries[k] : k \in (m + 1)..Len(state.entries)}
    BY <1>3, <2>2 DEF Future
  <2> QED BY <1>1, <2>1, <2>2, <2>3, <2>4
<1> QED
  BY <1>2, <1>3
\* What an edit makes of a queue: its beginning stays, what follows is new or
\* comes from what followed.
Following(items, next) ==
  [i \in DOMAIN items |-> IF items[i] = 0 THEN next + Fresh(items, i) ELSE items[i]]

LEMMA FutureIs ==
  ASSUME NEW state, Proper(state), NEW next \in 0..MaxExact,
         Range(state.entries) \subseteq 1..next,
         NEW items \in Edits(state, next), NEW m \in 1..Len(state.entries),
         Future(state) = {state.entries[k] : k \in (m + 1)..Len(state.entries)},
         NEW future, future = Following(items, next)
  PROVE  /\ Len(items) \in Nat /\ Fresh(items, Len(items)) \in Nat
         /\ next + Fresh(items, Len(items)) <= MaxExact
         /\ future \in Seq(Occurrences) /\ Len(future) = Len(items) /\ Distinct(future)
         /\ \A i \in 1..Len(items) :
              \/ next < future[i] /\ future[i] <= next + Fresh(items, Len(items))
              \/ \E k \in (m + 1)..Len(state.entries) : future[i] = state.entries[k]
<1>1. PICK n \in Nat : items \in [1..n -> Future(state) \cup {0}]
  <2>1. PICK n \in 0..(MaxEntries - Len(Prefix(state))) :
           items \in [1..n -> Future(state) \cup {0}]
    BY DEF Edits
  <2>2. n \in Nat
    <3>1. PICK l \in Nat : Len(Prefix(state)) = l
      BY PrefixIs
    <3> QED BY <3>1, ConstantsAssumption
  <2> QED BY <2>1, <2>2
<1>2. DOMAIN items = 1..n /\ Len(items) = n
  <2>1. items \in Seq(Future(state) \cup {0})
    BY <1>1
  <2> QED BY <1>1, <2>1
<1>3. \A i, j \in 1..n : items[i] = items[j] /\ items[i] # 0 => i = j
  BY <1>2 DEF Edits
<1>4. next + Fresh(items, n) <= MaxExact
  BY <1>2 DEF Edits
<1>5. /\ state.entries \in Seq(Occurrences) /\ DOMAIN state.entries = 1..Len(state.entries)
      /\ Len(state.entries) \in Nat
  BY DEF Proper, PlaybackState
<1>6. ASSUME NEW i \in 1..n, items[i] # 0
      PROVE  /\ future[i] = items[i] /\ future[i] \in Occurrences /\ future[i] <= next
             /\ \E k \in (m + 1)..Len(state.entries) : future[i] = state.entries[k]
  <2>1. future[i] = items[i] /\ items[i] \in Future(state)
    BY <1>1, <1>2, <1>6 DEF Following
  <2>2. PICK k \in (m + 1)..Len(state.entries) : items[i] = state.entries[k]
    BY <2>1
  <2>3. k \in DOMAIN state.entries
    BY <1>5, <2>2
  <2>4. state.entries[k] \in 1..next /\ state.entries[k] \in Occurrences
    BY <1>5, <2>3 DEF Range
  <2> QED BY <2>1, <2>2, <2>4
<1>7. ASSUME NEW i \in 1..n, items[i] = 0
      PROVE  /\ future[i] = next + Fresh(items, i) /\ next < future[i]
             /\ future[i] <= next + Fresh(items, n) /\ future[i] \in Occurrences
             /\ Fresh(items, i) \in Nat
  <2>1. future[i] = next + Fresh(items, i)
    BY <1>2, <1>7 DEF Following
  <2>2. Fresh(items, i) \in Nat /\ Fresh(items, i) >= 1 /\ Fresh(items, i) <= Fresh(items, n)
        /\ Fresh(items, n) \in Nat
    BY <1>7, FreshGrows
  <2> QED BY <1>4, <2>1, <2>2, ConstantsAssumption DEF Occurrences
<1>8. Fresh(items, n) \in Nat
  <2>1. n \in 0..n /\ n <= n
    OBVIOUS
  <2> QED BY <2>1, FreshGrows
<1>9. DOMAIN future = 1..n /\ \A i \in 1..n : future[i] \in Occurrences
  BY <1>2, <1>6, <1>7 DEF Following
<1>10. future \in Seq(Occurrences) /\ Len(future) = n
  <2>1. future \in [1..n -> Occurrences]
    BY <1>2, <1>9 DEF Following
  <2> QED BY <2>1
<1>11. Distinct(future)
  <2> SUFFICES ASSUME NEW i \in 1..n, NEW j \in 1..n, future[i] = future[j]
               PROVE  i = j
    BY <1>9 DEF Distinct
  <2>1. CASE items[i] # 0 /\ items[j] # 0
    BY <1>3, <1>6, <2>1
  <2>2. CASE items[i] = 0 /\ items[j] # 0
    <3>1. next < future[i] /\ future[j] <= next /\ future[i] \in Nat
      BY <1>6, <1>7, <2>2 DEF Occurrences
    <3> QED BY <3>1
  <2>3. CASE items[i] # 0 /\ items[j] = 0
    <3>1. next < future[j] /\ future[i] <= next /\ future[i] \in Nat
      BY <1>6, <1>7, <2>3 DEF Occurrences
    <3> QED BY <3>1
  <2>4. CASE items[i] = 0 /\ items[j] = 0
    <3>1. Fresh(items, i) = Fresh(items, j) /\ Fresh(items, i) \in Nat
      BY <1>7, <2>4
    <3>2. i < j => Fresh(items, i) + 1 <= Fresh(items, j)
      BY <2>4, FreshGrows
    <3>3. j < i => Fresh(items, j) + 1 <= Fresh(items, i)
      BY <2>4, FreshGrows
    <3> QED BY <3>1, <3>2, <3>3
  <2> QED BY <2>1, <2>2, <2>3, <2>4
<1> QED
  BY <1>2, <1>4, <1>6, <1>7, <1>8, <1>10, <1>11
\* The edited state: the prefix is what it was, what follows comes from the old
\* future or is new, and an edit after the end of the queue continues with it.
Rewriting(state, next, e, m) ==
  /\ m <= Len(e.entries)
  /\ \A k \in 1..m : e.entries[k] = state.entries[k]
  /\ \A k \in (m + 1)..Len(e.entries) :
       \/ e.entries[k] > next
       \/ \E l \in (m + 1)..Len(state.entries) : e.entries[k] = state.entries[l]
  /\ state.current # 0 => e.current = state.current /\ m = PositionOf(state)
  /\ state.current = 0 =>
       /\ m = Len(state.entries)
       /\ \/ e.entries = state.entries /\ e.current = 0
          \/ m < Len(e.entries) /\ e.current = e.entries[m + 1]

LEMMA EditedIs ==
  ASSUME NEW state, Proper(state), NEW next \in 0..MaxExact,
         Range(state.entries) \subseteq 1..next,
         NEW items \in Edits(state, next), NEW e, e = Edited(state, items, next)
  PROVE  /\ Fresh(items, Len(items)) \in Nat /\ next + Fresh(items, Len(items)) <= MaxExact
         /\ Proper(e) /\ e.session = state.session /\ e.revision = state.revision
         /\ e.at = state.at /\ e.position = state.position
         /\ Range(e.entries) \subseteq 1..(next + Fresh(items, Len(items)))
         /\ \E m \in 1..Len(state.entries) : Rewriting(state, next, e, m)
<1>1. /\ state \in PlaybackState /\ state.entries \in Seq(Occurrences)
      /\ DOMAIN state.entries = 1..Len(state.entries) /\ Len(state.entries) \in Nat
      /\ state.current \in 0..MaxExact
  BY DEF Proper, PlaybackState
<1>2. PICK m \in 1..Len(state.entries) :
        /\ Prefix(state) \in Seq(Occurrences) /\ Len(Prefix(state)) = m
        /\ \A k \in 1..m : Prefix(state)[k] = state.entries[k]
        /\ Future(state) = {state.entries[k] : k \in (m + 1)..Len(state.entries)}
        /\ state.current # 0 => m = PositionOf(state)
        /\ state.current = 0 => m = Len(state.entries) /\ Prefix(state) = state.entries
  BY PrefixIs
<1>3. PICK future : future = Following(items, next)
  OBVIOUS
<1>4. PICK fresh : fresh = Fresh(items, Len(items))
  OBVIOUS
<1>5. /\ Len(items) \in Nat /\ fresh \in Nat /\ next + fresh <= MaxExact
      /\ future \in Seq(Occurrences) /\ Len(future) = Len(items) /\ Distinct(future)
      /\ \A i \in 1..Len(items) :
            \/ next < future[i] /\ future[i] <= next + fresh
            \/ \E k \in (m + 1)..Len(state.entries) : future[i] = state.entries[k]
  BY <1>2, <1>3, <1>4, FutureIs
<1>6. PICK entries : entries = Prefix(state) \o future
  OBVIOUS
<1>7. PICK n \in Nat : n = Len(items)
  BY <1>5
<1>8. /\ entries \in Seq(Occurrences) /\ Len(entries) = m + n /\ DOMAIN entries = 1..(m + n)
      /\ \A k \in 1..(m + n) :
            entries[k] = IF k <= m THEN Prefix(state)[k] ELSE future[k - m]
  <2>1. /\ entries \in Seq(Occurrences) /\ Len(entries) = m + n
        /\ \A k \in 1..(m + n) :
              entries[k] = IF k <= m THEN Prefix(state)[k] ELSE future[k - m]
    BY <1>2, <1>5, <1>6, <1>7, ConcatProperties
  <2> QED BY <2>1, LenProperties
<1>9. \A k \in 1..m : entries[k] = state.entries[k]
  BY <1>2, <1>7, <1>8
<1>10. ASSUME NEW k \in (m + 1)..(m + n)
       PROVE  /\ k - m \in 1..n /\ entries[k] = future[k - m]
              /\ \/ next < entries[k] /\ entries[k] <= next + fresh
                 \/ \E l \in (m + 1)..Len(state.entries) : entries[k] = state.entries[l]
  <2>1. k - m \in 1..n /\ k \in 1..(m + n) /\ ~(k <= m)
    BY <1>7
  <2>2. entries[k] = future[k - m]
    BY <1>8, <2>1
  <2> QED BY <1>5, <1>7, <2>1, <2>2
<1>11. PICK current : current = IF state.current = 0 /\ future # <<>> THEN future[1]
                               ELSE state.current
  OBVIOUS
<1>12. e = [state EXCEPT !.entries = entries, !.current = current]
  BY <1>3, <1>6, <1>11 DEF Edited, Following
<1>13. future # <<>> => n > 0 /\ future[1] \in Occurrences /\ entries[m + 1] = future[1]
  <2> SUFFICES ASSUME future # <<>>
               PROVE  n > 0 /\ future[1] \in Occurrences /\ entries[m + 1] = future[1]
    OBVIOUS
  <2>1. n > 0
    BY <1>5, <1>7, EmptySeq
  <2>2. m + 1 \in (m + 1)..(m + n) /\ m + 1 - m = 1 /\ 1 \in 1..Len(future)
    BY <1>5, <1>7, <2>1
  <2> QED BY <1>5, <1>10, <2>1, <2>2, ElementOfSeq
<1>14. current \in 0..MaxExact
  BY <1>1, <1>11, <1>13 DEF Occurrences
<1>15. /\ e \in PlaybackState /\ e.entries = entries /\ e.current = current
       /\ e.session = state.session /\ e.revision = state.revision
       /\ e.at = state.at /\ e.position = state.position
  BY <1>1, <1>8, <1>12, <1>14 DEF PlaybackState
<1>16. entries # <<>>
  BY <1>7, <1>8, EmptySeq
<1>17. \A k \in 1..Len(state.entries) : state.entries[k] \in 1..next
  BY <1>1 DEF Range
<1>18. Distinct(entries)
  <2> SUFFICES ASSUME NEW i \in 1..(m + n), NEW j \in 1..(m + n), entries[i] = entries[j]
               PROVE  i = j
    BY <1>8 DEF Distinct
  <2>1. \A k, l \in 1..Len(state.entries) : state.entries[k] = state.entries[l] => k = l
    BY <1>1 DEF Proper, Distinct
  <2>2. ASSUME NEW k \in 1..m, NEW l \in (m + 1)..(m + n) PROVE entries[k] # entries[l]
    <3>1. k \in 1..Len(state.entries) /\ entries[k] = state.entries[k]
      BY <1>1, <1>9
    <3>2. CASE next < entries[l]
      BY <1>17, <3>1, <3>2
    <3>3. ASSUME NEW x \in (m + 1)..Len(state.entries), entries[l] = state.entries[x]
          PROVE  entries[k] # entries[l]
      <4>1. x \in 1..Len(state.entries) /\ k # x
        BY <1>1
      <4> QED BY <2>1, <3>1, <3>3, <4>1
    <3> QED BY <1>10, <3>2, <3>3
  <2>3. CASE i \in 1..m /\ j \in 1..m
    BY <1>1, <1>9, <2>1, <2>3
  <2>4. CASE i \in 1..m /\ j \notin 1..m
    BY <1>7, <2>2, <2>4
  <2>5. CASE i \notin 1..m /\ j \in 1..m
    BY <1>7, <2>2, <2>5
  <2>6. CASE i \notin 1..m /\ j \notin 1..m
    <3>1. i \in (m + 1)..(m + n) /\ j \in (m + 1)..(m + n)
      BY <1>7, <2>6
    <3>2. i - m \in 1..n /\ j - m \in 1..n /\ future[i - m] = future[j - m]
      BY <1>10, <3>1
    <3>3. DOMAIN future = 1..n
      BY <1>5, <1>7, LenProperties
    <3>4. i - m = j - m
      BY <1>5, <3>2, <3>3 DEF Distinct
    <3> QED BY <1>7, <3>1, <3>4
  <2> QED BY <2>3, <2>4, <2>5, <2>6
<1>19. Range(entries) \subseteq 1..(next + fresh)
  <2> SUFFICES ASSUME NEW k \in 1..(m + n) PROVE entries[k] \in 1..(next + fresh)
    BY <1>8 DEF Range
  <2>1. entries[k] \in Occurrences
    BY <1>8, ElementOfSeq
  <2>2. CASE k \in 1..m
    <3>1. k \in 1..Len(state.entries) /\ entries[k] = state.entries[k]
      BY <1>1, <1>9, <2>2
    <3>2. entries[k] \in 1..next
      BY <1>17, <3>1
    <3> QED BY <1>5, <3>2
  <2>3. CASE k \notin 1..m
    <3>1. k \in (m + 1)..(m + n)
      BY <1>7, <2>3
    <3>2. CASE next < entries[k] /\ entries[k] <= next + fresh
      BY <2>1, <3>2 DEF Occurrences
    <3>3. ASSUME NEW l \in (m + 1)..Len(state.entries), entries[k] = state.entries[l]
          PROVE  entries[k] \in 1..(next + fresh)
      <4>1. l \in 1..Len(state.entries)
        BY <1>1
      <4>2. entries[k] \in 1..next
        BY <1>17, <3>3, <4>1
      <4> QED BY <1>5, <4>2
    <3> QED BY <1>10, <3>1, <3>2, <3>3
  <2> QED BY <2>2, <2>3
<1>20. /\ state.current # 0 => current = state.current
       /\ state.current = 0 => \/ entries = state.entries /\ current = 0
                               \/ m < Len(entries) /\ current = entries[m + 1]
  <2>1. CASE future = <<>>
    <3>1. entries = Prefix(state)
      BY <1>2, <1>6, <2>1, ConcatEmptySeq
    <3> QED BY <1>2, <1>11, <2>1, <3>1
  <2>2. CASE future # <<>>
    BY <1>7, <1>8, <1>11, <1>13, <2>2
  <2> QED BY <2>1, <2>2
<1>21. Proper(e)
  <2>1. e.current = 0 => e.position = 0
    BY <1>1, <1>11, <1>13, <1>15 DEF Proper, Occurrences
  <2>2. current # 0 => current \in Range(entries)
    <3>1. CASE state.current # 0
      <4>1. m \in 1..Len(state.entries) /\ state.entries[m] = state.current
        <5>1. Selected(state)
          BY <3>1 DEF Proper
        <5> QED BY <1>2, <3>1, <5>1, ProgrammeIs
      <4>2. entries[m] = current /\ m \in DOMAIN entries
        BY <1>7, <1>8, <1>9, <1>20, <3>1, <4>1
      <4> QED BY <4>2 DEF Range
    <3>2. CASE state.current = 0
      BY <1>7, <1>8, <1>20, <3>2 DEF Range
    <3> QED BY <3>1, <3>2
  <2> QED BY <1>15, <1>16, <1>18, <2>1, <2>2 DEF Proper, Selected
<1>22. /\ m <= Len(e.entries)
       /\ \A k \in 1..m : e.entries[k] = state.entries[k]
       /\ \A k \in (m + 1)..Len(e.entries) :
            \/ e.entries[k] > next
            \/ \E l \in (m + 1)..Len(state.entries) : e.entries[k] = state.entries[l]
  BY <1>7, <1>8, <1>9, <1>10, <1>15
<1>23. /\ state.current # 0 => e.current = state.current /\ m = PositionOf(state)
       /\ state.current = 0 =>
            /\ m = Len(state.entries)
            /\ \/ e.entries = state.entries /\ e.current = 0
               \/ m < Len(e.entries) /\ e.current = e.entries[m + 1]
  BY <1>2, <1>15, <1>20
<1>24. Rewriting(state, next, e, m)
  BY <1>22, <1>23 DEF Rewriting
<1> QED
  BY <1>4, <1>5, <1>15, <1>19, <1>21, <1>24

(***************************************************************************)
(* Visits.                                                                 *)
(***************************************************************************)
Visited == UNION {[d -> Visit] : d \in SUBSET Occurrences}
Listening == [visits : Visited, moved : SUBSET Occurrences]

LEMMA VisitedIs ==
  ASSUME NEW visits
  PROVE  visits \in Visited <=>
           DOMAIN visits \subseteq Occurrences /\ visits \in [DOMAIN visits -> Visit]
BY DEF Visited

\* The spans with an acknowledged frame, and how many there are in them.
LEMMA ConsumedIs ==
  ASSUME NEW s \in Sessions, Lined(snap[s], stream[s]), NEW acked \in 0..stream[s].sent,
         NEW i \in DOMAIN stream[s].line
  PROVE  /\ i \in Listened(s, acked) <=>
               /\ stream[s].line[i].start < acked
               /\ stream[s].line[i].start < EndOf(stream[s], i)
         /\ stream[s].line[i].start <= acked =>
               Consumed(stream[s].line[i], acked)
                 = (IF acked < EndOf(stream[s], i) THEN acked ELSE EndOf(stream[s], i))
                     - stream[s].line[i].start
         /\ i \in Listened(s, acked) => Consumed(stream[s].line[i], acked) \in Nat \ {0}
<1> DEFINE span == stream[s].line[i]
<1>1. /\ span \in Span /\ span.start \in Nat /\ EndOf(stream[s], i) \in Nat
      /\ stream[s].sent \in Nat
      /\ span.start <= EndOf(stream[s], i) /\ EndOf(stream[s], i) <= stream[s].sent
  BY SpansAre DEF Spanned
<1>2. CASE span.end = Open
  <2>1. EndOf(stream[s], i) = stream[s].sent
    BY <1>2 DEF EndOf
  <2>2. Consumed(span, acked) = acked - span.start
    BY <1>2 DEF Consumed
  <2> QED BY <1>1, <2>1, <2>2 DEF Listened
<1>3. CASE span.end # Open
  <2>1. EndOf(stream[s], i) = span.end
    BY <1>3 DEF EndOf
  <2>2. Consumed(span, acked) = (IF acked < span.end THEN acked ELSE span.end) - span.start
    BY <1>3 DEF Consumed
  <2> QED BY <1>1, <2>1, <2>2 DEF Listened
<1> QED
  BY <1>2, <1>3

LEMMA VisitIs ==
  ASSUME NEW s \in Sessions, Proper(snap[s]), Lined(snap[s], stream[s]),
         listens[s] \in Listening, NEW acked \in 0..stream[s].sent,
         NEW i \in Listened(s, acked), NEW o, o = Programme(snap[s])[i],
         NEW visit, visit = VisitOf(s, acked, i)
  PROVE  /\ o \in Occurrences /\ o \in Range(snap[s].entries)
         /\ visit \in Visit
         /\ visit.frames = Consumed(stream[s].line[i], acked)
              + (IF o \in DOMAIN listens[s].visits THEN listens[s].visits[o].frames ELSE 0)
         /\ visit.completed <=>
              /\ ~visit.moved
              /\ stream[s].line[i].end # Open /\ stream[s].line[i].end <= acked
         /\ visit.moved <=>
              \/ o \in listens[s].moved
              \/ o \in DOMAIN listens[s].visits /\ listens[s].visits[o].moved
              \/ o \notin DOMAIN listens[s].visits /\ i = 1 /\ snap[s].position > 0
<1>1. i \in DOMAIN stream[s].line
  BY DEF Listened
<1>2. i \in 1..Len(Programme(snap[s])) /\ Selected(snap[s])
  BY <1>1, SpansAre DEF Lined
<1>3. o \in Occurrences /\ o \in Range(snap[s].entries)
  <2>1. PICK p : p = PositionOf(snap[s])
    OBVIOUS
  <2>2. p + i - 1 \in 1..Len(snap[s].entries) /\ o = snap[s].entries[p + i - 1]
        /\ o \in Occurrences
    BY <1>2, <2>1, ProgrammeIs
  <2>3. DOMAIN snap[s].entries = 1..Len(snap[s].entries)
    BY DEF Proper, PlaybackState
  <2> QED BY <2>2, <2>3 DEF Range
<1>4. Consumed(stream[s].line[i], acked) \in Nat
  BY <1>1, ConsumedIs
<1>5. /\ listens[s].visits \in Visited
      /\ o \in DOMAIN listens[s].visits =>
           /\ listens[s].visits[o] \in Visit /\ listens[s].visits[o].frames \in Nat
           /\ listens[s].visits[o].moved \in BOOLEAN
  BY VisitedIs DEF Listening, Visit
<1>6. PICK frames : frames = Consumed(stream[s].line[i], acked)
              + (IF o \in DOMAIN listens[s].visits THEN listens[s].visits[o].frames ELSE 0)
  OBVIOUS
<1>7. PICK moved \in BOOLEAN : moved <=>
              \/ o \in listens[s].moved
              \/ o \in DOMAIN listens[s].visits /\ listens[s].visits[o].moved
              \/ o \notin DOMAIN listens[s].visits /\ i = 1 /\ snap[s].position > 0
  OBVIOUS
<1>8. PICK completed \in BOOLEAN : completed <=>
              ~moved /\ stream[s].line[i].end # Open /\ stream[s].line[i].end <= acked
  OBVIOUS
<1>9. frames \in Nat
  <2>1. PICK more \in Nat :
          more = IF o \in DOMAIN listens[s].visits THEN listens[s].visits[o].frames ELSE 0
    BY <1>5
  <2>2. PICK part \in Nat : part = Consumed(stream[s].line[i], acked)
    BY <1>4
  <2>3. frames = part + more
    BY <1>6, <2>1, <2>2
  <2> QED BY <2>1, <2>2, <2>3
<1>10. visit = [frames |-> frames, completed |-> completed, moved |-> moved]
  BY <1>6, <1>7, <1>8 DEF VisitOf
<1>11. visit.frames = frames /\ visit.completed = completed /\ visit.moved = moved
       /\ visit \in Visit
  BY <1>9, <1>10 DEF Visit
<1> QED
  BY <1>3, <1>6, <1>7, <1>8, <1>11

\* accumulate: what an epoch adds, visit by visit.
LEMMA VisitsAre ==
  ASSUME NEW s \in Sessions, Proper(snap[s]), Lined(snap[s], stream[s]),
         listens[s] \in Listening, NEW acked \in 0..stream[s].sent,
         NEW visits, visits = Visits(s, acked)
  PROVE  /\ visits \in Visited
         /\ DOMAIN visits = DOMAIN listens[s].visits
                              \cup {Programme(snap[s])[i] : i \in Kept(s, acked)}
         /\ DOMAIN visits \subseteq DOMAIN listens[s].visits \cup Range(snap[s].entries)
         /\ Kept(s, acked) \subseteq Listened(s, acked)
         /\ \A i \in Kept(s, acked) : visits[Programme(snap[s])[i]] = VisitOf(s, acked, i)
         /\ \A o \in DOMAIN listens[s].visits :
              (\A i \in Kept(s, acked) : Programme(snap[s])[i] # o) =>
                 visits[o] = listens[s].visits[o]
<1> DEFINE songs == Programme(snap[s])
           kept == Kept(s, acked)
           old == listens[s].visits
<1>1. kept \subseteq Listened(s, acked)
  BY DEF Kept
<1>2. DOMAIN visits = DOMAIN old \cup {songs[i] : i \in kept}
  BY DEF Visits
<1>3. \A i \in kept : songs[i] \in Occurrences /\ songs[i] \in Range(snap[s].entries)
                     /\ VisitOf(s, acked, i) \in Visit
  BY <1>1, VisitIs
<1>4. \A i, j \in kept : songs[i] = songs[j] => i = j
  <2> SUFFICES ASSUME NEW i \in kept, NEW j \in kept, songs[i] = songs[j] PROVE i = j
    OBVIOUS
  <2>1. i \in 1..Len(songs) /\ j \in 1..Len(songs) /\ Selected(snap[s])
    BY <1>1, SpansAre DEF Lined, Listened
  <2>2. songs \in Seq(Occurrences) /\ Distinct(songs)
    BY <2>1, ProgrammeIs
  <2> QED BY <2>1, <2>2, LenProperties DEF Distinct
<1>5. ASSUME NEW i \in kept PROVE visits[songs[i]] = VisitOf(s, acked, i)
  <2>1. PICK o : o = songs[i]
    OBVIOUS
  <2>2. visits[o] = VisitOf(s, acked, CHOOSE j \in kept : songs[j] = o)
    BY <2>1 DEF Visits
  <2>3. (CHOOSE j \in kept : songs[j] = o) = i
    BY <1>4, <2>1
  <2> QED BY <2>1, <2>2, <2>3
<1>6. ASSUME NEW o \in DOMAIN old, \A i \in kept : songs[i] # o
      PROVE  visits[o] = old[o]
  BY <1>6 DEF Visits
<1>7. old \in Visited /\ DOMAIN old \subseteq Occurrences /\ \A o \in DOMAIN old : old[o] \in Visit
  BY VisitedIs DEF Listening
<1>8. visits \in Visited
  <2>1. visits = [o \in DOMAIN visits |-> visits[o]]
    BY DEF Visits
  <2>2. ASSUME NEW o \in DOMAIN visits PROVE o \in Occurrences /\ visits[o] \in Visit
    <3>1. CASE \E i \in kept : songs[i] = o
      BY <1>3, <1>5, <3>1
    <3>2. CASE \A i \in kept : songs[i] # o
      BY <1>2, <1>6, <1>7, <3>2
    <3> QED BY <3>1, <3>2
  <2>3. visits \in [DOMAIN visits -> Visit]
    BY <2>1, <2>2
  <2> QED BY <2>2, <2>3, VisitedIs
<1> HIDE DEF songs, kept, old
<1>9. DOMAIN visits \subseteq DOMAIN old \cup Range(snap[s].entries)
  BY <1>2, <1>3
<1> QED
  BY <1>1, <1>2, <1>5, <1>6, <1>8, <1>9 DEF songs, kept, old

(***************************************************************************)
(* The types of a session, and its epoch.                                  *)
(***************************************************************************)
Blank(x) == x = NoState \/ Proper(x)
Single(set) == \A a, b \in set : a = b
Counting == [next : 0..MaxExact, actions : 0..MaxActions]

\* The states of a session are proper, and its stream is an epoch of its own state.
Cursors(s) ==
  /\ Blank(prior[s]) /\ Blank(snap[s]) /\ Blank(backup[s])
  /\ phase[s] \in Loaded => Proper(snap[s])
  /\ phase[s] \in {"waiting", "playing"} => Selected(snap[s])
  /\ IF phase[s] = "playing" THEN Lined(snap[s], stream[s]) ELSE stream[s] = NoStream

Pending(s) ==
  /\ \A item \in Writes(s) : item \in Snapshot /\ Proper(item.state)
  /\ Single(saving[s]) /\ Single(writing[s])

Flags(s) ==
  /\ failed[s] \in BOOLEAN /\ late[s] \in BOOLEAN /\ reply[s] \in {"none", "saved", "refused"}
  /\ listens[s] \in Listening /\ counts[s] \in Counting

\* Every occurrence of the session has been given out; others are still free.
Numbered(s) ==
  IF Streaming(s)
  THEN /\ Range(snap[s].entries) \subseteq 1..counts[s].next
       /\ DOMAIN listens[s].visits \subseteq 1..counts[s].next
       /\ backup[s] # NoState => backup[s].entries = snap[s].entries
  ELSE listens[s] = NoListens

Sound(s) == Cursors(s) /\ Pending(s) /\ Flags(s) /\ Numbered(s)

Recorded ==
  /\ OnSessions(listens) /\ OnSessions(counts) /\ OnSessions(late)
  /\ OnSessions(heard) /\ OnSessions(origins) /\ OnSessions(failed)

\* All that is stored is proper, or nothing.
Filled == Blank(written) /\ \A x \in Copies : Blank(x)

SoundInv ==
  /\ Recorded /\ lease \in Sessions \cup {Nobody} /\ Filled
  /\ \A s \in Sessions : Sound(s)
-----------------------------------------------------------------------------
SameRecord(t) ==
  /\ listens'[t] = listens[t] /\ counts'[t] = counts[t] /\ late'[t] = late[t]
  /\ heard'[t] = heard[t] /\ origins'[t] = origins[t] /\ failed'[t] = failed[t]

LEMMA RecordAlone ==
  ASSUME Recorded, NEW s \in Sessions, Acquire(s) \/ Advance(s) \/ SendSave(s) \/ Write(s)
  PROVE  Recorded' /\ \A t \in Sessions : t # s => SameRecord(t)
<1>0. OnSessions(failed)' /\ \A t \in Sessions : t # s => failed'[t] = failed[t]
  BY FailedAlone DEF Recorded
<1>1. ASSUME UNCHANGED <<listens, counts, late, heard, origins>>
      PROVE  Recorded' /\ \A t \in Sessions : t # s => SameRecord(t)
  BY <1>0, <1>1 DEF Recorded, SameRecord, OnSessions
<1> USE DEF Recorded, SameRecord, OnSessions
<1>2. ASSUME NEW acked, Hears(s, acked)
      PROVE  \E h : heard' = [heard EXCEPT ![s] = h]
  BY <1>2 DEF Hears
<1>3. CASE Acquire(s) \/ ReadProfile(s) \/ Begin(s) \/ SendSave(s)
  BY <1>1, <1>3 DEF Acquire, ReadProfile, Begin, SendSave, own
<1>4. CASE SendTrack(s) \/ SendAudio(s) \/ SendTrackEnd(s) \/ SendEof(s)
  BY <1>1, <1>4 DEF SendTrack, SendAudio, SendTrackEnd, SendEof
<1>5. CASE DoNotBegin(s) \/ ControlNotSaved(s) \/ ControlSaved(s) \/ Defer(s) \/ Write(s)
  BY <1>1, <1>5 DEF DoNotBegin, ControlNotSaved, ControlSaved, Defer, Write, Take,
                    Publish, DoNotPublish, own
<1>6. CASE GiveUp(s) \/ Release(s) \/ ReleaseLate(s)
  BY <1>0, <1>6 DEF GiveUp, Release, ReleaseLate, Forget
<1>7. CASE Claim(s)
  BY <1>0, <1>7 DEF Claim
<1>8. CASE Format(s) \/ NoFormat(s)
  BY <1>0, <1>8 DEF Format, NoFormat
<1>9. CASE Flushed(s)
  BY <1>0, <1>9 DEF Flushed, HandOver
<1>10. CASE Acknowledge(s)
  BY <1>0, <1>2, <1>10 DEF Acknowledge
<1>11. ASSUME NEW visits, NEW slow, listens' = [listens EXCEPT ![s].visits = visits],
              late' = [late EXCEPT ![s] = slow], UNCHANGED <<counts, origins>>,
              heard' = heard \/ \E h : heard' = [heard EXCEPT ![s] = h]
       PROVE  Recorded' /\ \A t \in Sessions : t # s => SameRecord(t)
  BY <1>0, <1>11
<1>12. CASE Stop(s) \/ PlayedOut(s) \/ Interrupted(s)
  <2>1. ASSUME NEW acked, NEW state, NEW fails, Halt(s, acked, state, fails)
        PROVE  \E visits, slow : /\ listens' = [listens EXCEPT ![s].visits = visits]
                                 /\ late' = [late EXCEPT ![s] = slow]
                                 /\ UNCHANGED <<counts, origins>>
    BY <2>1 DEF Halt
  <2>2. /\ \E visits, slow : /\ listens' = [listens EXCEPT ![s].visits = visits]
                             /\ late' = [late EXCEPT ![s] = slow]
                             /\ UNCHANGED <<counts, origins>>
        /\ heard' = heard \/ \E h : heard' = [heard EXCEPT ![s] = h]
    BY <1>2, <1>12, <2>1 DEF Stop, PlayedOut, Interrupted
  <2> QED BY <1>11, <2>2
<1>13. CASE Seek(s)
  <2>1. PICK acked, record : /\ Hears(s, acked) /\ listens' = [listens EXCEPT ![s] = record]
                            /\ UNCHANGED <<late, origins>>
    BY <1>13 DEF Seek
  <2>2. PICK h, counted : /\ heard' = [heard EXCEPT ![s] = h]
                          /\ counts' = [counts EXCEPT ![s].actions = counted]
    BY <1>2, <1>13, <2>1 DEF Seek
  <2> QED BY <1>0, <2>1, <2>2
<1>14. CASE Edit(s)
  <2>1. PICK acked, visits, counted :
          /\ Hears(s, acked) /\ listens' = [listens EXCEPT ![s].visits = visits]
          /\ counts' = [counts EXCEPT ![s] = counted]
          /\ UNCHANGED <<late, origins>>
    BY <1>14 DEF Edit
  <2>2. PICK h : heard' = [heard EXCEPT ![s] = h]
    BY <1>2, <2>1
  <2> QED BY <1>0, <2>1, <2>2
<1> QED
  BY <1>3, <1>4, <1>5, <1>6, <1>7, <1>8, <1>9, <1>10, <1>12, <1>13, <1>14 DEF Advance

LEMMA OthersKeepSound ==
  ASSUME NEW t \in Sessions, Sound(t), Same(t), SameRecord(t)
  PROVE  Sound(t)'
<1>1. Writes(t)' = Writes(t)
  BY DEF Same, Writes
<1>2. Cursors(t)'
  BY DEF Sound, Cursors, Same
<1>3. Pending(t)' /\ Flags(t)'
  BY <1>1 DEF Sound, Pending, Flags, Same, SameRecord
<1>4. Numbered(t)'
  BY DEF Sound, Numbered, Streaming, Same, SameRecord
<1> QED
  BY <1>2, <1>3, <1>4 DEF Sound

LEMMA NothingTyped ==
  /\ Blank(NoState) /\ NoState \in PlaybackState /\ NoListens \in Listening
  /\ [next |-> 0, actions |-> 0] \in Counting /\ DOMAIN NoListens.visits = {}
  /\ NoListens.moved = {}
<1>1. [o \in {} |-> 0] \in Visited
  BY VisitedIs
<1> QED
  BY <1>1, NoStateTyped, ConstantsAssumption DEF Blank, NoListens, Listening, Counting

\* What is pending stays, or becomes less.
LEMMA PendingLess ==
  ASSUME NEW s \in Sessions, Pending(s), Writes(s)' \subseteq Writes(s),
         saving'[s] \subseteq saving[s],
         writing'[s] \subseteq writing[s] \/ \E x : writing'[s] = {x}
  PROVE  Pending(s)'
BY DEF Pending, Single

LEMMA BeginningSound ==
  ASSUME IInv, Recorded, Filled, NEW s \in Sessions, Sound(s),
         \/ Acquire(s) \/ ReadProfile(s) \/ GiveUp(s) \/ Release(s) \/ ReleaseLate(s)
  PROVE  Sound(s)' /\ UNCHANGED store /\ lease' \in {lease, s, Nobody}
<1>0. Shapes
  BY DEF IInv
<1>1. CASE Acquire(s) \/ ReadProfile(s)
  <2>1. /\ phase[s] \in {"idle", "reading"} /\ phase'[s] \in {"reading", "claiming"}
        /\ prior'[s] \in {prior[s], disk}
        /\ UNCHANGED <<snap, backup, stream, saving, reply, queue, writing,
                       listens, counts, late, failed, store>>
        /\ lease' \in {lease, s}
    BY <1>0, <1>1 DEF Acquire, ReadProfile, Shapes, OnSessions, own, writer
  <2>2. Cursors(s)'
    BY <2>1 DEF Sound, Cursors, Loaded, Filled, Copies
  <2>3. Writes(s)' = Writes(s)
    BY <2>1 DEF Writes
  <2>4. Pending(s)' /\ Flags(s)'
    BY <2>1, <2>3 DEF Sound, Pending, Flags
  <2>5. Numbered(s)'
    BY <2>1 DEF Sound, Numbered, Streaming
  <2> QED BY <2>1, <2>2, <2>4, <2>5 DEF Sound
<1>2. CASE GiveUp(s) \/ Release(s) \/ ReleaseLate(s)
  <2>1. /\ phase'[s] = "closed" /\ prior'[s] = NoState /\ snap'[s] = NoState
        /\ backup'[s] = NoState /\ stream'[s] = NoStream /\ listens'[s] = NoListens
        /\ counts'[s] = [next |-> 0, actions |-> 0] /\ failed'[s] = FALSE /\ late'[s] = FALSE
    BY <1>0, <1>2 DEF GiveUp, Release, ReleaseLate, Forget, Shapes, OnSessions, Recorded
  <2>2. UNCHANGED <<saving, reply, queue, writing, store>> /\ lease' = Nobody
    BY <1>2 DEF GiveUp, Release, ReleaseLate, writer
  <2>3. Cursors(s)'
    BY <2>1, NothingTyped DEF Cursors, Loaded
  <2>4. Writes(s)' = Writes(s)
    BY <2>2 DEF Writes
  <2>5. Pending(s)' /\ Flags(s)'
    BY <2>1, <2>2, <2>4, NothingTyped DEF Sound, Pending, Flags
  <2>6. Numbered(s)'
    BY <2>1 DEF Numbered, Streaming
  <2> QED BY <2>2, <2>3, <2>5, <2>6 DEF Sound
<1> QED
  BY <1>1, <1>2

\* An epoch that has sent nothing.
LEMMA NothingLined ==
  ASSUME NEW state, Proper(state), Selected(state), From(state) <= Length
  PROVE  Lined(state, NoStream)
<1>1. NoStream \in Epoch /\ NoStream.line = <<>> /\ NoStream.tape = <<>>
      /\ NoStream.sent = 0 /\ NoStream.acked = 0 /\ NoStream.eof = FALSE
  BY DEF NoStream, Epoch
<1>2. Len(Programme(state)) \in Nat
  BY ProgrammeIs, LenProperties
<1>3. DOMAIN NoStream.line = {} /\ Len(NoStream.line) = 0 /\ Len(NoStream.tape) = 0
  BY <1>1
<1> QED
  BY <1>1, <1>2, <1>3 DEF Lined

\* The claim is what is stored then, and the number of its entries the last given out.
LEMMA FirstProper ==
  ASSUME NEW s \in Sessions, Blank(prior[s]), prior[s].revision < MaxExact,
         NEW resume \in BOOLEAN, NEW n \in 1..MaxEntries,
         resume => prior[s] # NoState /\ n = 1,
         NEW first, first = FirstState(s, resume, n)
  PROVE  Proper(first)
<1>1. prior[s] \in PlaybackState /\ prior[s].revision \in 0..MaxExact
  BY NothingTyped DEF Blank, Proper, PlaybackState
<1>2. PICK revision : revision = prior[s].revision + 1
  OBVIOUS
<1>3. revision \in 0..MaxExact
  BY <1>1, <1>2, ConstantsAssumption
<1>4. CASE resume
  <2>1. PICK x : x = prior[s]
    OBVIOUS
  <2>2. Proper(x)
    BY <1>4, <2>1 DEF Blank
  <2>3. PICK nothing \in Nat : nothing = 0
    OBVIOUS
  <2>4. first = [x EXCEPT !.session = s, !.revision = revision, !.at = nothing]
    BY <1>2, <1>4, <2>1, <2>3 DEF FirstState
  <2>5. x \in PlaybackState
    BY <2>2 DEF Proper
  <2>6. /\ first \in PlaybackState /\ first.entries = x.entries
        /\ first.current = x.current /\ first.position = x.position
    BY <1>3, <2>4, <2>5 DEF PlaybackState
  <2> QED BY <2>2, <2>6 DEF Proper, Selected
<1>5. CASE ~resume
  <2>1. PICK entries : entries = [i \in 1..n |-> i]
    OBVIOUS
  <2>2. n \in Nat /\ n <= MaxExact /\ n >= 1 /\ MaxExact \in Nat
    BY ConstantsAssumption
  <2>3. \A i \in 1..n : i \in Occurrences
    BY <2>2 DEF Occurrences
  <2>4. entries \in [1..n -> Occurrences]
    BY <2>1, <2>3
  <2>5. entries \in Seq(Occurrences) /\ Len(entries) = n /\ DOMAIN entries = 1..n
        /\ \A i \in 1..n : entries[i] = i
    BY <2>1, <2>2, <2>4
  <2>6. first = [session |-> s, revision |-> revision, entries |-> entries,
                 current |-> 1, position |-> 0, at |-> 0]
    BY <1>2, <1>5, <2>1 DEF FirstState
  <2>7. /\ first \in PlaybackState /\ first.entries = entries
        /\ first.current = 1 /\ first.position = 0
    BY <1>3, <2>2, <2>5, <2>6 DEF PlaybackState
  <2>8. 1 \in Range(entries)
    BY <2>2, <2>5 DEF Range
  <2>9. entries # <<>> /\ Distinct(entries)
    BY <2>2, <2>5, EmptySeq DEF Distinct
  <2> QED BY <2>7, <2>8, <2>9 DEF Proper, Selected
<1> QED
  BY <1>4, <1>5

LEMMA LargestIs ==
  ASSUME NEW x, Proper(x)
  PROVE  Largest(x.entries) \in 0..MaxExact /\ Range(x.entries) \subseteq 1..Largest(x.entries)
<1>1. /\ x.entries \in Seq(Occurrences) /\ x.entries # <<>> /\ Len(x.entries) \in Nat
      /\ DOMAIN x.entries = 1..Len(x.entries)
  BY DEF Proper, PlaybackState
<1>2. PICK used : used = Range(x.entries)
  OBVIOUS
<1>3. used \subseteq Occurrences /\ used # {}
  <2>1. Len(x.entries) > 0
    BY <1>1, EmptySeq
  <2>2. x.entries[1] \in used
    BY <1>1, <1>2, <2>1 DEF Range
  <2>3. \A i \in 1..Len(x.entries) : x.entries[i] \in Occurrences
    BY <1>1
  <2> QED BY <1>1, <1>2, <2>2, <2>3 DEF Range
<1>4. \A o \in used : o \in Nat /\ o >= 1 /\ o <= MaxExact
  BY <1>3, ConstantsAssumption DEF Occurrences
<1>5. \E o \in used : \A p \in used : p <= o
  BY <1>3, <1>4, ConstantsAssumption, GreatestElement
<1>6. Largest(x.entries) \in used /\ \A p \in used : p <= Largest(x.entries)
  BY <1>1, <1>2, <1>5 DEF Largest
<1> QED
  BY <1>2, <1>4, <1>6

LEMMA ClaimSound ==
  ASSUME IInv, Recorded, Filled, NEW s \in Sessions, Sound(s), Claim(s)
  PROVE  Sound(s)' /\ Proper(disk') /\ Filled' /\ lease' = lease
<1>0. Shapes /\ Local(s)
  BY DEF IInv
<1>1. PICK resume, n, first :
        /\ resume \in BOOLEAN /\ n \in 1..MaxEntries
        /\ resume => prior[s] # NoState /\ n = 1
        /\ first = FirstState(s, resume, n)
        /\ disk' = first /\ written' = first /\ archives' = archives
        /\ snap' = [snap EXCEPT ![s] = first]
        /\ counts' = [counts EXCEPT ![s].next = Largest(first.entries)]
  <2>1. PICK resume \in BOOLEAN, n \in 1..MaxEntries :
          /\ resume => prior[s] # NoState /\ n = 1
          /\ LET first == FirstState(s, resume, n)
             IN /\ disk' = first /\ written' = first
                /\ snap' = [snap EXCEPT ![s] = first]
                /\ counts' = [counts EXCEPT ![s].next = Largest(first.entries)]
    BY DEF Claim
  <2>2. archives' = archives
    BY DEF Claim
  <2> QED BY <2>1, <2>2
<1>2. /\ phase[s] = "claiming" /\ prior[s].revision < MaxExact /\ phase'[s] = "opening"
      /\ prior'[s] = NoState /\ snap'[s] = first
      /\ UNCHANGED <<lease, backup, stream, listens, late, failed, saving, reply, queue, writing>>
  BY <1>0, <1>1 DEF Claim, Shapes, OnSessions, writer
<1>3. Proper(first)
  BY <1>1, <1>2, FirstProper DEF Sound, Cursors
<1>4. Largest(first.entries) \in 0..MaxExact /\ Range(first.entries) \subseteq 1..Largest(first.entries)
  BY <1>3, LargestIs
<1>5. counts'[s] \in Counting /\ counts'[s].next = Largest(first.entries)
  BY <1>1, <1>4 DEF Sound, Flags, Counting, Recorded, OnSessions
<1>6. listens[s] = NoListens /\ backup[s] = NoState /\ stream[s] = NoStream
  BY <1>0, <1>2 DEF Sound, Numbered, Streaming, Cursors, Local, Cursor
<1>7. Cursors(s)'
  BY <1>2, <1>3, <1>6, NothingTyped DEF Cursors, Blank
<1>8. Writes(s)' = Writes(s)
  BY <1>2 DEF Writes
<1>9. Pending(s)' /\ Flags(s)'
  BY <1>2, <1>5, <1>8 DEF Sound, Pending, Flags
<1>10. Numbered(s)'
  BY <1>2, <1>4, <1>5, <1>6, NothingTyped DEF Numbered, Streaming
<1>11. Filled'
  BY <1>1, <1>3 DEF Filled, Copies, Blank
<1> QED
  BY <1>1, <1>2, <1>3, <1>7, <1>9, <1>10, <1>11 DEF Sound

LEMMA PreparedSound ==
  ASSUME IInv, Recorded, NEW s \in Sessions, Sound(s), Begin(s) \/ Format(s)
  PROVE  Sound(s)' /\ UNCHANGED store /\ lease' = lease
<1>0. Shapes
  BY DEF IInv
<1>1. /\ \/ phase[s] = "opening" /\ phase'[s] = "waiting" /\ Selected(snap[s])
         \/ /\ phase[s] = "waiting" /\ phase'[s] = "playing"
            /\ From(snap[s]) <= Length
      /\ stream'[s] \in {stream[s], NoStream}
      /\ UNCHANGED <<store, lease, prior, snap, backup, listens, counts, late, failed,
                     saving, reply, queue, writing>>
  BY <1>0 DEF Begin, Format, Shapes, OnSessions, writer, From
<1>2. stream'[s] = NoStream
  BY <1>1 DEF Sound, Cursors
<1>3. Proper(snap[s]) /\ Selected(snap[s])
  BY <1>1 DEF Sound, Cursors, Loaded
<1>4. phase'[s] = "playing" => Lined(snap[s], NoStream)
  BY <1>1, <1>3, NothingLined
<1>5. Cursors(s)'
  BY <1>1, <1>2, <1>3, <1>4 DEF Sound, Cursors
<1>6. Writes(s)' = Writes(s)
  BY <1>1 DEF Writes
<1>7. Pending(s)' /\ Flags(s)'
  BY <1>1, <1>6 DEF Sound, Pending, Flags
<1>8. Numbered(s)'
  BY <1>1 DEF Sound, Numbered, Streaming
<1> QED
  BY <1>1, <1>5, <1>7, <1>8 DEF Sound

LEMMA AnsweredSound ==
  ASSUME IInv, Recorded, NEW s \in Sessions, Sound(s), ControlSaved(s) \/ Flushed(s) \/ Defer(s)
  PROVE  Sound(s)' /\ UNCHANGED store /\ lease' = lease
<1>0. Shapes
  BY DEF IInv
<1>1. /\ \/ /\ phase[s] = "saving" /\ phase'[s] = "opening"
            /\ UNCHANGED <<listens, counts, failed, saving>> /\ reply'[s] = "none"
         \/ /\ phase[s] = "flushing" /\ phase'[s] = "draining" /\ reply'[s] = "none"
            /\ listens'[s] = NoListens /\ counts'[s] = [next |-> 0, actions |-> 0]
            /\ saving'[s] = {} /\ failed'[s] = (failed[s] \/ reply[s] # "saved")
         \/ /\ phase[s] = "draining" /\ phase'[s] = "deferred" /\ failed'[s] = TRUE
            /\ UNCHANGED <<listens, counts, saving, reply>>
      /\ UNCHANGED <<store, lease, prior, snap, backup, stream, late, queue, writing>>
  <2>1. CASE ControlSaved(s)
    BY <1>0, <2>1 DEF ControlSaved, Shapes, OnSessions, own
  <2>2. CASE Flushed(s)
    BY <1>0, <2>2 DEF Flushed, HandOver, Shapes, OnSessions, Recorded
  <2>3. CASE Defer(s)
    BY <1>0, <2>3 DEF Defer, Shapes, OnSessions, own, writer, Recorded
  <2> QED BY <2>1, <2>2, <2>3
<1>2. Cursors(s)'
  BY <1>1 DEF Sound, Cursors, Loaded
<1>3. saving'[s] \subseteq saving[s] /\ writing'[s] = writing[s] /\ queue'[s] = queue[s]
  BY <1>1
<1>4. Pending(s)'
  <2>1. Writes(s)' \subseteq Writes(s)
    BY <1>3 DEF Writes
  <2> QED BY <1>3, <2>1, PendingLess DEF Sound
<1>5. failed'[s] \in BOOLEAN
  BY <1>1 DEF Sound, Flags
<1>6. Flags(s)'
  BY <1>1, <1>5, NothingTyped DEF Sound, Flags
<1>7. Numbered(s)'
  BY <1>1 DEF Sound, Numbered, Streaming
<1> QED
  BY <1>1, <1>2, <1>4, <1>6, <1>7 DEF Sound

LEMMA WriterSound ==
  ASSUME IInv, Recorded, Filled, NEW s \in Sessions, Sound(s),
         SendSave(s) \/ Take(s) \/ Publish(s) \/ DoNotPublish(s)
  PROVE  Sound(s)' /\ Filled' /\ lease' = lease
<1>0. Shapes /\ Local(s)
  BY DEF IInv
<1>1. UNCHANGED <<lease, phase, prior, snap, backup, stream, listens, counts, late, failed>>
  BY DEF SendSave, Take, Publish, DoNotPublish, own
<1>2. CASE SendSave(s) \/ Take(s)
  <2>1. /\ Writes(s)' \subseteq Writes(s) /\ saving'[s] \subseteq saving[s]
        /\ writing'[s] \subseteq writing[s] \/ \E x : writing'[s] = {x}
        /\ reply' = reply /\ UNCHANGED store
    <3>1. CASE SendSave(s)
      <4>1. PICK item \in saving[s] : queue' = [queue EXCEPT ![s] = <<item>>]
        BY <3>1 DEF SendSave
      <4>2. /\ queue'[s] = <<item>> /\ saving'[s] = {}
            /\ UNCHANGED <<store, reply, writing>>
        BY <1>0, <3>1, <4>1 DEF SendSave, Shapes, OnSessions
      <4> QED BY <4>1, <4>2, ShortQueues DEF Writes
    <3>2. CASE Take(s)
      <4>1. queue[s] # <<>> /\ phase[s] \in Loaded
        BY <3>2, WriterLoaded DEF Take
      <4>2. PICK item : queue[s] = <<item>>
        BY <1>0, <4>1 DEF Local, Chain
      <4>3. /\ queue'[s] = <<>> /\ writing'[s] = {item}
            /\ UNCHANGED <<store, saving, reply>>
        BY <1>0, <3>2, <4>2, ShortQueues DEF Take, Shapes, OnSessions
      <4> QED BY <4>2, <4>3, ShortQueues DEF Writes
    <3> QED BY <1>2, <3>1, <3>2
  <2>2. Pending(s)'
    BY <2>1, PendingLess DEF Sound
  <2>3. Cursors(s)' /\ Flags(s)' /\ Numbered(s)'
    BY <1>1, <2>1 DEF Sound, Cursors, Flags, Numbered, Streaming
  <2>4. Filled'
    BY <2>1 DEF Filled, Copies
  <2> QED BY <1>1, <2>1, <2>2, <2>3, <2>4 DEF Sound
<1>3. CASE Publish(s) \/ DoNotPublish(s)
  <2>1. PICK item \in writing[s], answer \in {"saved", "refused"} :
          /\ reply' = [reply EXCEPT ![s] = IF Awaited(s, item) THEN answer ELSE reply[s]]
          /\ disk' \in {disk, item.state} /\ written' \in {written, item.state}
          /\ archives' = archives
    BY <1>3 DEF Publish, DoNotPublish
  <2>2. writing'[s] = {} /\ UNCHANGED <<saving, queue>>
    BY <1>0, <1>3 DEF Publish, DoNotPublish, Shapes, OnSessions
  <2>3. Writes(s)' \subseteq Writes(s) /\ item \in Writes(s)
    BY <2>1, <2>2 DEF Writes
  <2>4. Pending(s)'
    BY <2>2, <2>3, PendingLess DEF Sound
  <2>5. reply'[s] \in {reply[s], "saved", "refused"}
    BY <1>0, <2>1 DEF Shapes, OnSessions
  <2>6. Cursors(s)' /\ Flags(s)' /\ Numbered(s)'
    BY <1>1, <2>5 DEF Sound, Cursors, Flags, Numbered, Streaming
  <2>7. Filled'
    BY <2>1, <2>3 DEF Sound, Pending, Blank, Filled, Copies
  <2> QED BY <1>1, <2>4, <2>6, <2>7 DEF Sound
<1> QED
  BY <1>2, <1>3
-----------------------------------------------------------------------------
\* The session ends with a proper state of its own entries.
LEMMA FinishSound ==
  ASSUME Shapes, Recorded, NEW s \in Sessions, Sound(s), NEW state, NEW fails \in BOOLEAN,
         Finish(s, state, fails), Proper(state),
         UNCHANGED <<prior, queue, writing>>, reply'[s] \in {"none", "saved", "refused"},
         listens'[s] \in Listening, counts'[s] \in Counting, late'[s] \in BOOLEAN,
         Range(state.entries) \subseteq 1..counts'[s].next,
         DOMAIN listens'[s].visits \subseteq 1..counts'[s].next
  PROVE  Sound(s)'
<1>1. PICK item : item = [state |-> state, expected |-> state.revision, reply |-> "final"]
  OBVIOUS
<1>2. /\ snap'[s] = state /\ backup'[s] = NoState /\ stream'[s] = NoStream
      /\ failed'[s] = fails /\ phase'[s] = "flushing"
  BY DEF Finish, Shapes, OnSessions, Recorded
<1>3. saving'[s] = {item}
  BY <1>1 DEF Finish, Shapes, OnSessions
<1>4. Cursors(s)'
  BY <1>2, NothingTyped DEF Sound, Cursors, Blank
<1>5. item \in Snapshot /\ item.state = state
  BY <1>1 DEF Snapshot, Proper, PlaybackState
<1>6. Writes(s)' \subseteq {item} \cup Writes(s)
  BY <1>3 DEF Writes
<1>7. Pending(s)'
  BY <1>3, <1>5, <1>6 DEF Sound, Pending, Single
<1>8. Flags(s)' /\ Numbered(s)'
  BY <1>2 DEF Flags, Numbered, Streaming
<1> QED
  BY <1>4, <1>7, <1>8 DEF Sound

\* The session goes on with a proper state of its own entries.
LEMMA ContinueSound ==
  ASSUME Shapes, Recorded, NEW s \in Sessions, Sound(s), NEW state, NEW undo,
         Continue(s, state, undo), Proper(state), state.revision < MaxExact,
         undo # NoState => Proper(undo) /\ undo.entries = state.entries,
         UNCHANGED <<prior, late, queue, writing, reply>>,
         listens'[s] \in Listening, counts'[s] \in Counting,
         Range(state.entries) \subseteq 1..counts'[s].next,
         DOMAIN listens'[s].visits \subseteq 1..counts'[s].next
  PROVE  Sound(s)'
<1>0. state \in PlaybackState /\ state.revision \in 0..MaxExact
  BY DEF Proper, PlaybackState
<1>1. PICK revision \in 0..MaxExact : revision = state.revision + 1
  BY <1>0, ConstantsAssumption
<1>2. PICK nothing \in Nat : nothing = 0
  OBVIOUS
<1>3. PICK next : next = [state EXCEPT !.revision = revision, !.at = nothing]
  OBVIOUS
<1>4. Proper(next) /\ next.entries = state.entries /\ next.revision = revision
  <2>1. /\ next \in PlaybackState /\ next.entries = state.entries
        /\ next.current = state.current /\ next.position = state.position
        /\ next.revision = revision
    BY <1>0, <1>3 DEF PlaybackState
  <2> QED BY <2>1 DEF Proper, Selected
<1>5. next = [state EXCEPT !.revision = @ + 1, !.at = 0]
  BY <1>1, <1>2, <1>3
<1>6. PICK undone : undone = [undo EXCEPT !.revision = revision, !.at = nothing]
  OBVIOUS
<1>7. undone = [undo EXCEPT !.revision = next.revision, !.at = 0]
  BY <1>2, <1>4, <1>6
<1>8. ASSUME undo # NoState PROVE Proper(undone) /\ undone.entries = state.entries
  <2>0. undo \in PlaybackState
    BY <1>8 DEF Proper
  <2>1. /\ undone \in PlaybackState /\ undone.entries = undo.entries
        /\ undone.current = undo.current /\ undone.position = undo.position
    BY <1>6, <2>0 DEF PlaybackState
  <2> QED BY <1>8, <2>1 DEF Proper, Selected
<1>9. PICK saved : saved = IF undo = NoState THEN next ELSE undone
  OBVIOUS
<1>10. PICK item : item = [state |-> saved, expected |-> state.revision, reply |-> "control"]
  OBVIOUS
<1>11. /\ snap' = [snap EXCEPT ![s] = next]
       /\ backup' = [backup EXCEPT ![s] = IF undo = NoState THEN NoState ELSE undone]
       /\ stream' = [stream EXCEPT ![s] = NoStream]
       /\ saving' = [saving EXCEPT ![s] = {item}]
       /\ phase' = [phase EXCEPT ![s] = "saving"] /\ failed' = failed
  BY <1>5, <1>7, <1>9, <1>10 DEF Continue
<1>12. /\ snap'[s] = next /\ backup'[s] = (IF undo = NoState THEN NoState ELSE undone)
       /\ stream'[s] = NoStream /\ saving'[s] = {item} /\ phase'[s] = "saving"
  BY <1>11 DEF Shapes, OnSessions
<1>13. Cursors(s)'
  BY <1>4, <1>8, <1>12, NothingTyped DEF Sound, Cursors, Blank
<1>14. Proper(saved)
  BY <1>4, <1>8, <1>9
<1>15. item \in Snapshot /\ item.state = saved
  BY <1>0, <1>10, <1>14 DEF Snapshot, Proper
<1>16. Writes(s)' \subseteq {item} \cup Writes(s)
  BY <1>12 DEF Writes
<1>17. Pending(s)'
  BY <1>12, <1>14, <1>15, <1>16 DEF Sound, Pending, Single
<1>18. Flags(s)'
  BY <1>11 DEF Sound, Flags
<1>19. Numbered(s)'
  BY <1>4, <1>8, <1>12 DEF Numbered, Streaming
<1> QED
  BY <1>13, <1>17, <1>18, <1>19 DEF Sound

LEMMA BrokenOffSound ==
  ASSUME IInv, Recorded, NEW s \in Sessions, Sound(s),
         DoNotBegin(s) \/ NoFormat(s) \/ ControlNotSaved(s)
  PROVE  Sound(s)' /\ UNCHANGED store /\ lease' = lease
<1>0. Shapes /\ phase[s] \in {"opening", "waiting", "saving"}
  BY DEF IInv, DoNotBegin, NoFormat, ControlNotSaved
<1>1. PICK state : state = Confirmed(s)
  OBVIOUS
<1>2. PICK fails \in BOOLEAN : Finish(s, state, fails)
  BY <1>1 DEF DoNotBegin, NoFormat, ControlNotSaved
<1>3. /\ UNCHANGED <<store, lease, prior, listens, counts, queue, writing>>
      /\ late'[s] \in BOOLEAN /\ reply'[s] \in {"none", "saved", "refused"}
  BY <1>0 DEF DoNotBegin, NoFormat, ControlNotSaved, Sound, Flags, Recorded, Shapes, OnSessions
<1>4. Streaming(s) /\ Proper(snap[s])
  BY <1>0 DEF Streaming, Sound, Cursors, Loaded
<1>5. Proper(state) /\ state.entries = snap[s].entries
  BY <1>1, <1>4 DEF Confirmed, Sound, Cursors, Blank, Numbered
<1>6. /\ Range(state.entries) \subseteq 1..counts'[s].next
      /\ DOMAIN listens'[s].visits \subseteq 1..counts'[s].next
      /\ listens'[s] \in Listening /\ counts'[s] \in Counting
  BY <1>3, <1>4, <1>5 DEF Sound, Numbered, Flags
<1>7. Sound(s)'
  BY <1>0, <1>2, <1>3, <1>5, <1>6, FinishSound
<1> QED
  BY <1>3, <1>7

\* What a session that plays knows at an acknowledgement.
LEMMA PlayingIs ==
  ASSUME NEW s \in Sessions, Sound(s), phase[s] = "playing"
  PROVE  /\ Proper(snap[s]) /\ Selected(snap[s]) /\ Lined(snap[s], stream[s])
         /\ stream[s] \in Epoch /\ stream[s].acked \in Nat /\ stream[s].sent \in Nat
         /\ listens[s] \in Listening /\ counts[s] \in Counting /\ Streaming(s)
         /\ Range(snap[s].entries) \subseteq 1..counts[s].next
         /\ DOMAIN listens[s].visits \subseteq 1..counts[s].next
         /\ stream[s].acked..stream[s].sent \subseteq 0..stream[s].sent
         /\ stream[s].acked \in stream[s].acked..stream[s].sent
<1>1. Proper(snap[s]) /\ Selected(snap[s]) /\ Lined(snap[s], stream[s])
  BY DEF Sound, Cursors, Loaded
<1>2. /\ stream[s] \in Epoch /\ stream[s].acked \in Nat /\ stream[s].sent \in Nat
      /\ stream[s].acked <= stream[s].sent
  BY <1>1 DEF Lined, Epoch
<1>3. Streaming(s)
  BY DEF Streaming
<1> QED
  BY <1>1, <1>2, <1>3 DEF Sound, Flags, Numbered

LEMMA VisitsSound ==
  ASSUME NEW s \in Sessions, Sound(s), phase[s] = "playing", NEW acked \in 0..stream[s].sent,
         NEW record, record = [listens[s] EXCEPT !.visits = Visits(s, acked)]
  PROVE  /\ record \in Listening /\ record.visits = Visits(s, acked)
         /\ record.moved = listens[s].moved
         /\ DOMAIN record.visits \subseteq 1..counts[s].next
<1>1. PICK visits : visits = Visits(s, acked)
  OBVIOUS
<1>2. /\ visits \in Visited
      /\ DOMAIN visits \subseteq DOMAIN listens[s].visits \cup Range(snap[s].entries)
  BY <1>1, PlayingIs, VisitsAre
<1>3. listens[s] \in Listening /\ record = [listens[s] EXCEPT !.visits = visits]
  BY <1>1, PlayingIs
<1>4. record \in Listening /\ record.visits = visits /\ record.moved = listens[s].moved
  BY <1>2, <1>3 DEF Listening
<1> QED
  BY <1>1, <1>2, <1>4, PlayingIs

LEMMA CursorSound ==
  ASSUME NEW s \in Sessions, Sound(s), phase[s] = "playing", NEW acked \in 0..stream[s].sent,
         NEW c, c = AtCursor(snap[s], stream[s].line, acked)
  PROVE  /\ Proper(c) /\ c.entries = snap[s].entries /\ c.session = snap[s].session
         /\ c.revision = snap[s].revision /\ c.at = acked
         /\ Reaching(snap[s], stream[s], acked, c)
BY PlayingIs, CursorIs

LEMMA HaltSound ==
  ASSUME Shapes, Recorded, NEW s \in Sessions, Sound(s), phase[s] = "playing",
         NEW acked \in 0..stream[s].sent, NEW state, Proper(state),
         state.entries = snap[s].entries, NEW fails \in BOOLEAN,
         Halt(s, acked, state, fails)
  PROVE  Sound(s)' /\ UNCHANGED store /\ lease' = lease
<1>1. PICK slow \in BOOLEAN :
        /\ listens' = [listens EXCEPT ![s].visits = Visits(s, acked)]
        /\ late' = [late EXCEPT ![s] = slow]
        /\ Finish(s, state, fails \/ slow \/ TooManyVisits(s, acked))
        /\ UNCHANGED <<store, lease, prior, counts, origins, faults, reply, queue, writing>>
  BY DEF Halt
<1>2. PICK flag \in BOOLEAN : flag = (fails \/ slow \/ TooManyVisits(s, acked))
  OBVIOUS
<1>3. PICK record : record = [listens[s] EXCEPT !.visits = Visits(s, acked)]
  OBVIOUS
<1>4. listens'[s] = record /\ late'[s] = slow
  BY <1>1, <1>3 DEF Recorded, OnSessions
<1>5. record \in Listening /\ DOMAIN record.visits \subseteq 1..counts[s].next
  BY <1>3, VisitsSound
<1>6. Finish(s, state, flag)
  BY <1>1, <1>2
<1>7. reply'[s] \in {"none", "saved", "refused"} /\ counts'[s] \in Counting
  BY <1>1 DEF Sound, Flags
<1>8. Range(state.entries) \subseteq 1..counts'[s].next
  BY <1>1, PlayingIs
<1>9. Sound(s)'
  BY <1>1, <1>4, <1>5, <1>6, <1>7, <1>8, FinishSound
<1> QED
  BY <1>1, <1>9

LEMMA EndedSound ==
  ASSUME IInv, Recorded, NEW s \in Sessions, Sound(s), Stop(s) \/ PlayedOut(s) \/ Interrupted(s)
  PROVE  Sound(s)' /\ UNCHANGED store /\ lease' = lease
<1>0. Shapes /\ phase[s] = "playing"
  BY DEF IInv, Stop, PlayedOut, Interrupted
<1>1. CASE Stop(s) \/ Interrupted(s)
  <2>1. PICK acked \in stream[s].acked..stream[s].sent, fails \in BOOLEAN :
          Halt(s, acked, AtCursor(snap[s], stream[s].line, acked), fails)
    BY <1>0, <1>1, PlayingIs DEF Stop, Interrupted
  <2>2. PICK c : c = AtCursor(snap[s], stream[s].line, acked)
    OBVIOUS
  <2>3. acked \in 0..stream[s].sent
    BY <1>0, PlayingIs
  <2>4. Proper(c) /\ c.entries = snap[s].entries
    BY <1>0, <2>2, <2>3, CursorSound
  <2> QED BY <1>0, <2>1, <2>2, <2>3, <2>4, HaltSound
<1>2. CASE PlayedOut(s)
  <2>1. PICK acked \in 0..stream[s].sent : acked = stream[s].acked
    BY <1>0, PlayingIs
  <2>2. PICK c : c = AtCursor(snap[s], stream[s].line, acked)
    OBVIOUS
  <2>3. Proper(c) /\ c.entries = snap[s].entries
    BY <1>0, <2>2, CursorSound
  <2>4. PICK nothing : nothing = 0
    OBVIOUS
  <2>5. PICK state : state = [c EXCEPT !.current = nothing, !.position = nothing]
    OBVIOUS
  <2>6. /\ state \in PlaybackState /\ state.current = 0 /\ state.position = 0
        /\ state.entries = c.entries
    <3>1. nothing \in 0..MaxExact /\ nothing \in Nat
      BY <2>4, ConstantsAssumption
    <3>2. c \in PlaybackState
      BY <2>3 DEF Proper
    <3> QED BY <2>4, <2>5, <3>1, <3>2 DEF PlaybackState
  <2>7. Proper(state)
    BY <2>3, <2>6 DEF Proper
  <2>8. Halt(s, acked, state, FALSE)
    BY <1>2, <2>1, <2>2, <2>4, <2>5 DEF PlayedOut
  <2> QED BY <1>0, <2>3, <2>6, <2>7, <2>8, HaltSound
<1> QED
  BY <1>1, <1>2

LEMMA ControlSound ==
  ASSUME IInv, Recorded, NEW s \in Sessions, Sound(s), Seek(s) \/ Edit(s)
  PROVE  Sound(s)' /\ UNCHANGED store /\ lease' = lease
<1>0. Shapes /\ phase[s] = "playing" /\ counts[s].actions < MaxActions
  BY DEF IInv, Seek, Edit
<1>1. UNCHANGED <<store, lease, prior, late, queue, writing, reply>>
  BY DEF Seek, Edit
<1>2. counts[s] \in Counting /\ counts[s].actions + 1 \in 0..MaxActions
  <2>1. counts[s] \in Counting
    BY <1>0, PlayingIs
  <2> QED BY <1>0, <2>1, ConstantsAssumption DEF Counting
<1>3. reply'[s] \in {"none", "saved", "refused"} /\ late'[s] \in BOOLEAN
  BY <1>1 DEF Sound, Flags
<1>4. CASE Seek(s)
  <2>1. PICK acked \in stream[s].acked..stream[s].sent, target \in Targets :
          LET reached == AtCursor(snap[s], stream[s].line, acked)
              visits == Visits(s, acked)
              o == reached.current
          IN /\ o # 0
             /\ listens' = [listens EXCEPT ![s] =
                   [visits |-> [v \in DOMAIN visits |->
                       IF v = o THEN [visits[v] EXCEPT !.completed = FALSE, !.moved = TRUE]
                       ELSE visits[v]],
                    moved |-> @.moved \cup {o}]]
             /\ IF reached.revision < MaxExact
                THEN Continue(s, [reached EXCEPT !.position = target], reached)
                ELSE Finish(s, reached, TRUE)
    BY <1>4 DEF Seek
  <2>2. acked \in 0..stream[s].sent
    BY <1>0, PlayingIs
  <2>3. PICK reached : reached = AtCursor(snap[s], stream[s].line, acked)
    OBVIOUS
  <2>4. Proper(reached) /\ reached.entries = snap[s].entries
    BY <1>0, <2>2, <2>3, CursorSound
  <2>5. PICK visits : visits = Visits(s, acked)
    OBVIOUS
  <2>6. /\ visits \in Visited
        /\ DOMAIN visits \subseteq 1..counts[s].next
    <3>1. PICK record : record = [listens[s] EXCEPT !.visits = Visits(s, acked)]
      OBVIOUS
    <3> QED BY <1>0, <2>2, <2>5, <3>1, VisitsSound DEF Listening
  <2>7. PICK o : o = reached.current
    OBVIOUS
  <2>8. PICK moved : moved = [v \in DOMAIN visits |->
                       IF v = o THEN [visits[v] EXCEPT !.completed = FALSE, !.moved = TRUE]
                       ELSE visits[v]]
    OBVIOUS
  <2>9. moved \in Visited /\ DOMAIN moved = DOMAIN visits
    <3>1. DOMAIN visits \subseteq Occurrences /\ visits \in [DOMAIN visits -> Visit]
      BY <2>6, VisitedIs
    <3>2. \A v \in DOMAIN visits : [visits[v] EXCEPT !.completed = FALSE, !.moved = TRUE] \in Visit
      BY <3>1 DEF Visit
    <3>3. moved \in [DOMAIN visits -> Visit]
      BY <2>8, <3>1, <3>2
    <3> QED BY <3>1, <3>3, VisitedIs
  <2>10. PICK record : record = [visits |-> moved, moved |-> listens[s].moved \cup {o}]
    OBVIOUS
  <2>11. record \in Listening /\ record.visits = moved
    <3>1. o \in Occurrences
      <4>1. reached.current \in 0..MaxExact /\ reached.current # 0
        BY <2>1, <2>3, <2>4 DEF Proper, PlaybackState
      <4> QED BY <2>7, <4>1, ConstantsAssumption DEF Occurrences
    <3>2. listens[s].moved \subseteq Occurrences
      BY <1>0, PlayingIs DEF Listening
    <3> QED BY <2>9, <2>10, <3>1, <3>2 DEF Listening
  <2>12. listens' = [listens EXCEPT ![s] = record]
    BY <2>1, <2>3, <2>5, <2>7, <2>8, <2>10
  <2>13. listens'[s] = record
    BY <2>12 DEF Recorded, OnSessions
  <2>14. counts'[s] \in Counting /\ counts'[s].next = counts[s].next
    <3>1. counts' = [counts EXCEPT ![s].actions = counts[s].actions + 1]
      BY <1>4 DEF Seek
    <3>2. counts'[s] = [counts[s] EXCEPT !.actions = counts[s].actions + 1]
      BY <3>1 DEF Recorded, OnSessions
    <3> QED BY <1>2, <3>2 DEF Counting
  <2>15. /\ Range(reached.entries) \subseteq 1..counts'[s].next
         /\ DOMAIN listens'[s].visits \subseteq 1..counts'[s].next
         /\ listens'[s] \in Listening
    BY <1>0, <2>4, <2>6, <2>9, <2>11, <2>13, <2>14, PlayingIs
  <2>16. PICK state : state = [reached EXCEPT !.position = target]
    OBVIOUS
  <2>17. /\ Proper(state) /\ state.entries = reached.entries
         /\ state.revision = reached.revision
    <3>1. target \in Nat /\ reached \in PlaybackState
      BY <2>4, ConstantsAssumption DEF Proper
    <3>2. /\ state \in PlaybackState /\ state.entries = reached.entries
          /\ state.revision = reached.revision /\ state.current = reached.current
      BY <2>16, <3>1 DEF PlaybackState
    <3> QED BY <2>1, <2>3, <2>4, <3>2 DEF Proper, Selected
  <2>18. \/ Continue(s, state, reached) /\ state.revision < MaxExact
         \/ Finish(s, reached, TRUE)
    BY <2>1, <2>3, <2>16, <2>17
  <2>19. CASE Continue(s, state, reached) /\ state.revision < MaxExact
    BY <1>0, <1>1, <2>4, <2>14, <2>15, <2>17, <2>19, ContinueSound
  <2>20. CASE Finish(s, reached, TRUE)
    <3>1. PICK fails \in BOOLEAN : Finish(s, reached, fails)
      BY <2>20
    <3> QED BY <1>0, <1>1, <1>3, <2>4, <2>14, <2>15, <3>1, FinishSound
  <2> QED BY <1>1, <2>18, <2>19, <2>20
<1>5. CASE Edit(s)
  <2>1. PICK acked \in stream[s].acked..stream[s].sent :
          LET reached == AtCursor(snap[s], stream[s].line, acked)
          IN /\ listens' = [listens EXCEPT ![s].visits = Visits(s, acked)]
             /\ \E items \in Edits(reached, counts[s].next) :
                   LET edited == Edited(reached, items, counts[s].next)
                   IN /\ counts' = [counts EXCEPT
                            ![s] = [next |-> @.next + Fresh(items, Len(items)),
                                    actions |-> @.actions + 1]]
                      /\ IF edited.revision < MaxExact
                         THEN Continue(s, edited, NoState)
                         ELSE Finish(s, edited, TRUE)
    BY <1>5 DEF Edit
  <2>2. acked \in 0..stream[s].sent
    BY <1>0, PlayingIs
  <2>3. PICK reached : reached = AtCursor(snap[s], stream[s].line, acked)
    OBVIOUS
  <2>4. Proper(reached) /\ reached.entries = snap[s].entries
    BY <1>0, <2>2, <2>3, CursorSound
  <2>5. PICK items, edited, fresh, counted :
          /\ items \in Edits(reached, counts[s].next)
          /\ edited = Edited(reached, items, counts[s].next)
          /\ fresh = Fresh(items, Len(items))
          /\ counted = [next |-> counts[s].next + fresh, actions |-> counts[s].actions + 1]
          /\ counts' = [counts EXCEPT ![s] = counted]
          /\ \/ Continue(s, edited, NoState) /\ edited.revision < MaxExact
             \/ Finish(s, edited, TRUE)
    BY <2>1, <2>3
  <2>6. counts[s].next \in 0..MaxExact /\ Range(reached.entries) \subseteq 1..counts[s].next
    BY <1>0, <1>2, <2>4, PlayingIs DEF Counting
  <2>7. /\ fresh \in Nat /\ counts[s].next + fresh <= MaxExact /\ Proper(edited)
        /\ Range(edited.entries) \subseteq 1..(counts[s].next + fresh)
    BY <2>4, <2>5, <2>6, EditedIs
  <2>8. PICK record : record = [listens[s] EXCEPT !.visits = Visits(s, acked)]
    OBVIOUS
  <2>9. listens'[s] = record
    BY <2>1, <2>8 DEF Recorded, OnSessions
  <2>10. record \in Listening /\ DOMAIN record.visits \subseteq 1..counts[s].next
    BY <1>0, <2>2, <2>8, VisitsSound
  <2>11. counts'[s] = counted
    BY <2>5 DEF Recorded, OnSessions
  <2>12. counted \in Counting /\ counted.next = counts[s].next + fresh
    BY <1>2, <2>5, <2>6, <2>7 DEF Counting
  <2>13. 1..counts[s].next \subseteq 1..counted.next
    BY <2>6, <2>7, <2>12
  <2>14. /\ Range(edited.entries) \subseteq 1..counts'[s].next
         /\ DOMAIN listens'[s].visits \subseteq 1..counts'[s].next
         /\ listens'[s] \in Listening /\ counts'[s] \in Counting
    BY <2>7, <2>9, <2>10, <2>11, <2>12, <2>13
  <2>15. CASE Continue(s, edited, NoState) /\ edited.revision < MaxExact
    <3>1. PICK undo : undo = NoState
      OBVIOUS
    <3>2. Continue(s, edited, undo)
      BY <2>15, <3>1
    <3> QED BY <1>0, <1>1, <2>7, <2>14, <2>15, <3>1, <3>2, ContinueSound
  <2>16. CASE Finish(s, edited, TRUE)
    <3>1. PICK fails \in BOOLEAN : Finish(s, edited, fails)
      BY <2>16
    <3> QED BY <1>0, <1>1, <1>3, <2>7, <2>14, <3>1, FinishSound
  <2> QED BY <1>1, <2>5, <2>15, <2>16
<1> QED
  BY <1>4, <1>5

(***************************************************************************)
(* What the decoder produces keeps an epoch in line with its state.        *)
(***************************************************************************)
LEMMA OneMore ==
  ASSUME NEW sent \in Nat, NEW start \in Nat, start <= sent, NEW frames \in Nat,
         sent - start < frames
  PROVE  /\ sent + 1 - start = sent - start + 1 /\ sent + 1 - start <= frames
         /\ start <= sent + 1 /\ sent - start \in Nat
OBVIOUS

LEMMA WithinSent ==
  ASSUME NEW start \in Nat, NEW stop \in Nat, NEW sent \in Nat, stop <= sent,
         NEW k \in (start + 1)..stop
  PROVE  k \in 1..sent /\ k \in Nat /\ start < k /\ k <= stop
OBVIOUS

LEMMA LineIs ==
  ASSUME NEW state, NEW run, Lined(state, run)
  PROVE  /\ run.line \in Seq(Span) /\ Len(run.line) \in Nat /\ DOMAIN run.line = 1..Len(run.line)
         /\ run.sent \in Nat /\ run.acked \in Nat /\ run.acked <= run.sent
         /\ run.tape \in Seq(Occurrences \X (1..Length)) /\ Len(run.tape) = run.sent
         /\ DOMAIN run.tape = 1..run.sent
         /\ run = [line |-> run.line, sent |-> run.sent, acked |-> run.acked,
                   eof |-> run.eof, tape |-> run.tape]
         /\ \A i \in 1..Len(run.line) :
              /\ run.line[i] \in Span /\ Spanned(state, run, i) /\ run.line[i].start \in Nat
              /\ EndOf(run, i) \in Nat
<1>1. /\ run \in Epoch /\ run.acked <= run.sent /\ Len(run.tape) = run.sent
  BY DEF Lined
<1>2. /\ run.line \in Seq(Span) /\ run.sent \in Nat /\ run.acked \in Nat
      /\ run.tape \in Seq(Occurrences \X (1..Length))
      /\ run = [line |-> run.line, sent |-> run.sent, acked |-> run.acked,
                eof |-> run.eof, tape |-> run.tape]
  BY <1>1 DEF Epoch
<1>3. /\ Len(run.line) \in Nat /\ DOMAIN run.line = 1..Len(run.line)
      /\ DOMAIN run.tape = 1..Len(run.tape)
  BY <1>2
<1>4. \A i \in 1..Len(run.line) :
              /\ run.line[i] \in Span /\ Spanned(state, run, i) /\ run.line[i].start \in Nat
              /\ EndOf(run, i) \in Nat
  BY <1>3, SpansAre
<1> QED
  BY <1>1, <1>2, <1>3, <1>4

LEMMA TrackLined ==
  ASSUME NEW state, Proper(state), NEW run, Lined(state, run), ~run.eof,
         NEW last, last = Len(run.line), last > 0 => run.line[last].end # Open,
         last < Len(Programme(state)),
         NEW span, span = [start |-> run.sent, end |-> Open,
                           position |-> IF last = 0 THEN state.position ELSE 0],
         NEW new, new = [run EXCEPT !.line = Append(run.line, span)]
  PROVE  Lined(state, new)
<1>1. /\ run.line \in Seq(Span) /\ last \in Nat /\ DOMAIN run.line = 1..last
      /\ run.sent \in Nat /\ run \in Epoch
  BY LineIs DEF Lined
<1>2. state.position \in Nat
  BY DEF Proper, PlaybackState
<1>3. span \in Span /\ span.start = run.sent /\ span.end = Open
      /\ span.position = IF last = 0 THEN state.position ELSE 0
  BY <1>1, <1>2 DEF Span
<1>4. PICK line : line = Append(run.line, span)
  OBVIOUS
<1>5. /\ line \in Seq(Span) /\ Len(line) = last + 1 /\ DOMAIN line = 1..(last + 1)
      /\ \A i \in 1..last : line[i] = run.line[i]
      /\ line[last + 1] = span
  BY <1>1, <1>3, <1>4
<1>6. /\ new \in Epoch /\ new.line = line /\ new.sent = run.sent /\ new.acked = run.acked
      /\ new.eof = run.eof /\ new.tape = run.tape
  BY <1>1, <1>4, <1>5 DEF Epoch
<1>7. ASSUME NEW i \in 1..last
      PROVE  EndOf(new, i) = EndOf(run, i) /\ new.line[i] = run.line[i]
             /\ run.line[i].end # Open /\ Spanned(state, run, i)
  <2>1. Spanned(state, run, i) /\ new.line[i] = run.line[i]
    BY <1>1, <1>5, <1>6 DEF Lined
  <2>2. run.line[i].end # Open
    BY <1>1, <2>1 DEF Spanned
  <2> QED BY <2>1, <2>2 DEF EndOf
<1>8. ASSUME NEW i \in 1..last PROVE Spanned(state, new, i)
  <2>1. i = 1 \/ i - 1 \in 1..last
    BY <1>1
  <2>2. i # 1 => new.line[i - 1] = run.line[i - 1]
    BY <1>7, <2>1
  <2>3. i # Len(new.line)
    BY <1>1, <1>5, <1>6
  <2>4. /\ Spanned(state, run, i) /\ new.line[i] = run.line[i] /\ EndOf(new, i) = EndOf(run, i)
        /\ run.line[i].end # Open
    BY <1>7
  <2>5. new.line[i].start = IF i = 1 THEN 0 ELSE new.line[i - 1].end
    BY <2>2, <2>4 DEF Spanned
  <2> QED BY <1>6, <2>3, <2>4, <2>5 DEF Spanned
<1>9. Spanned(state, new, last + 1)
  <2>1. EndOf(new, last + 1) = run.sent
    BY <1>3, <1>5, <1>6 DEF EndOf
  <2>2. FramesOf(state, last + 1) \in Nat
    <3>1. last + 1 \in Nat /\ From(state) <= Length
      BY <1>1 DEF Lined
    <3> QED BY <3>1, FramesAre
  <2>3. run.sent = IF last + 1 = 1 THEN 0 ELSE new.line[last].end
    <3>1. CASE last = 0
      <4>1. run.line = <<>>
        BY <1>1, <3>1, EmptySeq
      <4> QED BY <3>1, <4>1 DEF Lined
    <3>2. CASE last # 0
      <4>1. last \in 1..last
        BY <1>1, <3>2
      <4>2. EndOf(run, last) = run.sent
        BY <1>7, <4>1 DEF Spanned
      <4>3. EndOf(run, last) = new.line[last].end
        BY <1>7, <4>1 DEF EndOf
      <4> QED BY <1>1, <3>2, <4>2, <4>3
    <3> QED BY <3>1, <3>2
  <2>4. new.line[last + 1] = span /\ Len(new.line) = last + 1 /\ last + 1 - 1 = last
        /\ (last + 1 = 1 <=> last = 0)
    BY <1>1, <1>5, <1>6
  <2>5. \A k \in (run.sent + 1)..run.sent : FALSE
    BY <1>1
  <2>6. run.sent <= run.sent /\ run.sent - run.sent = 0
    BY <1>1
  <2>7. PICK i \in Nat : i = last + 1
    BY <1>1
  <2>8. (i - 1 = last) /\ (i = 1 <=> last = 0) /\ new.line[i] = span /\ i = Len(new.line)
    BY <2>4, <2>7
  <2>9. new.line[i].start = IF i = 1 THEN 0 ELSE new.line[i - 1].end
    BY <1>3, <2>3, <2>7, <2>8
  <2>10. \A k \in (new.line[i].start + 1)..EndOf(new, i) : FALSE
    BY <1>3, <2>1, <2>5, <2>7, <2>8
  <2>11. new.line[i].start <= EndOf(new, i) /\ EndOf(new, i) <= new.sent
         /\ EndOf(new, i) - new.line[i].start <= FramesOf(state, i)
    BY <1>1, <1>3, <1>6, <2>1, <2>2, <2>7, <2>8
  <2>12. Spanned(state, new, i)
    BY <1>3, <1>6, <2>1, <2>7, <2>8, <2>9, <2>10, <2>11 DEF Spanned
  <2> QED BY <2>7, <2>12
<1>10. ASSUME NEW i \in DOMAIN new.line PROVE Spanned(state, new, i)
  <2>1. i \in 1..(last + 1)
    BY <1>5, <1>6
  <2>2. i \in 1..last \/ i = last + 1
    BY <1>1, <2>1
  <2> QED BY <1>8, <1>9, <2>2
<1>11. ASSUME NEW k \in 1..new.sent
       PROVE  \E i \in DOMAIN new.line : new.line[i].start < k /\ k <= EndOf(new, i)
  <2>1. PICK i \in DOMAIN run.line : run.line[i].start < k /\ k <= EndOf(run, i)
    BY <1>6 DEF Lined
  <2>2. i \in 1..last /\ i \in DOMAIN new.line
    BY <1>1, <1>5, <1>6
  <2> QED BY <1>7, <2>1, <2>2
<1>12. new.line # <<>> /\ Len(new.line) <= Len(Programme(state))
  <2>1. Len(Programme(state)) \in Nat
    BY ProgrammeIs, LenProperties DEF Lined
  <2> QED BY <1>1, <1>5, <1>6, <2>1, EmptySeq
<1> QED
  BY <1>6, <1>10, <1>11, <1>12 DEF Lined

LEMMA AudioLined ==
  ASSUME NEW state, Proper(state), NEW run, Lined(state, run),
         NEW last, last = Len(run.line), last > 0, run.line[last].end = Open,
         NEW done, done = run.sent - run.line[last].start, done < FramesOf(state, last),
         NEW frame,
         frame = <<Programme(state)[last], Length - FramesOf(state, last) + done + 1>>,
         NEW new, new = [run EXCEPT !.sent = run.sent + 1, !.tape = Append(run.tape, frame)]
  PROVE  Lined(state, new)
<1>1. /\ run.line \in Seq(Span) /\ last \in Nat /\ DOMAIN run.line = 1..last
      /\ run.sent \in Nat /\ run.acked \in Nat /\ run \in Epoch /\ last \in 1..last
      /\ run.tape \in Seq(Occurrences \X (1..Length)) /\ Len(run.tape) = run.sent
      /\ run.line[last].start \in Nat /\ Spanned(state, run, last) /\ run.acked <= run.sent
  BY LineIs DEF Lined
<1>2. EndOf(run, last) = run.sent /\ run.line[last].start <= run.sent
  BY <1>1 DEF Spanned
<1>3. FramesOf(state, last) \in 0..Length /\ done \in Nat
  <2>1. From(state) <= Length
    BY DEF Lined
  <2> QED BY <1>1, <1>2, <2>1, FramesAre
<1>4. frame \in Occurrences \X (1..Length)
  <2>1. last \in 1..Len(Programme(state)) /\ Selected(state)
    BY <1>1, SpansAre DEF Lined
  <2>2. Programme(state)[last] \in Occurrences
    BY <2>1, ProgrammeIs
  <2>3. Length - FramesOf(state, last) + done + 1 \in 1..Length
    <3>1. PICK frames, length : frames = FramesOf(state, last) /\ length = Length
      OBVIOUS
    <3>2. /\ frames \in Nat /\ length \in Nat /\ done \in Nat
          /\ frames <= length /\ done < frames
      BY <1>3, <3>1, ConstantsAssumption
    <3>3. length - frames + done + 1 \in 1..length
      BY <3>2
    <3> QED BY <3>1, <3>3
  <2> QED BY <2>2, <2>3
<1>5. PICK tape : tape = Append(run.tape, frame)
  OBVIOUS
<1>6. /\ tape \in Seq(Occurrences \X (1..Length)) /\ Len(tape) = run.sent + 1
      /\ \A k \in 1..run.sent : tape[k] = run.tape[k]
      /\ tape[run.sent + 1] = frame
  BY <1>1, <1>4, <1>5
<1>7. PICK sent \in Nat : sent = run.sent + 1
  BY <1>1
<1>8. /\ new \in Epoch /\ new.line = run.line /\ new.sent = sent /\ new.acked = run.acked
      /\ new.eof = run.eof /\ new.tape = tape
  BY <1>1, <1>5, <1>6, <1>7 DEF Epoch
<1>9. EndOf(new, last) = sent
  BY <1>8 DEF EndOf
<1>10. ASSUME NEW i \in 1..last, i # last PROVE Spanned(state, new, i) /\ EndOf(new, i) = EndOf(run, i)
  <2>1. Spanned(state, run, i) /\ run.line[i].start \in Nat /\ EndOf(run, i) \in Nat
    BY <1>1, LineIs
  <2>2. run.line[i].end # Open
    BY <1>10, <2>1 DEF Spanned
  <2>3. EndOf(new, i) = EndOf(run, i)
    BY <1>8, <2>2 DEF EndOf
  <2>4. EndOf(run, i) <= run.sent /\ EndOf(run, i) <= sent
    BY <1>1, <1>7, <2>1 DEF Spanned
  <2>5. \A k \in (run.line[i].start + 1)..EndOf(run, i) : tape[k] = run.tape[k]
    <3> SUFFICES ASSUME NEW k \in (run.line[i].start + 1)..EndOf(run, i)
                 PROVE  tape[k] = run.tape[k]
      OBVIOUS
    <3>1. k \in 1..run.sent
      BY <1>1, <2>1, <2>4, WithinSent
    <3> QED BY <1>6, <3>1
  <2> QED BY <1>8, <1>10, <2>1, <2>3, <2>4, <2>5 DEF Spanned
<1>11. Spanned(state, new, last)
  <2>1. sent - run.line[last].start = done + 1 /\ done + 1 <= FramesOf(state, last)
        /\ run.line[last].start <= sent
    <3>1. PICK frames \in Nat : frames = FramesOf(state, last)
      BY <1>3
    <3>2. PICK start \in Nat : start = run.line[last].start
      BY <1>1
    <3>3. PICK before \in Nat : before = run.sent
      BY <1>1
    <3>4. before - start < frames /\ start <= before /\ done = before - start
      BY <1>1, <1>2, <3>1, <3>2, <3>3
    <3>5. before + 1 - start = before - start + 1 /\ before + 1 - start <= frames
          /\ start <= before + 1
      BY <3>4, OneMore
    <3>6. sent = before + 1
      BY <1>7, <3>3
    <3>7. sent - start = done + 1 /\ done + 1 <= frames /\ start <= sent
      BY <3>4, <3>5, <3>6
    <3> QED BY <3>1, <3>2, <3>7
  <2>2. ASSUME NEW k \in (run.line[last].start + 1)..sent
        PROVE  tape[k] = <<Programme(state)[last],
                           Length - FramesOf(state, last) + (k - run.line[last].start)>>
    <3>1. CASE k = sent
      <4>1. k - run.line[last].start = done + 1
        BY <2>1, <3>1
      <4>2. Length - FramesOf(state, last) + done + 1
              = Length - FramesOf(state, last) + (k - run.line[last].start)
        BY <1>3, <4>1, ConstantsAssumption
      <4> QED BY <1>6, <1>7, <3>1, <4>2
    <3>2. CASE k # sent
      <4>1. k \in (run.line[last].start + 1)..run.sent /\ k \in 1..run.sent
        BY <1>1, <1>7, <3>2
      <4> QED BY <1>1, <1>2, <1>6, <4>1 DEF Spanned
    <3> QED BY <3>1, <3>2
  <2>3. sent <= sent
    BY <1>7
  <2> QED BY <1>1, <1>8, <1>9, <2>1, <2>2, <2>3 DEF Spanned
<1>12. \A i \in DOMAIN new.line : Spanned(state, new, i)
  BY <1>1, <1>8, <1>10, <1>11
<1>13. ASSUME NEW k \in 1..new.sent
       PROVE  \E i \in DOMAIN new.line : new.line[i].start < k /\ k <= EndOf(new, i)
  <2>1. CASE k = sent
    <3>1. run.line[last].start < k
      BY <1>1, <1>2, <1>7, <2>1
    <3>2. k <= EndOf(new, last)
      BY <1>7, <1>9, <2>1
    <3> QED BY <1>1, <1>8, <3>1, <3>2
  <2>2. CASE k # sent
    <3>1. k \in 1..run.sent
      BY <1>1, <1>7, <1>8, <2>2
    <3>2. PICK i \in DOMAIN run.line : run.line[i].start < k /\ k <= EndOf(run, i)
      BY <3>1 DEF Lined
    <3>3. CASE i = last
      <4>1. k <= sent
        BY <1>7, <1>8
      <4> QED BY <1>1, <1>8, <1>9, <3>2, <3>3, <4>1
    <3>4. CASE i # last
      BY <1>1, <1>8, <1>10, <3>2, <3>4
    <3> QED BY <3>3, <3>4
  <2> QED BY <2>1, <2>2
<1>14. run.line # <<>> /\ run.acked <= sent
  BY <1>1, <1>7, EmptySeq
<1> QED
  BY <1>6, <1>7, <1>8, <1>12, <1>13, <1>14 DEF Lined

LEMMA EndLined ==
  ASSUME NEW state, Proper(state), NEW run, Lined(state, run),
         NEW last, last = Len(run.line), last > 0, run.line[last].end = Open,
         run.sent - run.line[last].start = FramesOf(state, last),
         NEW span, span = [run.line[last] EXCEPT !.end = run.sent],
         NEW new, new = [run EXCEPT !.line = [run.line EXCEPT ![last] = span]]
  PROVE  Lined(state, new)
<1>1. /\ run.line \in Seq(Span) /\ last \in Nat /\ DOMAIN run.line = 1..last
      /\ run.sent \in Nat /\ run \in Epoch /\ last \in 1..last
      /\ run.line[last] \in Span /\ run.line[last].start \in Nat /\ Spanned(state, run, last)
  BY LineIs DEF Lined
<1>2. span \in Span /\ span.start = run.line[last].start /\ span.end = run.sent
      /\ span.position = run.line[last].position
  BY <1>1 DEF Span
<1>3. PICK line : line = [run.line EXCEPT ![last] = span]
  OBVIOUS
<1>4. /\ line \in Seq(Span) /\ Len(line) = last /\ DOMAIN line = 1..last
      /\ \A i \in 1..last : line[i] = IF i = last THEN span ELSE run.line[i]
  BY <1>1, <1>2, <1>3
<1>5. /\ new \in Epoch /\ new.line = line /\ new.sent = run.sent /\ new.acked = run.acked
      /\ new.eof = run.eof /\ new.tape = run.tape
  BY <1>1, <1>3, <1>4 DEF Epoch
<1>6. run.sent # Open
  BY <1>1 DEF Open
<1>7. ASSUME NEW i \in 1..last
      PROVE  EndOf(new, i) = EndOf(run, i) /\ new.line[i].start = run.line[i].start
             /\ new.line[i].position = run.line[i].position
             /\ (i # last => new.line[i] = run.line[i])
             /\ Spanned(state, run, i)
  <2>1. Spanned(state, run, i)
    BY <1>1 DEF Lined
  <2>2. CASE i = last
    BY <1>2, <1>4, <1>5, <1>6, <2>1, <2>2 DEF EndOf
  <2>3. CASE i # last
    BY <1>4, <1>5, <2>1, <2>3 DEF EndOf
  <2> QED BY <2>2, <2>3
<1>8. ASSUME NEW i \in 1..last PROVE Spanned(state, new, i)
  <2>1. new.line[i].start = IF i = 1 THEN 0 ELSE new.line[i - 1].end
    <3>1. i = 1 \/ (i - 1 \in 1..last /\ i - 1 # last)
      BY <1>1
    <3> QED BY <1>7, <3>1 DEF Spanned
  <2>2. /\ new.line[i].end = Open => i = Len(new.line)
        /\ new.line[i].end # Open => new.line[i].end = new.line[i].start + FramesOf(state, i)
    <3>1. CASE i = last
      <4>1. FramesOf(state, last) \in Nat
        BY <1>1, FramesAre DEF Lined
      <4>2. run.sent = run.line[last].start + FramesOf(state, last)
        BY <1>1, <4>1
      <4> QED BY <1>2, <1>4, <1>5, <3>1, <4>2
    <3>2. CASE i # last
      BY <1>4, <1>5, <1>7, <3>2 DEF Spanned
    <3> QED BY <3>1, <3>2
  <2>3. Len(new.line) = last /\ Len(run.line) = last /\ Spanned(state, run, i)
        /\ EndOf(new, i) = EndOf(run, i) /\ new.line[i].start = run.line[i].start
        /\ new.line[i].position = run.line[i].position
    BY <1>4, <1>5, <1>7
  <2>4. i = Len(new.line) => EndOf(new, i) = new.sent
    BY <1>5, <2>3 DEF Spanned
  <2> QED BY <1>5, <2>1, <2>2, <2>3, <2>4 DEF Spanned
<1>9. \A i \in DOMAIN new.line : Spanned(state, new, i)
  BY <1>4, <1>5, <1>8
<1>10. ASSUME NEW k \in 1..new.sent
       PROVE  \E i \in DOMAIN new.line : new.line[i].start < k /\ k <= EndOf(new, i)
  <2>1. PICK i \in DOMAIN run.line : run.line[i].start < k /\ k <= EndOf(run, i)
    BY <1>5 DEF Lined
  <2> QED BY <1>1, <1>4, <1>5, <1>7, <2>1
<1>11. new.line # <<>>
  BY <1>1, <1>4, <1>5, EmptySeq
<1>12. new.line[Len(new.line)].end # Open
  BY <1>1, <1>2, <1>4, <1>5, <1>6
<1> QED
  BY <1>4, <1>5, <1>9, <1>10, <1>11, <1>12 DEF Lined

LEMMA StreamStep ==
  ASSUME IInv, NEW s \in Sessions, Sound(s),
         SendTrack(s) \/ SendAudio(s) \/ SendTrackEnd(s) \/ SendEof(s)
  PROVE  /\ phase[s] = "playing" /\ Lined(snap[s], stream'[s])
         /\ stream'[s].acked = stream[s].acked
         /\ \A k \in 1..stream[s].acked : stream'[s].tape[k] = stream[s].tape[k]
         /\ UNCHANGED <<store, lease, phase, prior, snap, backup, listens, counts, failed,
                        late, heard, origins, saving, reply, queue, writing>>
<1>0. phase[s] = "playing" /\ stream = [t \in Sessions |-> stream[t]]
  BY DEF IInv, Shapes, OnSessions, SendTrack, SendAudio, SendTrackEnd, SendEof
<1>1. UNCHANGED <<store, lease, phase, prior, snap, backup, listens, counts, failed,
                  late, heard, origins, saving, reply, queue, writing>>
  BY DEF SendTrack, SendAudio, SendTrackEnd, SendEof, writer
<1>2. PICK run : run = stream[s]
  OBVIOUS
<1>3. PICK state : state = snap[s]
  OBVIOUS
<1>4. Lined(state, run) /\ Proper(state) /\ run \in Epoch
  BY <1>0, <1>2, <1>3, PlayingIs
<1>5. /\ run.sent \in Nat /\ run.acked \in Nat /\ run.acked <= run.sent
      /\ run.tape \in Seq(Occurrences \X (1..Length)) /\ Len(run.tape) = run.sent
      /\ Len(run.line) \in Nat
  BY <1>4, LineIs
<1>6. PICK last \in Nat : last = Len(run.line)
  BY <1>5
<1>7. CASE SendTrack(s)
  <2>1. PICK span : span = [start |-> run.sent, end |-> Open,
                           position |-> IF last = 0 THEN state.position ELSE 0]
    OBVIOUS
  <2>2. PICK line : line = Append(run.line, span)
    OBVIOUS
  <2>3. PICK new : new = [run EXCEPT !.line = line]
    OBVIOUS
  <2>4. stream' = [stream EXCEPT ![s].line = line]
    BY <1>2, <1>3, <1>6, <1>7, <2>1, <2>2 DEF SendTrack, Tracks
  <2>5. stream'[s] = new
    BY <1>0, <1>2, <2>3, <2>4
  <2>6. /\ ~run.eof /\ (last > 0 => run.line[last].end # Open)
        /\ last < Len(Programme(state))
    BY <1>2, <1>3, <1>6, <1>7 DEF SendTrack, Between, Tracks
  <2>7. Lined(state, new)
    BY <1>4, <1>6, <2>1, <2>2, <2>3, <2>6, TrackLined
  <2>8. new.acked = run.acked /\ new.tape = run.tape
    BY <1>4, <2>3 DEF Epoch
  <2> QED BY <1>0, <1>1, <1>2, <1>3, <2>5, <2>7, <2>8
<1>8. CASE SendAudio(s)
  <2>1. PICK done : done = run.sent - run.line[last].start
    OBVIOUS
  <2>2. PICK frame :
          frame = <<Programme(state)[last], Length - FramesOf(state, last) + done + 1>>
    OBVIOUS
  <2>3. PICK sent : sent = run.sent + 1
    OBVIOUS
  <2>4. PICK tape : tape = Append(run.tape, frame)
    OBVIOUS
  <2>5. PICK new : new = [run EXCEPT !.sent = sent, !.tape = tape]
    OBVIOUS
  <2>6. /\ last > 0 /\ run.line[last].end = Open /\ done < FramesOf(state, last)
        /\ stream' = [stream EXCEPT ![s].sent = sent, ![s].tape = tape]
    BY <1>2, <1>3, <1>6, <1>8, <2>1, <2>2, <2>3, <2>4 DEF SendAudio, Between, Tracks
  <2>7. stream'[s] = new
    BY <1>0, <1>2, <2>5, <2>6
  <2>8. Lined(state, new)
    BY <1>4, <1>6, <2>1, <2>2, <2>3, <2>4, <2>5, <2>6, AudioLined
  <2>9. new.acked = run.acked /\ new.tape = tape
    BY <1>4, <2>5 DEF Epoch
  <2>10. ASSUME NEW k \in 1..run.acked PROVE tape[k] = run.tape[k]
    <3>1. PICK n \in Nat : n = run.sent
      BY <1>5
    <3>2. k \in 1..n
      BY <1>5, <3>1
    <3>3. frame \in Occurrences \X (1..Length)
      <4>1. new.tape \in Seq(Occurrences \X (1..Length)) /\ Len(new.tape) = new.sent
            /\ new.sent = sent
        BY <1>4, <2>5, <2>8, LineIs DEF Epoch
      <4>2. n + 1 \in DOMAIN tape /\ tape[n + 1] = frame
        BY <1>5, <2>3, <2>4, <2>9, <3>1, <4>1, SMTT(30)
      <4> QED BY <2>9, <4>1, <4>2
    <3> QED BY <1>5, <2>4, <3>1, <3>2, <3>3
  <2> QED BY <1>0, <1>1, <1>2, <1>3, <2>7, <2>8, <2>9, <2>10
<1>9. CASE SendTrackEnd(s)
  <2>1. PICK span : span = [run.line[last] EXCEPT !.end = run.sent]
    OBVIOUS
  <2>2. PICK line : line = [run.line EXCEPT ![last] = span]
    OBVIOUS
  <2>3. PICK new : new = [run EXCEPT !.line = line]
    OBVIOUS
  <2>4. /\ last > 0 /\ run.line[last].end = Open
        /\ run.sent - run.line[last].start = FramesOf(state, last)
        /\ stream' = [stream EXCEPT ![s].line[last].end = run.sent]
    BY <1>2, <1>3, <1>6, <1>9 DEF SendTrackEnd, Between, Tracks
  <2>5. stream'[s] = [run EXCEPT !.line[last].end = run.sent]
    BY <1>0, <1>2, <2>4
  <2>6. stream'[s] = new
    BY <2>1, <2>2, <2>3, <2>5
  <2>7. Lined(state, new)
    BY <1>4, <1>6, <2>1, <2>2, <2>3, <2>4, EndLined
  <2>8. new.acked = run.acked /\ new.tape = run.tape
    BY <1>4, <2>3 DEF Epoch
  <2> QED BY <1>0, <1>1, <1>2, <1>3, <2>6, <2>7, <2>8
<1>10. CASE SendEof(s)
  <2>1. PICK new : new = [run EXCEPT !.eof = TRUE]
    OBVIOUS
  <2>2. stream'[s] = new
    BY <1>0, <1>2, <1>10, <2>1 DEF SendEof
  <2>3. /\ new \in Epoch /\ new.line = run.line /\ new.sent = run.sent
        /\ new.acked = run.acked /\ new.tape = run.tape
    BY <1>4, <2>1 DEF Epoch
  <2>4. Len(run.line) = Len(Programme(state)) /\ (last > 0 => run.line[last].end # Open)
    BY <1>2, <1>3, <1>6, <1>10 DEF SendEof, Between, Tracks
  <2>5. last > 0
    <3>1. Selected(state)
      BY <1>4 DEF Lined
    <3>2. PICK p : p = PositionOf(state)
      OBVIOUS
    <3>3. p \in 1..Len(state.entries) /\ Len(Programme(state)) = Len(state.entries) - p + 1
      BY <1>4, <3>1, <3>2, ProgrammeIs
    <3>4. Len(state.entries) \in Nat
      BY <1>4 DEF Proper, PlaybackState
    <3> QED BY <1>6, <2>4, <3>3, <3>4
  <2>6. \A i : EndOf(new, i) = EndOf(run, i)
    BY <2>3 DEF EndOf
  <2>7. \A i : Spanned(state, new, i) <=> Spanned(state, run, i)
    BY <2>3, <2>6 DEF Spanned
  <2>8. Lined(state, new)
    BY <1>4, <1>6, <2>3, <2>4, <2>5, <2>6, <2>7 DEF Lined
  <2> QED BY <1>0, <1>1, <1>2, <1>3, <2>2, <2>3, <2>8
<1> QED
  BY <1>7, <1>8, <1>9, <1>10

LEMMA StreamSound ==
  ASSUME IInv, NEW s \in Sessions, Sound(s),
         SendTrack(s) \/ SendAudio(s) \/ SendTrackEnd(s) \/ SendEof(s)
  PROVE  Sound(s)' /\ UNCHANGED store /\ lease' = lease
<1>1. /\ phase[s] = "playing" /\ Lined(snap[s], stream'[s])
      /\ UNCHANGED <<store, lease, phase, prior, snap, backup, listens, counts, failed,
                        late, heard, origins, saving, reply, queue, writing>>
  BY StreamStep
<1>2. Cursors(s)'
  BY <1>1 DEF Sound, Cursors
<1>3. Writes(s)' = Writes(s)
  BY <1>1 DEF Writes
<1>4. Pending(s)' /\ Flags(s)'
  BY <1>1, <1>3 DEF Sound, Pending, Flags
<1>5. Numbered(s)'
  BY <1>1 DEF Sound, Numbered, Streaming
<1> QED
  BY <1>1, <1>2, <1>4, <1>5 DEF Sound

LEMMA AckedLined ==
  ASSUME NEW state, NEW run, Lined(state, run), NEW acked \in 0..run.sent,
         NEW new, new = [run EXCEPT !.acked = acked]
  PROVE  /\ Lined(state, new) /\ new.acked = acked /\ new.tape = run.tape
         /\ new.line = run.line /\ new.sent = run.sent /\ new.eof = run.eof
<1>1. run \in Epoch /\ acked \in Nat /\ acked <= run.sent
  BY LineIs DEF Lined
<1>2. /\ new \in Epoch /\ new.line = run.line /\ new.sent = run.sent
      /\ new.acked = acked /\ new.tape = run.tape /\ new.eof = run.eof
  BY <1>1 DEF Epoch
<1>3. \A i : EndOf(new, i) = EndOf(run, i)
  BY <1>2 DEF EndOf
<1>4. \A i : Spanned(state, new, i) <=> Spanned(state, run, i)
  BY <1>2, <1>3 DEF Spanned
<1> QED
  BY <1>1, <1>2, <1>3, <1>4 DEF Lined

LEMMA AcknowledgeStep ==
  ASSUME IInv, NEW s \in Sessions, Sound(s), Acknowledge(s)
  PROVE  \E acked, item :
           /\ acked \in (stream[s].acked + 1)..stream[s].sent
           /\ acked \in 0..stream[s].sent /\ Hears(s, acked)
           /\ Lined(snap[s], stream'[s]) /\ stream'[s].acked = acked
           /\ stream'[s].tape = stream[s].tape
           /\ item = [state |-> AtCursor(snap[s], stream[s].line, acked),
                      expected |-> snap[s].revision, reply |-> "none"]
           /\ queue'[s] = queue[s] \/ queue'[s] = <<item>>
           /\ Writes(s)' \subseteq Writes(s) \cup {item}
<1>0. Shapes /\ phase[s] = "playing"
  BY DEF IInv, Acknowledge
<1>1. PICK acked, item :
        /\ acked \in (stream[s].acked + 1)..stream[s].sent /\ Hears(s, acked)
        /\ stream' = [stream EXCEPT ![s].acked = acked]
        /\ item = [state |-> AtCursor(snap[s], stream[s].line, acked),
                   expected |-> snap[s].revision, reply |-> "none"]
        /\ \/ queue' = queue
           \/ queue' = [queue EXCEPT ![s] = <<item>>]
  BY DEF Acknowledge
<1>2. Lined(snap[s], stream[s]) /\ stream[s].acked \in Nat /\ stream[s].sent \in Nat
  BY <1>0, PlayingIs
<1>3. acked \in 0..stream[s].sent
  BY <1>1, <1>2
<1>4. PICK new : new = [stream[s] EXCEPT !.acked = acked]
  OBVIOUS
<1>5. stream'[s] = new
  BY <1>0, <1>1, <1>4 DEF Shapes, OnSessions
<1>6. Lined(snap[s], stream'[s]) /\ stream'[s].acked = acked /\ stream'[s].tape = stream[s].tape
  BY <1>2, <1>3, <1>4, <1>5, AckedLined
<1>7. queue'[s] = queue[s] \/ queue'[s] = <<item>>
  BY <1>0, <1>1 DEF Shapes, OnSessions
<1>8. saving' = saving /\ writing' = writing
  BY DEF Acknowledge
<1>9. Writes(s)' \subseteq Writes(s) \cup {item}
  BY <1>7, <1>8, ShortQueues DEF Writes
<1> QED
  BY <1>1, <1>3, <1>6, <1>7, <1>9

LEMMA AcknowledgeSound ==
  ASSUME IInv, NEW s \in Sessions, Sound(s), Acknowledge(s)
  PROVE  Sound(s)' /\ UNCHANGED store /\ lease' = lease
<1>0. phase[s] = "playing"
  BY DEF Acknowledge
<1>1. UNCHANGED <<store, lease, phase, prior, snap, backup, listens, counts, failed,
                  late, origins, saving, reply, writing>>
  BY DEF Acknowledge
<1>2. PICK acked, item :
           /\ acked \in 0..stream[s].sent
           /\ Lined(snap[s], stream'[s])
           /\ item = [state |-> AtCursor(snap[s], stream[s].line, acked),
                      expected |-> snap[s].revision, reply |-> "none"]
           /\ Writes(s)' \subseteq Writes(s) \cup {item}
  BY AcknowledgeStep
<1>3. PICK c : c = AtCursor(snap[s], stream[s].line, acked)
  OBVIOUS
<1>4. Proper(c) /\ c \in PlaybackState /\ snap[s].revision \in 0..MaxExact
  BY <1>0, <1>2, <1>3, CursorSound, PlayingIs DEF Proper, PlaybackState
<1>5. item \in Snapshot /\ item.state = c
  BY <1>2, <1>3, <1>4 DEF Snapshot
<1>6. Cursors(s)'
  BY <1>0, <1>1, <1>2 DEF Sound, Cursors
<1>7. Pending(s)'
  BY <1>1, <1>2, <1>4, <1>5 DEF Sound, Pending
<1>8. Flags(s)' /\ Numbered(s)'
  BY <1>1 DEF Sound, Flags, Numbered, Streaming
<1> QED
  BY <1>1, <1>6, <1>7, <1>8 DEF Sound

LEMMA InitSound == Init => SoundInv
<1> SUFFICES ASSUME Init PROVE SoundInv
  OBVIOUS
<1>1. Recorded /\ lease \in Sessions \cup {Nobody} /\ Filled
  BY NothingTyped DEF Init, Recorded, OnSessions, Filled, Copies
<1>2. ASSUME NEW s \in Sessions PROVE Sound(s)
  <2>1. /\ phase[s] = "idle" /\ prior[s] = NoState /\ snap[s] = NoState
        /\ backup[s] = NoState /\ stream[s] = NoStream /\ listens[s] = NoListens
        /\ counts[s] = [next |-> 0, actions |-> 0] /\ failed[s] = FALSE /\ late[s] = FALSE
        /\ saving[s] = {} /\ reply[s] = "none" /\ queue[s] = <<>> /\ writing[s] = {}
    BY DEF Init
  <2>2. Cursors(s)
    BY <2>1, NothingTyped DEF Cursors, Loaded
  <2>3. Pending(s)
    BY <2>1, ShortQueues DEF Pending, Writes, Single
  <2>4. Flags(s) /\ Numbered(s)
    BY <2>1, NothingTyped DEF Flags, Numbered, Streaming
  <2> QED BY <2>2, <2>3, <2>4 DEF Sound
<1> QED
  BY <1>1, <1>2 DEF SoundInv

LEMMA CrashSound ==
  ASSUME SoundInv, Crash
  PROVE  SoundInv'
<1>1. Recorded' /\ lease' \in Sessions \cup {Nobody} /\ Filled'
  BY DEF Crash, Recorded, OnSessions, SoundInv, Filled, Copies
<1>2. ASSUME NEW s \in Sessions PROVE Sound(s)'
  <2>1. /\ phase'[s] \in {"idle", "closed"} /\ prior'[s] = NoState /\ snap'[s] = NoState
        /\ backup'[s] = NoState /\ stream'[s] = NoStream /\ listens'[s] = NoListens
        /\ counts'[s] = [next |-> 0, actions |-> 0] /\ failed'[s] = FALSE /\ late'[s] = FALSE
        /\ saving'[s] = {} /\ reply'[s] = "none" /\ queue'[s] = <<>> /\ writing'[s] = {}
    BY DEF Crash
  <2>2. Cursors(s)'
    BY <2>1, NothingTyped DEF Cursors, Loaded
  <2>3. Pending(s)'
    BY <2>1, ShortQueues DEF Pending, Writes, Single
  <2>4. Flags(s)' /\ Numbered(s)'
    BY <2>1, NothingTyped DEF Flags, Numbered, Streaming
  <2> QED BY <2>2, <2>3, <2>4 DEF Sound
<1> QED
  BY <1>1, <1>2 DEF SoundInv

\* What a backup of another server brings is a proper state.
LEMMA RestoredProper ==
  ASSUME NEW x, x = [session |-> Outside, revision |-> 1, entries |-> << 1 >>,
                     current |-> 1, position |-> Milliseconds(Length), at |-> 0]
  PROVE  Proper(x)
<1>1. 1 \in Occurrences /\ 1 \in 0..MaxExact
  BY ConstantsAssumption DEF Occurrences
<1>2. PICK position \in Nat : position = Milliseconds(Length)
  BY WholeMilliseconds, ConstantsAssumption
<1>3. PICK entries : entries = <<1>>
  OBVIOUS
<1>4. entries \in Seq(Occurrences) /\ DOMAIN entries = {1} /\ entries[1] = 1
  BY <1>1, <1>3
<1>5. x = [session |-> Outside, revision |-> 1, entries |-> entries,
           current |-> 1, position |-> position, at |-> 0]
  BY <1>2, <1>3
<1>6. x \in PlaybackState /\ x.entries = entries /\ x.current = 1
  BY <1>1, <1>4, <1>5 DEF PlaybackState
<1>7. 1 \in Range(entries)
  BY <1>4 DEF Range
<1>8. Distinct(entries) /\ entries # <<>>
  <2>1. entries # <<>>
    BY <1>3
  <2>2. \A i, j \in DOMAIN entries : i = 1 /\ j = 1
    BY <1>4
  <2>3. Distinct(entries)
    BY <2>2 DEF Distinct
  <2> QED BY <2>1, <2>3
<1> QED
  BY <1>6, <1>7, <1>8 DEF Proper, Selected

LEMMA QuietSound ==
  ASSUME SoundInv, Filled',
         UNCHANGED <<lease, phase, prior, snap, backup, stream, listens, counts, late, heard,
                     origins, failed, saving, reply, queue, writing>>
  PROVE  SoundInv'
<1>1. ASSUME NEW s \in Sessions PROVE Sound(s)'
  BY OthersKeepSound DEF Same, SameRecord, SoundInv
<1> QED
  BY <1>1 DEF SoundInv, Recorded, OnSessions

LEMMA SessionSound ==
  ASSUME IInv, SoundInv, NEW s \in Sessions,
         Acquire(s) \/ Advance(s) \/ SendSave(s) \/ Write(s)
  PROVE  Sound(s)' /\ Filled' /\ lease' \in {lease, s, Nobody}
<1>0. Recorded /\ Filled /\ Sound(s)
  BY DEF SoundInv
<1>11. UNCHANGED store => Filled'
  BY <1>0 DEF Filled, Copies
<1>1. CASE Acquire(s) \/ ReadProfile(s) \/ GiveUp(s) \/ Release(s) \/ ReleaseLate(s)
  BY <1>0, <1>11, <1>1, BeginningSound
<1>2. CASE Claim(s)
  BY <1>0, <1>2, ClaimSound
<1>3. CASE Begin(s) \/ Format(s)
  BY <1>0, <1>11, <1>3, PreparedSound
<1>4. CASE DoNotBegin(s) \/ NoFormat(s) \/ ControlNotSaved(s)
  BY <1>0, <1>11, <1>4, BrokenOffSound
<1>5. CASE SendTrack(s) \/ SendAudio(s) \/ SendTrackEnd(s) \/ SendEof(s)
  BY <1>0, <1>11, <1>5, StreamSound
<1>6. CASE Acknowledge(s)
  BY <1>0, <1>11, <1>6, AcknowledgeSound
<1>7. CASE Seek(s) \/ Edit(s)
  BY <1>0, <1>11, <1>7, ControlSound
<1>8. CASE Stop(s) \/ PlayedOut(s) \/ Interrupted(s)
  BY <1>0, <1>11, <1>8, EndedSound
<1>9. CASE ControlSaved(s) \/ Flushed(s) \/ Defer(s)
  BY <1>0, <1>11, <1>9, AnsweredSound
<1>10. CASE SendSave(s) \/ Write(s)
  BY <1>0, <1>10, WriterSound DEF Write
<1> QED
  BY <1>1, <1>2, <1>3, <1>4, <1>5, <1>6, <1>7, <1>8, <1>9, <1>10 DEF Advance

LEMMA StepSound == IInv /\ SoundInv /\ [Next]_vars => SoundInv'
<1> SUFFICES ASSUME IInv, SoundInv, [Next]_vars PROVE SoundInv'
  OBVIOUS
<1>1. ASSUME NEW s \in Sessions, Acquire(s) \/ Advance(s) \/ SendSave(s) \/ Write(s)
      PROVE  SoundInv'
  <2>1. Sound(s)' /\ Filled' /\ lease' \in {lease, s, Nobody}
    BY <1>1, SessionSound
  <2>2. \A t \in Sessions : t # s => Same(t)
    BY <1>1, AdvanceAlone, WriteAlone DEF IInv, Alone
  <2>3. Recorded' /\ \A t \in Sessions : t # s => SameRecord(t)
    BY <1>1, RecordAlone DEF SoundInv
  <2>4. ASSUME NEW t \in Sessions PROVE Sound(t)'
    BY <2>1, <2>2, <2>3, OthersKeepSound DEF SoundInv
  <2> QED BY <2>1, <2>3, <2>4 DEF SoundInv
<1>2. CASE BackUp \/ Restore
  <2>1. PICK x : x = [session |-> Outside, revision |-> 1, entries |-> << 1 >>,
                      current |-> 1, position |-> Milliseconds(Length), at |-> 0]
    OBVIOUS
  <2>2. Blank(x) /\ Blank(NoState)
    BY <2>1, RestoredProper DEF Blank
  <2>3. written' = written /\ \A y \in Copies' : y \in Copies \cup {NoState, x}
    BY <1>2, <2>1 DEF BackUp, Restore, Copies
  <2>4. Filled'
    BY <2>2, <2>3 DEF SoundInv, Filled
  <2> QED BY <1>2, <2>4, QuietSound DEF BackUp, Restore, own, writer
<1>3. CASE UNCHANGED vars
  <2>1. Filled'
    BY <1>3 DEF vars, SoundInv, Filled, Copies
  <2> QED BY <1>3, <2>1, QuietSound DEF vars, own, writer
<1> QED
  BY <1>1, <1>2, <1>3, CrashSound DEF Next

\* The invariant of the data: states, epochs, visits and what is pending.
THEOREM DataInvariant == Spec => []SoundInv
<1> QED
  BY InitSound, StepSound, SessionInvariant, PTL DEF Spec

\* TypeOK: every variable keeps its type, and the channel and the writer of a
\* session hold one write at most.
THEOREM TypeCorrect == Spec => []TypeOK
<1>1. IInv /\ SoundInv => TypeOK
  <2> SUFFICES ASSUME IInv, SoundInv PROVE TypeOK
    OBVIOUS
  <2>1. \A x : Blank(x) => x \in PlaybackState
    BY NothingTyped DEF Blank, Proper
  <2>2. Shapes /\ Recorded
    BY DEF IInv, SoundInv
  <2>3. ASSUME NEW s \in Sessions PROVE Sound(s) /\ Local(s)
    BY DEF IInv, SoundInv
  <2>4. /\ disk \in PlaybackState /\ written \in PlaybackState
        /\ archives \subseteq PlaybackState /\ lease \in Sessions \cup {Nobody}
    BY <2>1 DEF SoundInv, Filled, Copies
  <2>5. phase \in [Sessions -> Phases]
    BY <2>2, <2>3 DEF Shapes, OnSessions, Local, Owned
  <2>6. /\ prior \in [Sessions -> PlaybackState] /\ snap \in [Sessions -> PlaybackState]
        /\ backup \in [Sessions -> PlaybackState]
    BY <2>1, <2>2, <2>3 DEF Shapes, OnSessions, Sound, Cursors
  <2>7. /\ failed \in [Sessions -> BOOLEAN] /\ late \in [Sessions -> BOOLEAN]
        /\ reply \in [Sessions -> {"none", "saved", "refused"}]
    BY <2>2, <2>3 DEF Shapes, Recorded, OnSessions, Sound, Flags
  <2>8. ASSUME NEW s \in Sessions
        PROVE  Items(saving[s]) /\ Items(writing[s])
    BY <2>3 DEF Sound, Pending, Single, Items, Writes
  <2>9. ASSUME NEW s \in Sessions
        PROVE  queue[s] \in Seq(Snapshot) /\ Len(queue[s]) <= 1
    <3>1. queue[s] = <<>> \/ \E item : queue[s] = <<item>>
      BY <2>3 DEF Local, Owned, Chain
    <3>2. ASSUME NEW item, queue[s] = <<item>> PROVE item \in Snapshot
      BY <2>3, <3>2, ShortQueues DEF Sound, Pending, Writes
    <3>3. CASE queue[s] = <<>>
      BY <3>3
    <3>4. CASE \E item : queue[s] = <<item>>
      <4>1. PICK item : queue[s] = <<item>>
        BY <3>4
      <4>2. item \in Snapshot
        BY <3>2, <4>1
      <4> QED BY <4>1, <4>2
    <3> QED BY <3>1, <3>3, <3>4
  <2>10. ASSUME NEW s \in Sessions
         PROVE  stream[s].line \in Seq(Span) /\ stream[s].acked <= stream[s].sent
    <3>1. NoStream.line \in Seq(Span) /\ NoStream.acked <= NoStream.sent
      BY DEF NoStream
    <3>2. CASE phase[s] = "playing"
      BY <2>3, <3>2 DEF Sound, Cursors, Lined, Epoch
    <3>3. CASE phase[s] # "playing"
      BY <2>3, <3>1, <3>3 DEF Sound, Cursors
    <3> QED BY <3>2, <3>3
  <2>11. ASSUME NEW s \in Sessions
         PROVE  /\ counts[s] \in [next : 0..MaxExact, actions : 0..MaxActions]
                /\ \A o \in DOMAIN listens[s].visits : listens[s].visits[o] \in Visit
    <3>1. counts[s] \in Counting /\ listens[s].visits \in Visited
      BY <2>3 DEF Sound, Flags, Listening
    <3> QED BY <3>1, VisitedIs DEF Counting
  <2> QED
    BY <2>4, <2>5, <2>6, <2>7, <2>8, <2>9, <2>10, <2>11 DEF TypeOK
<1> QED
  BY <1>1, SessionInvariant, DataInvariant, PTL

(***************************************************************************)
(* What a client has heard, and what that justifies.                       *)
(***************************************************************************)
Tally == [Occurrences -> [1..Length -> Nat]]

Reaches(h, w, o, ms) ==
  \/ <<o, ms>> \in w
  \/ o # 0 /\ ms > 0 /\ \E f \in (ms * FramesPerMs)..Length : h[o][f] > 0
HasEnded(h, w, o) ==
  \/ h[o][Length] > 0
  \/ \E origin \in w : origin[1] = o /\ origin[2] * FramesPerMs = Length
JustifiedBy(h, w, x) ==
  \/ Reaches(h, w, x.current, x.position)
  \/ /\ x.position = 0
     /\ IF x.current = 0 THEN HasEnded(h, w, x.entries[Len(x.entries)])
        ELSE PositionOf(x) > 1 /\ HasEnded(h, w, x.entries[PositionOf(x) - 1])

LEMMA JustifiedIs ==
  ASSUME NEW s \in Sessions, NEW x, JustifiedBy(heard[s], origins[s], x)
  PROVE  Justified(s, x)
BY DEF JustifiedBy, Justified, Reaches, Reached, HasEnded, HeardOut

LEMMA JustifiedAlike ==
  ASSUME NEW h, NEW w, NEW x, NEW y, JustifiedBy(h, w, x),
         y.current = x.current, y.position = x.position, y.entries = x.entries
  PROVE  JustifiedBy(h, w, y)
<1>1. PositionOf(y) = PositionOf(x)
  BY DEF PositionOf
<1> QED
  BY <1>1 DEF JustifiedBy

Louder(h, g) == \A o \in Occurrences : \A f \in 1..Length : h[o][f] > 0 => g[o][f] > 0

LEMMA EntryIs ==
  ASSUME NEW x, Proper(x)
  PROVE  /\ Len(x.entries) \in Nat \ {0} /\ DOMAIN x.entries = 1..Len(x.entries)
         /\ x.entries[Len(x.entries)] \in Occurrences
         /\ \A k \in 1..Len(x.entries) : x.entries[k] \in Occurrences
         /\ x.current \in 0..MaxExact /\ x.position \in Nat
         /\ x.current # 0 =>
              /\ PositionOf(x) \in 1..Len(x.entries) /\ x.entries[PositionOf(x)] = x.current
              /\ x.current \in Occurrences
              /\ PositionOf(x) > 1 => x.entries[PositionOf(x) - 1] \in Occurrences
<1>1. /\ x.entries \in Seq(Occurrences) /\ x.entries # <<>> /\ x.current \in 0..MaxExact
      /\ x.position \in Nat
  BY DEF Proper, PlaybackState
<1>2. /\ Len(x.entries) \in Nat \ {0} /\ DOMAIN x.entries = 1..Len(x.entries)
      /\ \A k \in 1..Len(x.entries) : x.entries[k] \in Occurrences
  BY <1>1, EmptySeq
<1>3. Len(x.entries) \in 1..Len(x.entries)
  BY <1>2
<1>4. ASSUME x.current # 0
      PROVE  /\ PositionOf(x) \in 1..Len(x.entries) /\ x.entries[PositionOf(x)] = x.current
             /\ x.current \in Occurrences
             /\ PositionOf(x) > 1 => x.entries[PositionOf(x) - 1] \in Occurrences
  <2>1. Selected(x)
    BY <1>4 DEF Proper
  <2>2. PICK p : p = PositionOf(x)
    OBVIOUS
  <2>3. p \in 1..Len(x.entries) /\ x.entries[p] = x.current
    BY <2>1, <2>2, ProgrammeIs
  <2>4. p > 1 => p - 1 \in 1..Len(x.entries)
    BY <1>2, <2>3
  <2> QED BY <1>2, <2>2, <2>3, <2>4
<1> QED
  BY <1>1, <1>2, <1>3, <1>4

LEMMA FrameOf ==
  ASSUME NEW ms \in Nat, ms > 0, NEW f \in (ms * FramesPerMs)..Length
  PROVE  f \in 1..Length
<1>1. FramesPerMs \in Nat /\ FramesPerMs >= 1 /\ Length \in Nat
  BY ConstantsAssumption
<1>2. ms * FramesPerMs \in Nat /\ ms * FramesPerMs >= 1
  BY <1>1
<1> QED
  BY <1>1, <1>2

\* What was justified stays so when more has been heard.
LEMMA JustifiedGrows ==
  ASSUME NEW x, Proper(x), NEW h, NEW w, JustifiedBy(h, w, x),
         NEW g, Louder(h, g), NEW v, w \subseteq v
  PROVE  JustifiedBy(g, v, x)
<1>1. Length \in 1..Length
  BY ConstantsAssumption
<1>2. ASSUME NEW o \in Occurrences, HasEnded(h, w, o) PROVE HasEnded(g, v, o)
  BY <1>1, <1>2 DEF HasEnded, Louder
<1>3. CASE Reaches(h, w, x.current, x.position)
  <2>1. CASE <<x.current, x.position>> \in w
    BY <2>1 DEF JustifiedBy, Reaches
  <2>2. CASE x.current # 0 /\ x.position > 0
              /\ \E f \in (x.position * FramesPerMs)..Length : h[x.current][f] > 0
    <3>1. PICK f \in (x.position * FramesPerMs)..Length : h[x.current][f] > 0
      BY <2>2
    <3>2. x.current \in Occurrences /\ x.position \in Nat
      BY <2>2, EntryIs
    <3>3. f \in 1..Length
      BY <2>2, <3>2, FrameOf
    <3>4. g[x.current][f] > 0
      BY <3>1, <3>2, <3>3 DEF Louder
    <3> QED BY <2>2, <3>1, <3>4 DEF JustifiedBy, Reaches
  <2> QED BY <1>3, <2>1, <2>2 DEF Reaches
<1>4. CASE ~Reaches(h, w, x.current, x.position)
  BY <1>2, <1>4, EntryIs DEF JustifiedBy
<1> QED
  BY <1>3, <1>4

\* The frames acknowledged of an epoch are heard.
Sounded(run, acked, h) == \A k \in 1..acked : h[run.tape[k][1]][run.tape[k][2]] > 0

\* A track acknowledged to its end has been heard out.
LEMMA EndHeard ==
  ASSUME NEW state, Proper(state), NEW run, Lined(state, run), NEW acked \in 0..run.sent,
         NEW h, NEW w, <<state.current, state.position>> \in w, Sounded(run, acked, h),
         NEW i \in DOMAIN run.line, run.line[i].end # Open, run.line[i].end <= acked
  PROVE  HasEnded(h, w, Programme(state)[i])
<1>1. /\ i \in 1..Len(Programme(state)) /\ run.line[i].start \in Nat /\ Spanned(state, run, i)
      /\ EndOf(run, i) \in Nat /\ Selected(state) /\ From(state) <= Length
  BY SpansAre DEF Lined
<1>2. PICK start \in Nat : start = run.line[i].start
  BY <1>1
<1>3. PICK frames \in 0..Length : frames = FramesOf(state, i)
  BY <1>1, FramesAre
<1>4. PICK end \in Nat : end = run.line[i].end
  BY <1>1 DEF EndOf
<1>5. end = start + frames /\ EndOf(run, i) = end
  BY <1>1, <1>2, <1>3, <1>4 DEF Spanned, EndOf
<1>6. CASE frames = 0
  <2>1. i = 1 /\ From(state) = Length
    <3>1. i \in Nat
      BY <1>1
    <3> QED BY <1>1, <1>3, <1>6, <3>1, FramesAre
  <2>2. Programme(state)[1] = state.current
    BY <1>1, ProgrammeIs
  <2>3. state.position * FramesPerMs = Length
    BY <2>1 DEF From
  <2> QED BY <2>1, <2>2, <2>3 DEF HasEnded
<1>7. CASE frames # 0
  <2>1. end \in (start + 1)..end /\ end \in 1..acked
    BY <1>3, <1>4, <1>5, <1>7
  <2>2. run.tape[end] = <<Programme(state)[i], Length - FramesOf(state, i) + (end - start)>>
    BY <1>1, <1>2, <1>5, <2>1 DEF Spanned
  <2>3. Length - frames + (end - start) = Length
    BY <1>3, <1>5, ConstantsAssumption
  <2>4. h[Programme(state)[i]][Length] > 0
    BY <1>3, <2>1, <2>2, <2>3 DEF Sounded
  <2> QED BY <2>4 DEF HasEnded
<1> QED
  BY <1>6, <1>7

\* The entries around a track of an epoch.
LEMMA EntriesAround ==
  ASSUME NEW state, Proper(state), Selected(state), NEW c, Proper(c),
         c.entries = state.entries, NEW i \in 1..Len(Programme(state))
  PROVE  /\ Len(Programme(state)) \in Nat
         /\ c.current = Programme(state)[i] => c.current # 0
         /\ c.current = Programme(state)[i] /\ i > 1 =>
              PositionOf(c) > 1 /\ c.entries[PositionOf(c) - 1] = Programme(state)[i - 1]
         /\ i = Len(Programme(state)) => c.entries[Len(c.entries)] = Programme(state)[i]
<1>1. PICK p : p = PositionOf(state)
  OBVIOUS
<1>2. PICK n : n = Len(Programme(state))
  OBVIOUS
<1>3. PICK m \in Nat : m = Len(c.entries)
  BY EntryIs
<1>4. /\ p \in 1..m /\ n = m - p + 1
      /\ \A j \in 1..n : /\ p + j - 1 \in 1..m /\ Programme(state)[j] = c.entries[p + j - 1]
                         /\ Programme(state)[j] \in Occurrences
  <2>1. /\ p \in 1..Len(state.entries) /\ n = Len(state.entries) - p + 1
        /\ \A j \in 1..n : /\ p + j - 1 \in 1..Len(state.entries)
                           /\ Programme(state)[j] = state.entries[p + j - 1]
                           /\ Programme(state)[j] \in Occurrences
    BY <1>1, <1>2, ProgrammeIs, SMTT(30)
  <2>2. c.entries = state.entries /\ Len(state.entries) = m
    BY <1>3
  <2> QED BY <2>1, <2>2
<1>5. 0 \notin Occurrences
  BY ConstantsAssumption DEF Occurrences
<1>6. n \in Nat /\ i \in 1..n
  BY <1>2, <1>3, <1>4
<1>7. ASSUME c.current = Programme(state)[i], i > 1
      PROVE  PositionOf(c) > 1 /\ c.entries[PositionOf(c) - 1] = Programme(state)[i - 1]
  <2>1. p + i - 1 \in DOMAIN c.entries /\ c.entries[p + i - 1] = c.current
    BY <1>3, <1>4, <1>6, <1>7, EntryIs
  <2>2. PositionOf(c) = p + i - 1
    BY <2>1, PositionIs DEF Proper
  <2>3. PICK j \in 1..n : j = i - 1
    BY <1>6, <1>7
  <2>4. PICK q \in Nat : q = p + i - 1
    BY <1>4, <1>6
  <2>5. q > 1 /\ p + j - 1 = q - 1
    BY <1>4, <1>6, <1>7, <2>3, <2>4
  <2>6. Programme(state)[j] = c.entries[q - 1]
    BY <1>4, <2>5
  <2> QED BY <2>2, <2>3, <2>4, <2>5, <2>6
<1>8. ASSUME i = n PROVE c.entries[m] = Programme(state)[i]
  <2>1. p + i - 1 = m
    BY <1>3, <1>4, <1>6, <1>8
  <2> QED BY <1>4, <1>6, <2>1
<1> QED
  BY <1>2, <1>3, <1>4, <1>5, <1>6, <1>7, <1>8

\* A cursor in the middle of a track is that of the last frame acknowledged.
LEMMA InsideHeard ==
  ASSUME NEW state, Proper(state), NEW run, Lined(state, run), NEW acked \in 0..run.sent,
         NEW h, NEW w, Sounded(run, acked, h),
         NEW i \in DOMAIN run.line, run.line[i].start <= acked, acked <= EndOf(run, i),
         Milliseconds(acked - run.line[i].start) > 0,
         NEW c, Proper(c), Inside(state, run, acked, i, c)
  PROVE  JustifiedBy(h, w, c)
<1>1. /\ i \in 1..Len(Programme(state)) /\ run.line[i].start \in Nat /\ Spanned(state, run, i)
      /\ EndOf(run, i) \in Nat /\ Selected(state) /\ From(state) <= Length
      /\ state.position \in Nat
  BY SpansAre DEF Lined, Proper, PlaybackState
<1>2. PICK start \in Nat : start = run.line[i].start
  BY <1>1
<1>3. i \in Nat
  BY <1>1
<1>4. PICK frames \in 0..Length : /\ frames = FramesOf(state, i)
                                  /\ frames = Length - (IF i = 1 THEN From(state) ELSE 0)
  BY <1>1, <1>3, FramesAre
<1>5. acked \in Nat /\ start <= acked
  BY <1>1, <1>2
<1>6. PICK n \in Nat : n = acked - start
  BY <1>5
<1>7. PICK ms : ms = Milliseconds(n)
  OBVIOUS
<1>8. ms \in Nat /\ ms * FramesPerMs <= n /\ ms > 0
  BY <1>2, <1>6, <1>7, WholeMilliseconds
<1>9. n > 0
  BY <1>6, <1>7, <1>8, WholeMilliseconds
<1>10. n <= frames
  <2>1. EndOf(run, i) - start <= frames
    BY <1>1, <1>2, <1>4 DEF Spanned
  <2>2. PICK end \in Nat : end = EndOf(run, i)
    BY <1>1
  <2> QED BY <1>5, <1>6, <2>1, <2>2
<1>11. PICK base \in Nat : base = run.line[i].position /\ base * FramesPerMs = Length - frames
  <2>1. Length - frames = IF i = 1 THEN From(state) ELSE 0
    BY <1>1, <1>4, FromIsNat, ConstantsAssumption
  <2>2. run.line[i].position = IF i = 1 THEN state.position ELSE 0
    BY <1>1 DEF Spanned
  <2>3. 0 * FramesPerMs = 0
    BY ConstantsAssumption
  <2> QED BY <1>1, <2>1, <2>2, <2>3 DEF From
<1>12. c.current = Programme(state)[i] /\ c.position = base + ms
  BY <1>2, <1>6, <1>7, <1>11 DEF Inside
<1>13. PICK f : f = Length - frames + n
  OBVIOUS
<1>14. f \in (c.position * FramesPerMs)..Length
  <2>1. FramesPerMs \in Nat /\ Length \in Nat
    BY ConstantsAssumption
  <2>2. (base + ms) * FramesPerMs = base * FramesPerMs + ms * FramesPerMs
    BY <1>8, <2>1
  <2>3. PICK x \in Nat : x = ms * FramesPerMs
    BY <1>8, <2>1
  <2>4. PICK y \in Nat : y = c.position * FramesPerMs
    BY <1>8, <1>12, <2>1
  <2>5. y = Length - frames + x
    BY <1>11, <1>12, <2>2, <2>3, <2>4
  <2>6. x <= n
    BY <1>8, <2>3
  <2> QED BY <1>10, <1>13, <2>1, <2>4, <2>5, <2>6
<1>15. h[c.current][f] > 0
  <2>1. acked \in (start + 1)..EndOf(run, i) /\ acked \in 1..acked
    BY <1>1, <1>5, <1>6, <1>9
  <2>2. run.tape[acked] = <<Programme(state)[i], Length - FramesOf(state, i) + (acked - start)>>
    BY <1>1, <1>2, <2>1 DEF Spanned
  <2>3. run.tape[acked] = <<c.current, f>>
    BY <1>4, <1>6, <1>12, <1>13, <2>2
  <2> QED BY <2>1, <2>3 DEF Sounded
<1>16. c.position > 0 /\ c.current # 0
  <2>1. c.position > 0
    BY <1>8, <1>12
  <2> QED BY <2>1 DEF Proper
<1> QED
  BY <1>14, <1>15, <1>16 DEF JustifiedBy, Reaches

\* The cursor of an acknowledgement claims no audio that was not acknowledged.
LEMMA CursorHeard ==
  ASSUME NEW state, Proper(state), NEW run, Lined(state, run), NEW acked \in 0..run.sent,
         NEW h, NEW w, <<state.current, state.position>> \in w, Sounded(run, acked, h),
         NEW c, Proper(c), c.entries = state.entries, Reaching(state, run, acked, c)
  PROVE  JustifiedBy(h, w, c)
<1>1. CASE run.line = <<>> /\ c.current = state.current /\ c.position = state.position
  BY <1>1 DEF JustifiedBy, Reaches
<1>2. ASSUME NEW i \in DOMAIN run.line, run.line[i].start <= acked
      PROVE  /\ i \in 1..Len(Programme(state)) /\ Selected(state)
             /\ Spanned(state, run, i) /\ run.line[i].start \in Nat
             /\ Len(Programme(state)) \in Nat
  BY SpansAre, ProgrammeIs, LenProperties DEF Lined
<1>3. ASSUME NEW i \in DOMAIN run.line, run.line[i].start <= acked,
             AtEnd(state, run, acked, i, c)
      PROVE  JustifiedBy(h, w, c)
  <2>1. HasEnded(h, w, Programme(state)[i]) /\ c.position = 0
    BY <1>3, EndHeard DEF AtEnd
  <2>2. CASE i < Len(Programme(state))
    <3>1. PICK j \in 1..Len(Programme(state)) : j = i + 1
      BY <1>2, <1>3, <2>2
    <3>2. c.current = Programme(state)[j] /\ j > 1 /\ j - 1 = i
      BY <1>2, <1>3, <2>2, <3>1 DEF AtEnd
    <3>3. /\ c.current # 0 /\ PositionOf(c) > 1
          /\ c.entries[PositionOf(c) - 1] = Programme(state)[i]
      BY <1>2, <1>3, <3>2, EntriesAround
    <3> QED BY <2>1, <3>3 DEF JustifiedBy
  <2>3. CASE ~(i < Len(Programme(state)))
    <3>1. c.current = 0 /\ i = Len(Programme(state))
      BY <1>2, <1>3, <2>3 DEF AtEnd
    <3>2. c.entries[Len(c.entries)] = Programme(state)[i]
      BY <1>2, <1>3, <3>1, EntriesAround
    <3> QED BY <2>1, <3>1, <3>2 DEF JustifiedBy
  <2> QED BY <2>2, <2>3
<1>4. ASSUME NEW i \in DOMAIN run.line, run.line[i].start <= acked,
             Inside(state, run, acked, i, c)
      PROVE  JustifiedBy(h, w, c)
  <2>1. acked - run.line[i].start \in Nat
    BY <1>2, <1>4
  <2>2. PICK ms \in Nat : ms = Milliseconds(acked - run.line[i].start)
    BY <2>1, WholeMilliseconds
  <2>3. CASE ms > 0
    BY <1>4, <2>2, <2>3, InsideHeard DEF Inside
  <2>4. CASE ms = 0 /\ i = 1
    <3>1. c.current = Programme(state)[1] /\ Programme(state)[1] = state.current
      BY <1>2, <1>4, <2>4, ProgrammeIs DEF Inside
    <3>2. run.line[i].position = state.position
      BY <1>2, <1>4, <2>4 DEF Spanned
    <3>3. state.position \in Nat
      BY DEF Proper, PlaybackState
    <3>4. c.position = state.position
      BY <1>4, <2>2, <2>4, <3>2, <3>3 DEF Inside
    <3> QED BY <3>1, <3>4 DEF JustifiedBy, Reaches
  <2>5. CASE ms = 0 /\ i # 1
    <3>1. c.position = 0
      BY <1>2, <1>4, <2>2, <2>5 DEF Inside, Spanned
    <3>2. i > 1 /\ c.current = Programme(state)[i]
      BY <1>2, <1>4, <2>5 DEF Inside
    <3>3. /\ c.current # 0 /\ PositionOf(c) > 1
          /\ c.entries[PositionOf(c) - 1] = Programme(state)[i - 1]
      BY <1>2, <1>4, <3>2, EntriesAround
    <3>4. i - 1 \in DOMAIN run.line /\ run.line[i].start = run.line[i - 1].end
      <4>1. run.line[i].start = run.line[i - 1].end
        BY <1>2, <1>4, <3>2 DEF Spanned
      <4>2. i \in 1..Len(run.line) /\ DOMAIN run.line = 1..Len(run.line)
        BY LineIs
      <4> QED BY <3>2, <4>1, <4>2
    <3>5. run.line[i - 1].end # Open /\ run.line[i - 1].end <= acked
      BY <1>2, <1>4, <3>4 DEF Open
    <3>6. HasEnded(h, w, Programme(state)[i - 1])
      BY <3>4, <3>5, EndHeard
    <3> QED BY <3>1, <3>3, <3>6 DEF JustifiedBy
  <2> QED BY <2>2, <2>3, <2>4, <2>5
<1> QED
  BY <1>1, <1>3, <1>4 DEF Reaching

\* A queue played out has been heard out.
LEMMA PlayedOutHeard ==
  ASSUME NEW state, Proper(state), NEW run, Lined(state, run), run.eof, run.acked = run.sent,
         NEW h, NEW w, <<state.current, state.position>> \in w, Sounded(run, run.acked, h),
         NEW c, Proper(c), c.entries = state.entries, c.current = 0, c.position = 0
  PROVE  JustifiedBy(h, w, c)
<1>1. PICK n : n = Len(Programme(state))
  OBVIOUS
<1>2. /\ Len(run.line) = n /\ run.line[n].end # Open /\ Selected(state)
      /\ n \in Nat /\ DOMAIN run.line = 1..n
  BY <1>1, LineIs DEF Lined
<1>3. n \in 1..n
  <2>1. PICK p : p = PositionOf(state)
    OBVIOUS
  <2>2. p \in 1..Len(state.entries) /\ n = Len(state.entries) - p + 1
    BY <1>1, <1>2, <2>1, ProgrammeIs
  <2> QED BY <1>2, <2>2, EntryIs
<1>4. run.line[n].end <= run.acked /\ run.acked \in 0..run.sent
  <2>1. EndOf(run, n) <= run.sent
    BY <1>2, <1>3, LineIs DEF Spanned
  <2>2. run.acked \in Nat /\ run.sent \in Nat
    BY LineIs
  <2> QED BY <1>2, <2>1, <2>2 DEF EndOf
<1>5. HasEnded(h, w, Programme(state)[n])
  BY <1>2, <1>3, <1>4, EndHeard
<1>6. c.entries[Len(c.entries)] = Programme(state)[n]
  BY <1>1, <1>2, <1>3, EntriesAround
<1> QED
  BY <1>5, <1>6 DEF JustifiedBy

\* An edit keeps what has been heard before the cursor.
LEMMA EditedHeard ==
  ASSUME NEW state, Proper(state), NEW next \in 0..MaxExact,
         Range(state.entries) \subseteq 1..next,
         NEW items \in Edits(state, next), NEW e, e = Edited(state, items, next),
         NEW h, NEW w, JustifiedBy(h, w, state), <<0, 0>> \notin w
  PROVE  JustifiedBy(h, w, e)
<1>0. PICK m \in 1..Len(state.entries) : Rewriting(state, next, e, m)
  BY EditedIs
<1>1. /\ m <= Len(e.entries)
      /\ \A k \in 1..m : e.entries[k] = state.entries[k]
      /\ state.current # 0 => e.current = state.current /\ m = PositionOf(state)
      /\ state.current = 0 =>
           /\ m = Len(state.entries)
           /\ \/ e.entries = state.entries /\ e.current = 0
              \/ m < Len(e.entries) /\ e.current = e.entries[m + 1]
  BY <1>0 DEF Rewriting
<1>2. Proper(e) /\ e.position = state.position
  BY EditedIs
<1>3. m \in Nat /\ m >= 1 /\ m \in 1..m /\ Len(e.entries) \in Nat
      /\ DOMAIN e.entries = 1..Len(e.entries)
  BY <1>1, <1>2, EntryIs
<1>4. CASE state.current # 0
  <2>1. m \in DOMAIN e.entries /\ e.entries[m] = e.current
    BY <1>1, <1>3, <1>4, EntryIs
  <2>2. PositionOf(e) = m /\ PositionOf(state) = m
    BY <1>1, <1>2, <1>4, <2>1, PositionIs DEF Proper
  <2>3. m > 1 => e.entries[m - 1] = state.entries[m - 1]
    BY <1>1, <1>3
  <2> QED BY <1>1, <1>2, <1>4, <2>2, <2>3 DEF JustifiedBy
<1>5. CASE state.current = 0 /\ e.entries = state.entries /\ e.current = 0
  BY <1>2, <1>5, JustifiedAlike
<1>6. CASE state.current = 0 /\ m = Len(state.entries)
           /\ m < Len(e.entries) /\ e.current = e.entries[m + 1]
  <2>1. m + 1 \in DOMAIN e.entries /\ m + 1 - 1 = m /\ m + 1 > 1
    BY <1>3, <1>6
  <2>2. PositionOf(e) = m + 1
    BY <1>2, <1>6, <2>1, PositionIs DEF Proper
  <2>3. e.current # 0
    <3>1. e.entries[m + 1] \in Occurrences
      BY <1>2, <2>1, EntryIs
    <3> QED BY <1>6, <3>1 DEF Occurrences
  <2>4. e.entries[PositionOf(e) - 1] = state.entries[Len(state.entries)]
    BY <1>1, <1>3, <1>6, <2>1, <2>2
  <2>5. state.position = 0
    BY <1>6 DEF Proper
  <2>6. HasEnded(h, w, state.entries[Len(state.entries)])
    BY <1>6, <2>5 DEF JustifiedBy, Reaches
  <2> QED BY <1>2, <2>1, <2>2, <2>3, <2>4, <2>5, <2>6 DEF JustifiedBy
<1> QED
  BY <1>1, <1>4, <1>5, <1>6

(***************************************************************************)
(* What acknowledgements add to what was heard.                            *)
(***************************************************************************)
Adding(tally, tape, a, b) ==
  [o \in Occurrences |-> [f \in 1..Length |->
     tally[o][f] + Cardinality({k \in (a + 1)..b : tape[k] = <<o, f>>})]]

LEMMA HearsIs ==
  ASSUME OnSessions(heard), NEW s \in Sessions, NEW acked, Hears(s, acked)
  PROVE  heard'[s] = Adding(heard[s], stream[s].tape, stream[s].acked, acked)
<1>1. heard' = [heard EXCEPT ![s] = Adding(heard[s], stream[s].tape, stream[s].acked, acked)]
  BY DEF Hears, Adding
<1> QED
  BY <1>1 DEF OnSessions

LEMMA AddingIs ==
  ASSUME NEW tally \in Tally, NEW tape, NEW a \in Nat, NEW b \in Nat,
         \A k \in (a + 1)..b : tape[k] \in Occurrences \X (1..Length),
         NEW sum, sum = Adding(tally, tape, a, b)
  PROVE  /\ sum \in Tally /\ Louder(tally, sum)
         /\ \A o \in Occurrences : \A f \in 1..Length :
              /\ sum[o][f] = tally[o][f] + Cardinality({k \in (a + 1)..b : tape[k] = <<o, f>>})
              /\ Cardinality({k \in (a + 1)..b : tape[k] = <<o, f>>}) \in Nat
         /\ \A k \in (a + 1)..b : sum[tape[k][1]][tape[k][2]] > 0
<1>1. ASSUME NEW o \in Occurrences, NEW f \in 1..Length,
             NEW at, at = {k \in (a + 1)..b : tape[k] = <<o, f>>}
      PROVE  /\ sum[o][f] = tally[o][f] + Cardinality(at) /\ tally[o][f] \in Nat
             /\ Cardinality(at) \in Nat /\ IsFiniteSet(at)
  <2>1. IsFiniteSet((a + 1)..b)
    <3>1. a + 1 \in Int /\ b \in Int
      OBVIOUS
    <3> QED BY <3>1, FS_Interval
  <2>2. at \subseteq (a + 1)..b
    BY <1>1
  <2>3. IsFiniteSet(at) /\ Cardinality(at) \in Nat
    BY <2>1, <2>2, FS_Subset, FS_CardinalityType
  <2> QED BY <1>1, <2>3 DEF Adding, Tally
<1>2. ASSUME NEW o \in Occurrences, NEW f \in 1..Length
      PROVE  /\ sum[o][f] = tally[o][f] + Cardinality({k \in (a + 1)..b : tape[k] = <<o, f>>})
             /\ Cardinality({k \in (a + 1)..b : tape[k] = <<o, f>>}) \in Nat
             /\ sum[o][f] \in Nat /\ tally[o][f] \in Nat
             /\ tally[o][f] > 0 => sum[o][f] > 0
  <2>1. PICK at : at = {k \in (a + 1)..b : tape[k] = <<o, f>>}
    OBVIOUS
  <2>2. /\ sum[o][f] = tally[o][f] + Cardinality(at) /\ tally[o][f] \in Nat
        /\ Cardinality(at) \in Nat
    BY <1>1, <2>1
  <2> QED BY <2>1, <2>2
<1>3. sum \in Tally
  <2>1. sum = [o \in Occurrences |-> sum[o]]
        /\ \A o \in Occurrences : sum[o] = [f \in 1..Length |-> sum[o][f]]
    BY DEF Adding
  <2>2. \A o \in Occurrences : sum[o] \in [1..Length -> Nat]
    BY <1>2, <2>1
  <2> QED BY <2>1, <2>2 DEF Tally
<1>4. ASSUME NEW k \in (a + 1)..b PROVE sum[tape[k][1]][tape[k][2]] > 0
  <2>1. PICK o \in Occurrences, f \in 1..Length : tape[k] = <<o, f>>
    OBVIOUS
  <2>2. PICK at : at = {j \in (a + 1)..b : tape[j] = <<o, f>>}
    OBVIOUS
  <2>3. IsFiniteSet(at) /\ Cardinality(at) \in Nat /\ tally[o][f] \in Nat
        /\ sum[o][f] = tally[o][f] + Cardinality(at)
    BY <1>1, <2>2
  <2>4. at # {}
    BY <2>1, <2>2
  <2>5. Cardinality(at) # 0
    BY <2>3, <2>4, FS_EmptySet
  <2>6. sum[o][f] > 0
    BY <2>3, <2>5
  <2> QED BY <2>1, <2>6
<1> QED
  BY <1>2, <1>3, <1>4 DEF Louder

\* What a session that plays has heard after an acknowledgement.
LEMMA HeardNow ==
  ASSUME OnSessions(heard), NEW s \in Sessions, Sound(s), phase[s] = "playing",
         heard[s] \in Tally, Sounded(stream[s], stream[s].acked, heard[s]),
         NEW acked \in stream[s].acked..stream[s].sent, Hears(s, acked)
  PROVE  /\ heard'[s] \in Tally /\ Louder(heard[s], heard'[s])
         /\ Sounded(stream[s], acked, heard'[s])
<1>1. /\ Lined(snap[s], stream[s]) /\ stream[s].acked \in Nat /\ stream[s].sent \in Nat
  BY PlayingIs
<1>2. PICK a \in Nat : a = stream[s].acked
  BY <1>1
<1>3. acked \in Nat /\ a <= acked /\ acked <= stream[s].sent
  BY <1>1, <1>2
<1>4. PICK tape : tape = stream[s].tape
  OBVIOUS
<1>5. \A k \in 1..acked : tape[k] \in Occurrences \X (1..Length)
  <2>1. tape \in Seq(Occurrences \X (1..Length)) /\ DOMAIN tape = 1..stream[s].sent
    BY <1>1, <1>4, LineIs
  <2>2. ASSUME NEW k \in 1..acked PROVE k \in DOMAIN tape
    BY <1>1, <1>3, <2>1
  <2>3. \A k \in DOMAIN tape : tape[k] \in Occurrences \X (1..Length)
    BY <2>1, ElementOfSeq, LenProperties
  <2> QED BY <2>2, <2>3
<1>6. \A k \in (a + 1)..acked : k \in 1..acked
  BY <1>2, <1>3
<1>7. PICK sum : sum = Adding(heard[s], tape, a, acked)
  OBVIOUS
<1>8. heard'[s] = sum
  BY <1>2, <1>4, <1>7, HearsIs
<1>9. /\ sum \in Tally /\ Louder(heard[s], sum)
      /\ \A k \in (a + 1)..acked : sum[tape[k][1]][tape[k][2]] > 0
  BY <1>3, <1>5, <1>6, <1>7, AddingIs
<1>10. ASSUME NEW k \in 1..acked PROVE sum[tape[k][1]][tape[k][2]] > 0
  <2>1. CASE k > a
    <3>1. k \in (a + 1)..acked
      BY <1>2, <1>3, <2>1
    <3> QED BY <1>9, <3>1
  <2>2. CASE ~(k > a)
    <3>1. k \in 1..a
      BY <1>2, <1>3, <2>2
    <3>2. heard[s][tape[k][1]][tape[k][2]] > 0
      BY <1>2, <1>4, <3>1 DEF Sounded
    <3>3. tape[k][1] \in Occurrences /\ tape[k][2] \in 1..Length
      BY <1>5
    <3> QED BY <1>9, <3>2, <3>3 DEF Louder
  <2> QED BY <2>1, <2>2
<1> QED
  BY <1>4, <1>8, <1>9, <1>10 DEF Sounded
-----------------------------------------------------------------------------
(***************************************************************************)
(* What is stored, and on its way, has been heard.                         *)
(***************************************************************************)
Pledged(s) ==
  /\ \A item \in Writes(s) : JustifiedBy(heard[s], origins[s], item.state)
  /\ \A x \in Copies : x.session = s => JustifiedBy(heard[s], origins[s], x)

Backed(s) ==
  /\ heard[s] \in Tally
  /\ IF Streaming(s)
     THEN /\ Pledged(s)
          /\ phase[s] = "playing" =>
               /\ Sounded(stream[s], stream[s].acked, heard[s])
               /\ <<snap[s].current, snap[s].position>> \in origins[s]
          /\ phase[s] \in {"opening", "waiting", "saving"} =>
               JustifiedBy(heard[s], origins[s], Confirmed(s))
          /\ \/ phase[s] \in {"waiting", "playing", "saving"}
             \/ phase[s] = "opening" /\ Selected(snap[s])
             => <<0, 0>> \notin origins[s]
     ELSE heard[s] = NothingHeard

BackedInv == \A s \in Sessions : Backed(s)

LEMMA NothingIsTally == NothingHeard \in Tally
BY DEF NothingHeard, Tally

LEMMA PledgedGrows ==
  ASSUME NEW s \in Sessions, Sound(s), Filled, Pledged(s), Louder(heard[s], heard'[s]),
         origins[s] \subseteq origins'[s], UNCHANGED store,
         NEW item, Writes(s)' \subseteq Writes(s) \cup {item},
         JustifiedBy(heard'[s], origins'[s], item.state)
  PROVE  Pledged(s)'
<1>1. ASSUME NEW x \in Writes(s) PROVE JustifiedBy(heard'[s], origins'[s], x.state)
  <2>1. Proper(x.state) /\ JustifiedBy(heard[s], origins[s], x.state)
    BY DEF Sound, Pending, Pledged
  <2> QED BY <2>1, JustifiedGrows
<1>2. ASSUME NEW x \in Copies, x.session = s PROVE JustifiedBy(heard'[s], origins'[s], x)
  <2>1. Proper(x)
    BY <1>2, ConstantsAssumption DEF Filled, Blank, NoState
  <2> QED BY <1>2, <2>1, JustifiedGrows DEF Pledged
<1>3. Copies' = Copies
  BY DEF Copies
<1> QED
  BY <1>1, <1>2, <1>3 DEF Pledged

LEMMA PledgedKept ==
  ASSUME NEW s \in Sessions, Pledged(s), heard'[s] = heard[s], origins'[s] = origins[s],
         UNCHANGED store, Writes(s)' \subseteq Writes(s)
  PROVE  Pledged(s)'
BY DEF Pledged, Copies

LEMMA LouderAlike ==
  ASSUME NEW h
  PROVE  Louder(h, h)
BY DEF Louder

LEMMA FinishBacked ==
  ASSUME Shapes, NEW s \in Sessions, Sound(s), Filled, Pledged(s),
         NEW state, NEW fails, Finish(s, state, fails),
         UNCHANGED <<store, queue, writing>>, heard'[s] \in Tally,
         Louder(heard[s], heard'[s]), origins[s] \subseteq origins'[s],
         JustifiedBy(heard'[s], origins'[s], state)
  PROVE  Backed(s)'
<1>1. PICK item : item = [state |-> state, expected |-> state.revision, reply |-> "final"]
  OBVIOUS
<1>2. saving'[s] = {item} /\ phase'[s] = "flushing" /\ item.state = state
  BY <1>1 DEF Finish, Shapes, OnSessions
<1>3. Writes(s)' \subseteq Writes(s) \cup {item}
  BY <1>2 DEF Writes
<1>4. Pledged(s)'
  BY <1>2, <1>3, PledgedGrows
<1> QED
  BY <1>2, <1>4 DEF Backed, Streaming

LEMMA ContinueIs ==
  ASSUME Shapes, NEW s \in Sessions, NEW state \in PlaybackState, NEW undo \in PlaybackState,
         Continue(s, state, undo)
  PROVE  /\ phase'[s] = "saving" /\ stream'[s] = NoStream /\ failed' = failed
         /\ snap'[s].current = state.current /\ snap'[s].position = state.position
         /\ snap'[s].entries = state.entries
         /\ undo = NoState => backup'[s] = NoState
         /\ undo # NoState =>
              /\ backup'[s].current = undo.current /\ backup'[s].position = undo.position
              /\ backup'[s].entries = undo.entries
         /\ \E item : /\ saving'[s] = {item}
                      /\ item.state = IF undo = NoState THEN snap'[s] ELSE backup'[s]
<1>1. PICK next : next = [state EXCEPT !.revision = state.revision + 1, !.at = 0]
  OBVIOUS
<1>2. PICK undone : undone = [undo EXCEPT !.revision = next.revision, !.at = 0]
  OBVIOUS
<1>3. PICK item : item = [state |-> IF undo = NoState THEN next ELSE undone,
                          expected |-> state.revision, reply |-> "control"]
  OBVIOUS
<1>4. /\ snap' = [snap EXCEPT ![s] = next]
      /\ backup' = [backup EXCEPT ![s] = IF undo = NoState THEN NoState ELSE undone]
      /\ stream' = [stream EXCEPT ![s] = NoStream]
      /\ saving' = [saving EXCEPT ![s] = {item}]
      /\ phase' = [phase EXCEPT ![s] = "saving"]
      /\ failed' = failed
  BY <1>1, <1>3, <1>2 DEF Continue
<1>5. /\ snap'[s] = next /\ backup'[s] = (IF undo = NoState THEN NoState ELSE undone)
      /\ stream'[s] = NoStream /\ phase'[s] = "saving"
  BY <1>4 DEF Shapes, OnSessions
<1>6. /\ next.current = state.current /\ next.position = state.position
      /\ next.entries = state.entries
  BY <1>1 DEF PlaybackState
<1>7. /\ undone.current = undo.current /\ undone.position = undo.position
      /\ undone.entries = undo.entries
  BY <1>2 DEF PlaybackState
<1>8. saving'[s] = {item} /\ item.state = IF undo = NoState THEN snap'[s] ELSE backup'[s]
  BY <1>5, <1>3, <1>4 DEF Shapes, OnSessions
<1> QED
  BY <1>5, <1>6, <1>7, <1>8, <1>4

LEMMA ContinueBacked ==
  ASSUME Shapes, NEW s \in Sessions, Sound(s), Filled, Pledged(s),
         NEW state, NEW undo, Proper(state), Blank(undo), Continue(s, state, undo),
         UNCHANGED <<store, queue, writing>>, heard'[s] \in Tally,
         Louder(heard[s], heard'[s]), origins' = origins, <<0, 0>> \notin origins[s],
         JustifiedBy(heard'[s], origins[s], IF undo = NoState THEN state ELSE undo)
  PROVE  Backed(s)'
<1>0. state \in PlaybackState /\ undo \in PlaybackState
  BY NothingTyped DEF Proper, Blank
<1>1. /\ phase'[s] = "saving" /\ stream'[s] = NoStream
      /\ snap'[s].current = state.current /\ snap'[s].position = state.position
      /\ snap'[s].entries = state.entries
      /\ undo = NoState => backup'[s] = NoState
      /\ undo # NoState =>
              /\ backup'[s].current = undo.current /\ backup'[s].position = undo.position
              /\ backup'[s].entries = undo.entries
  BY <1>0, ContinueIs
<1>2. PICK item : /\ saving'[s] = {item}
                  /\ item.state = IF undo = NoState THEN snap'[s] ELSE backup'[s]
  BY <1>0, ContinueIs
<1>3. JustifiedBy(heard'[s], origins[s], item.state)
  BY <1>1, <1>2, JustifiedAlike
<1>4. Confirmed(s)' = item.state
  <2>1. undo # NoState => backup'[s] # NoState
    BY <1>1 DEF Blank, Proper, NoState
  <2> QED BY <1>1, <1>2, <2>1 DEF Confirmed
<1>5. Writes(s)' \subseteq Writes(s) \cup {item}
  BY <1>2 DEF Writes
<1>6. Pledged(s)'
  BY <1>3, <1>5, PledgedGrows
<1> QED
  BY <1>1, <1>3, <1>4, <1>6 DEF Backed, Streaming

LEMMA StartBacked ==
  ASSUME IInv, OlderInv, SoundInv, NEW s \in Sessions, Backed(s), Claim(s)
  PROVE  Backed(s)'
<1>0. Shapes /\ Local(s) /\ Recorded /\ Filled /\ Sound(s) /\ phase[s] = "claiming"
  BY DEF IInv, SoundInv, Claim
<1>1. PICK first : /\ disk' = first /\ archives' = archives /\ snap' = [snap EXCEPT ![s] = first]
                   /\ origins' = [origins EXCEPT ![s] = {<<first.current, first.position>>}]
                   /\ phase' = [phase EXCEPT ![s] = "opening"]
                   /\ UNCHANGED <<backup, stream, heard, saving, queue, writing>>
  BY DEF Claim, writer
<1>2. /\ disk' = first /\ snap'[s] = first
      /\ origins'[s] = {<<first.current, first.position>>} /\ phase'[s] = "opening"
  BY <1>0, <1>1 DEF Shapes, Recorded, OnSessions
<1>3. heard'[s] \in Tally
  BY <1>0, <1>1 DEF Backed
<1>4. backup[s] = NoState /\ Writes(s) = {}
  BY <1>0, ShortQueues DEF Local, Cursor, Owned, Loaded, Writes
<1>5. Writes(s)' = {}
  BY <1>1, <1>4 DEF Writes
<1>6. JustifiedBy(heard'[s], origins'[s], first)
  BY <1>2 DEF JustifiedBy, Reaches
<1>7. Proper(first)
  BY <1>0, <1>2, ClaimSound
<1>8. Confirmed(s)' = first
  BY <1>1, <1>2, <1>4 DEF Confirmed
<1>9. Selected(first) => <<0, 0>> \notin origins'[s]
  <2>1. ASSUME Selected(first) PROVE first.current # 0
    <3>1. first.current \in Occurrences
      BY <1>7, <2>1, ProgrammeIs, EntryIs DEF Selected, Range
    <3> QED BY <3>1 DEF Occurrences
  <2> QED BY <1>2, <2>1
<1>10. \A x \in Copies' : x.session = s => x = first
  BY <1>0, <1>1 DEF OlderInv, Older, Early, Copies
<1> QED
  BY <1>2, <1>3, <1>5, <1>6, <1>8, <1>9, <1>10 DEF Backed, Pledged, Streaming

LEMMA SilentBacked ==
  ASSUME IInv, Recorded, NEW s \in Sessions, Backed(s),
         \/ Acquire(s) \/ ReadProfile(s) \/ GiveUp(s) \/ Release(s) \/ ReleaseLate(s)
         \/ Flushed(s) \/ Defer(s)
  PROVE  Backed(s)'
<1>0. Shapes
  BY DEF IInv
<1>1. /\ phase'[s] \in {"reading", "claiming", "closed", "draining", "deferred"}
      /\ heard'[s] \in {heard[s], NothingHeard}
      /\ heard'[s] # NothingHeard => ~Streaming(s)
  BY <1>0 DEF Acquire, ReadProfile, GiveUp, Release, ReleaseLate, Flushed, Defer, Forget,
              HandOver, Shapes, Recorded, OnSessions, own, Streaming
<1>2. ~Streaming(s)'
  BY <1>1 DEF Streaming
<1>3. heard'[s] = NothingHeard
  BY <1>1 DEF Backed
<1> QED
  BY <1>2, <1>3, NothingIsTally DEF Backed

LEMMA PreparedBacked ==
  ASSUME IInv, Recorded, Filled, NEW s \in Sessions, Sound(s), Backed(s),
         Begin(s) \/ Format(s) \/ ControlSaved(s)
  PROVE  Backed(s)'
<1>0. Shapes
  BY DEF IInv
<1>1. UNCHANGED <<store, snap, backup, heard, saving, queue, writing>>
  BY DEF Begin, Format, ControlSaved, writer, own
<1>2. Writes(s)' = Writes(s) /\ Confirmed(s)' = Confirmed(s)
  BY <1>1 DEF Writes, Confirmed
<1>3. CASE Begin(s)
  <2>1. /\ phase[s] = "opening" /\ phase'[s] = "waiting" /\ Selected(snap[s])
        /\ origins' = origins
    BY <1>0, <1>3 DEF Begin, Shapes, OnSessions
  <2>2. Pledged(s) /\ JustifiedBy(heard[s], origins[s], Confirmed(s))
        /\ <<0, 0>> \notin origins[s] /\ heard[s] \in Tally
    BY <2>1 DEF Backed, Streaming
  <2>3. Pledged(s)'
    BY <1>1, <1>2, <2>1, <2>2, PledgedKept
  <2> QED BY <1>1, <1>2, <2>1, <2>2, <2>3 DEF Backed, Streaming
<1>4. CASE ControlSaved(s)
  <2>1. /\ phase[s] = "saving" /\ phase'[s] = "opening" /\ origins' = origins
    BY <1>0, <1>4 DEF ControlSaved, Shapes, OnSessions, own
  <2>2. Pledged(s) /\ JustifiedBy(heard[s], origins[s], Confirmed(s))
        /\ <<0, 0>> \notin origins[s] /\ heard[s] \in Tally
    BY <2>1 DEF Backed, Streaming
  <2>3. Pledged(s)'
    BY <1>1, <1>2, <2>1, <2>2, PledgedKept
  <2> QED BY <1>1, <1>2, <2>1, <2>2, <2>3 DEF Backed, Streaming
<1>5. CASE Format(s)
  <2>1. /\ phase[s] = "waiting" /\ phase'[s] = "playing" /\ stream' = stream
        /\ origins'[s] = origins[s] \cup {<<snap[s].current, snap[s].position>>}
    BY <1>0, <1>5 DEF Format, Shapes, Recorded, OnSessions
  <2>2. Pledged(s) /\ heard[s] \in Tally /\ <<0, 0>> \notin origins[s]
    BY <2>1 DEF Backed, Streaming
  <2>3. snap[s].current # 0
    <3>1. Proper(snap[s]) /\ Selected(snap[s])
      BY <2>1 DEF Sound, Cursors, Loaded
    <3>2. snap[s].current \in Occurrences
      BY <3>1, EntryIs DEF Selected, Range
    <3> QED BY <3>2 DEF Occurrences
  <2>4. Pledged(s)'
    <3>1. ASSUME NEW item \in Writes(s)
          PROVE  JustifiedBy(heard'[s], origins'[s], item.state)
      <4>1. Proper(item.state) /\ JustifiedBy(heard[s], origins[s], item.state)
        BY <2>2 DEF Sound, Pending, Pledged
      <4> QED BY <1>1, <2>1, <4>1, LouderAlike, JustifiedGrows
    <3>2. ASSUME NEW x \in Copies, x.session = s
          PROVE  JustifiedBy(heard'[s], origins'[s], x)
      <4>1. Proper(x) /\ JustifiedBy(heard[s], origins[s], x)
        BY <2>2, <3>2, ConstantsAssumption DEF Filled, Blank, NoState, Pledged
      <4> QED BY <1>1, <2>1, <4>1, LouderAlike, JustifiedGrows
    <3>3. Copies' = Copies
      BY <1>1 DEF Copies
    <3> QED BY <1>1, <1>2, <3>1, <3>2, <3>3 DEF Pledged
  <2>5. Sounded(stream'[s], stream'[s].acked, heard'[s])
    <3>1. stream'[s].acked = 0
      BY <2>1 DEF Sound, Cursors, NoStream
    <3> QED BY <3>1 DEF Sounded
  <2> QED BY <1>1, <2>1, <2>2, <2>3, <2>4, <2>5 DEF Backed, Streaming
<1> QED
  BY <1>3, <1>4, <1>5

LEMMA BrokenOffBacked ==
  ASSUME IInv, Recorded, Filled, NEW s \in Sessions, Sound(s), Backed(s),
         DoNotBegin(s) \/ NoFormat(s) \/ ControlNotSaved(s)
  PROVE  Backed(s)'
<1>0. Shapes /\ phase[s] \in {"opening", "waiting", "saving"}
  BY DEF IInv, DoNotBegin, NoFormat, ControlNotSaved
<1>1. PICK state : state = Confirmed(s)
  OBVIOUS
<1>2. \E fails : Finish(s, state, fails)
  BY <1>1 DEF DoNotBegin, NoFormat, ControlNotSaved
<1>3. PICK fails : Finish(s, state, fails)
  BY <1>2
<1>4. UNCHANGED <<store, queue, writing, heard, origins>>
  BY DEF DoNotBegin, NoFormat, ControlNotSaved
<1>5. /\ heard[s] \in Tally /\ Pledged(s) /\ JustifiedBy(heard[s], origins[s], state)
  BY <1>0, <1>1 DEF Backed, Streaming
<1>6. /\ heard'[s] \in Tally /\ Louder(heard[s], heard'[s]) /\ origins[s] \subseteq origins'[s]
      /\ JustifiedBy(heard'[s], origins'[s], state)
  BY <1>4, <1>5, LouderAlike
<1> QED
  BY <1>0, <1>3, <1>4, <1>5, <1>6, FinishBacked

LEMMA StreamBacked ==
  ASSUME IInv, NEW s \in Sessions, Sound(s), Backed(s),
         SendTrack(s) \/ SendAudio(s) \/ SendTrackEnd(s) \/ SendEof(s)
  PROVE  Backed(s)'
<1>1. /\ phase[s] = "playing" /\ stream'[s].acked = stream[s].acked
      /\ \A k \in 1..stream[s].acked : stream'[s].tape[k] = stream[s].tape[k]
      /\ UNCHANGED <<store, phase, snap, heard, origins, saving, queue, writing>>
  BY StreamStep
<1>2. /\ heard[s] \in Tally /\ Pledged(s) /\ Sounded(stream[s], stream[s].acked, heard[s])
      /\ <<snap[s].current, snap[s].position>> \in origins[s] /\ <<0, 0>> \notin origins[s]
  BY <1>1 DEF Backed, Streaming
<1>3. Writes(s)' = Writes(s)
  BY <1>1 DEF Writes
<1>4. Pledged(s)'
  BY <1>1, <1>2, <1>3, PledgedKept
<1>5. Sounded(stream'[s], stream'[s].acked, heard'[s])
  BY <1>1, <1>2 DEF Sounded
<1> QED
  BY <1>1, <1>2, <1>4, <1>5 DEF Backed, Streaming

\* What a session that plays knows of what was heard, at an acknowledgement.
LEMMA PlayingBacked ==
  ASSUME OnSessions(heard), NEW s \in Sessions, Sound(s), Backed(s), phase[s] = "playing"
  PROVE  /\ heard[s] \in Tally /\ Pledged(s)
         /\ Sounded(stream[s], stream[s].acked, heard[s])
         /\ <<snap[s].current, snap[s].position>> \in origins[s] /\ <<0, 0>> \notin origins[s]
BY DEF Backed, Streaming

LEMMA CursorBacked ==
  ASSUME OnSessions(heard), NEW s \in Sessions, Sound(s), Backed(s), phase[s] = "playing",
         NEW acked \in stream[s].acked..stream[s].sent,
         NEW h, Sounded(stream[s], acked, h),
         NEW c, c = AtCursor(snap[s], stream[s].line, acked)
  PROVE  Proper(c) /\ c.entries = snap[s].entries /\ JustifiedBy(h, origins[s], c)
<1>1. Proper(snap[s]) /\ Lined(snap[s], stream[s]) /\ acked \in 0..stream[s].sent
  BY PlayingIs
<1>2. Proper(c) /\ c.entries = snap[s].entries /\ Reaching(snap[s], stream[s], acked, c)
  BY <1>1, CursorSound
<1>3. <<snap[s].current, snap[s].position>> \in origins[s]
  BY PlayingBacked
<1> QED
  BY <1>1, <1>2, <1>3, CursorHeard

LEMMA AcknowledgeBacked ==
  ASSUME IInv, Recorded, Filled, NEW s \in Sessions, Sound(s), Backed(s), Acknowledge(s)
  PROVE  Backed(s)'
<1>0. phase[s] = "playing" /\ OnSessions(heard)
  BY DEF Acknowledge, Recorded
<1>1. UNCHANGED <<store, phase, snap, origins>>
  BY DEF Acknowledge
<1>2. PICK acked, item :
           /\ acked \in (stream[s].acked + 1)..stream[s].sent
           /\ Hears(s, acked) /\ stream'[s].acked = acked
           /\ stream'[s].tape = stream[s].tape
           /\ item = [state |-> AtCursor(snap[s], stream[s].line, acked),
                      expected |-> snap[s].revision, reply |-> "none"]
           /\ Writes(s)' \subseteq Writes(s) \cup {item}
  BY AcknowledgeStep
<1>3. /\ heard[s] \in Tally /\ Pledged(s) /\ Sounded(stream[s], stream[s].acked, heard[s])
      /\ <<snap[s].current, snap[s].position>> \in origins[s] /\ <<0, 0>> \notin origins[s]
  BY <1>0, PlayingBacked
<1>4. acked \in stream[s].acked..stream[s].sent
  BY <1>0, <1>2, PlayingIs
<1>5. /\ heard'[s] \in Tally /\ Louder(heard[s], heard'[s]) /\ Sounded(stream[s], acked, heard'[s])
  BY <1>0, <1>2, <1>3, <1>4, HeardNow
<1>6. PICK c : c = AtCursor(snap[s], stream[s].line, acked)
  OBVIOUS
<1>7. item.state = c /\ JustifiedBy(heard'[s], origins'[s], c)
  BY <1>0, <1>1, <1>2, <1>4, <1>5, <1>6, CursorBacked
<1>8. Pledged(s)'
  BY <1>1, <1>2, <1>3, <1>5, <1>7, PledgedGrows
<1>9. Sounded(stream'[s], stream'[s].acked, heard'[s])
  BY <1>2, <1>5 DEF Sounded
<1> QED
  BY <1>0, <1>1, <1>3, <1>5, <1>8, <1>9 DEF Backed, Streaming

LEMMA EndedBacked ==
  ASSUME IInv, Recorded, Filled, NEW s \in Sessions, Sound(s), Backed(s),
         Stop(s) \/ PlayedOut(s) \/ Interrupted(s)
  PROVE  Backed(s)'
<1>0. Shapes /\ phase[s] = "playing" /\ OnSessions(heard)
  BY DEF IInv, Stop, PlayedOut, Interrupted, Recorded
<1>1. /\ heard[s] \in Tally /\ Pledged(s) /\ Sounded(stream[s], stream[s].acked, heard[s])
      /\ <<snap[s].current, snap[s].position>> \in origins[s]
  BY <1>0, PlayingBacked
<1>2. ASSUME NEW acked, NEW state, NEW fails, Halt(s, acked, state, fails),
             heard'[s] \in Tally, Louder(heard[s], heard'[s]),
             JustifiedBy(heard'[s], origins[s], state)
      PROVE  Backed(s)'
  <2>1. /\ UNCHANGED <<store, origins, queue, writing>>
        /\ \E flag : Finish(s, state, flag)
    BY <1>2 DEF Halt
  <2>2. PICK flag : Finish(s, state, flag)
    BY <2>1
  <2>3. origins[s] \subseteq origins'[s] /\ JustifiedBy(heard'[s], origins'[s], state)
    BY <1>2, <2>1
  <2> QED BY <1>0, <1>1, <1>2, <2>1, <2>2, <2>3, FinishBacked
<1>3. CASE Stop(s)
  <2>1. PICK acked \in stream[s].acked..stream[s].sent, fails \in BOOLEAN :
          /\ Hears(s, acked)
          /\ Halt(s, acked, AtCursor(snap[s], stream[s].line, acked), fails)
    BY <1>3 DEF Stop
  <2>2. /\ heard'[s] \in Tally /\ Louder(heard[s], heard'[s])
        /\ Sounded(stream[s], acked, heard'[s])
    BY <1>0, <1>1, <2>1, HeardNow
  <2>3. PICK c : c = AtCursor(snap[s], stream[s].line, acked)
    OBVIOUS
  <2>4. JustifiedBy(heard'[s], origins[s], c)
    BY <1>0, <2>2, <2>3, CursorBacked
  <2> QED BY <1>2, <2>1, <2>2, <2>3, <2>4
<1>4. CASE Interrupted(s)
  <2>1. PICK acked \in stream[s].acked..stream[s].sent : acked = stream[s].acked
    BY <1>0, PlayingIs
  <2>2. PICK c : c = AtCursor(snap[s], stream[s].line, acked)
    OBVIOUS
  <2>3. heard' = heard /\ \E fails \in BOOLEAN : Halt(s, acked, c, fails)
    BY <1>4, <2>1, <2>2 DEF Interrupted
  <2>4. JustifiedBy(heard'[s], origins[s], c)
    BY <1>0, <1>1, <2>1, <2>2, <2>3, CursorBacked
  <2> QED BY <1>1, <1>2, <2>3, <2>4, LouderAlike
<1>5. CASE PlayedOut(s)
  <2>1. PICK acked \in stream[s].acked..stream[s].sent : acked = stream[s].acked
    BY <1>0, PlayingIs
  <2>2. PICK c : c = AtCursor(snap[s], stream[s].line, acked)
    OBVIOUS
  <2>3. Proper(c) /\ c.entries = snap[s].entries
    BY <1>0, <1>1, <2>1, <2>2, CursorBacked
  <2>4. PICK nothing : nothing = 0
    OBVIOUS
  <2>5. PICK state : state = [c EXCEPT !.current = nothing, !.position = nothing]
    OBVIOUS
  <2>6. /\ state \in PlaybackState /\ state.current = 0 /\ state.position = 0
        /\ state.entries = c.entries
    <3>1. nothing \in 0..MaxExact /\ nothing \in Nat
      BY <2>4, ConstantsAssumption
    <3>2. c \in PlaybackState
      BY <2>3 DEF Proper
    <3> QED BY <2>4, <2>5, <3>1, <3>2 DEF PlaybackState
  <2>7. Proper(state)
    BY <2>3, <2>6 DEF Proper
  <2>8. /\ heard' = heard /\ stream[s].eof /\ stream[s].acked = stream[s].sent
        /\ Halt(s, acked, state, FALSE)
    BY <1>5, <2>1, <2>2, <2>4, <2>5 DEF PlayedOut
  <2>9. Proper(snap[s]) /\ Lined(snap[s], stream[s])
    BY <1>0, PlayingIs
  <2>10. JustifiedBy(heard[s], origins[s], state)
    BY <1>1, <2>3, <2>6, <2>7, <2>8, <2>9, PlayedOutHeard
  <2> QED BY <1>1, <1>2, <2>8, <2>10, LouderAlike
<1> QED
  BY <1>3, <1>4, <1>5

LEMMA SeekBacked ==
  ASSUME IInv, Recorded, Filled, NEW s \in Sessions, Sound(s), Backed(s), Seek(s)
  PROVE  Backed(s)'
<1>0. Shapes /\ phase[s] = "playing" /\ OnSessions(heard)
  BY DEF IInv, Seek, Recorded
<1>1. /\ heard[s] \in Tally /\ Pledged(s) /\ Sounded(stream[s], stream[s].acked, heard[s])
      /\ <<0, 0>> \notin origins[s]
  BY <1>0, PlayingBacked
<1>2. UNCHANGED <<store, queue, writing, origins>>
  BY DEF Seek
<1>3. PICK acked \in stream[s].acked..stream[s].sent, target \in Targets :
          LET reached == AtCursor(snap[s], stream[s].line, acked)
          IN /\ reached.current # 0 /\ Hears(s, acked)
             /\ \/ Continue(s, [reached EXCEPT !.position = target], reached)
                \/ Finish(s, reached, TRUE)
  BY DEF Seek
<1>4. PICK reached : reached = AtCursor(snap[s], stream[s].line, acked)
  OBVIOUS
<1>5. PICK state : state = [reached EXCEPT !.position = target]
  OBVIOUS
<1>6. /\ heard'[s] \in Tally /\ Louder(heard[s], heard'[s]) /\ Sounded(stream[s], acked, heard'[s])
  BY <1>0, <1>1, <1>3, HeardNow
<1>7. Proper(reached) /\ JustifiedBy(heard'[s], origins[s], reached)
  BY <1>0, <1>4, <1>6, CursorBacked
<1>8. Proper(state)
  <2>1. target \in Nat /\ reached \in PlaybackState
    BY <1>7, ConstantsAssumption DEF Proper
  <2>2. /\ state \in PlaybackState /\ state.entries = reached.entries
        /\ state.current = reached.current
    BY <1>5, <2>1 DEF PlaybackState
  <2> QED BY <1>3, <1>4, <1>7, <2>2 DEF Proper, Selected
<1>9. CASE Continue(s, state, reached)
  <2>1. reached # NoState /\ Blank(reached)
    BY <1>7 DEF Proper, NoState, Blank
  <2> QED BY <1>0, <1>1, <1>2, <1>6, <1>7, <1>8, <1>9, <2>1, ContinueBacked
<1>10. CASE Finish(s, reached, TRUE)
  <2>1. PICK fails : Finish(s, reached, fails)
    BY <1>10
  <2>2. origins[s] \subseteq origins'[s] /\ JustifiedBy(heard'[s], origins'[s], reached)
    BY <1>2, <1>7
  <2> QED BY <1>0, <1>1, <1>2, <1>6, <2>1, <2>2, FinishBacked
<1> QED
  BY <1>3, <1>4, <1>5, <1>9, <1>10

LEMMA EditBacked ==
  ASSUME IInv, Recorded, Filled, NEW s \in Sessions, Sound(s), Backed(s), Edit(s)
  PROVE  Backed(s)'
<1>0. Shapes /\ phase[s] = "playing" /\ OnSessions(heard)
  BY DEF IInv, Edit, Recorded
<1>1. /\ heard[s] \in Tally /\ Pledged(s) /\ Sounded(stream[s], stream[s].acked, heard[s])
      /\ <<0, 0>> \notin origins[s]
  BY <1>0, PlayingBacked
<1>2. UNCHANGED <<store, queue, writing, origins>>
  BY DEF Edit
<1>3. PICK acked \in stream[s].acked..stream[s].sent :
          LET reached == AtCursor(snap[s], stream[s].line, acked)
          IN /\ Hears(s, acked)
             /\ \E items \in Edits(reached, counts[s].next) :
                   LET edited == Edited(reached, items, counts[s].next)
                   IN Continue(s, edited, NoState) \/ Finish(s, edited, TRUE)
  BY DEF Edit
<1>4. PICK reached : reached = AtCursor(snap[s], stream[s].line, acked)
  OBVIOUS
<1>5. PICK items, edited, undo :
          /\ items \in Edits(reached, counts[s].next)
          /\ edited = Edited(reached, items, counts[s].next) /\ undo = NoState
          /\ Continue(s, edited, undo) \/ Finish(s, edited, TRUE)
  BY <1>3, <1>4
<1>6. /\ heard'[s] \in Tally /\ Louder(heard[s], heard'[s]) /\ Sounded(stream[s], acked, heard'[s])
  BY <1>0, <1>1, <1>3, HeardNow
<1>7. Proper(reached) /\ JustifiedBy(heard'[s], origins[s], reached)
      /\ reached.entries = snap[s].entries
  BY <1>0, <1>4, <1>6, CursorBacked
<1>8. counts[s].next \in 0..MaxExact /\ Range(reached.entries) \subseteq 1..counts[s].next
  BY <1>0, <1>7, PlayingIs DEF Counting
<1>9. Proper(edited)
  BY <1>5, <1>7, <1>8, EditedIs
<1>10. JustifiedBy(heard'[s], origins[s], edited)
  BY <1>1, <1>5, <1>7, <1>8, EditedHeard
<1>11. CASE Continue(s, edited, undo)
  BY <1>0, <1>1, <1>2, <1>5, <1>6, <1>9, <1>10, <1>11, ContinueBacked DEF Blank
<1>12. CASE Finish(s, edited, TRUE)
  <2>1. PICK fails : Finish(s, edited, fails)
    BY <1>12
  <2>2. origins[s] \subseteq origins'[s] /\ JustifiedBy(heard'[s], origins'[s], edited)
    BY <1>2, <1>10
  <2> QED BY <1>0, <1>1, <1>2, <1>6, <2>1, <2>2, FinishBacked
<1> QED
  BY <1>5, <1>11, <1>12

LEMMA WrittenBacked ==
  ASSUME IInv, NEW s \in Sessions, Backed(s), SendSave(s) \/ Write(s)
  PROVE  Backed(s)'
<1>0. Shapes
  BY DEF IInv
<1>1. UNCHANGED <<phase, snap, backup, stream, heard, origins>>
  BY DEF SendSave, Write, Take, Publish, DoNotPublish, own
<1>2. Confirmed(s)' = Confirmed(s)
  BY <1>1 DEF Confirmed
<1>3. /\ Writes(s)' \subseteq Writes(s)
      /\ archives' = archives
      /\ disk' = disk \/ \E item \in Writes(s) : disk' = item.state
  <2>1. CASE SendSave(s)
    <3>1. PICK item \in saving[s] : queue' = [queue EXCEPT ![s] = <<item>>]
      BY <2>1 DEF SendSave
    <3>2. queue'[s] = <<item>> /\ saving'[s] = {} /\ UNCHANGED <<writing, store>>
      BY <1>0, <2>1, <3>1 DEF SendSave, Shapes, OnSessions
    <3>3. Range(<<item>>) = {item}
      BY ShortQueues
    <3> QED BY <3>2, <3>3 DEF Writes
  <2>2. CASE Take(s)
    <3>1. queue[s] = <<>> \/ \E item : queue[s] = <<item>>
      BY DEF IInv, Local, Owned, Chain
    <3>2. PICK item : queue[s] = <<item>>
      BY <2>2, <3>1 DEF Take
    <3>3. /\ queue'[s] = <<>> /\ writing'[s] = {item} /\ UNCHANGED <<saving, store>>
      BY <1>0, <2>2, <3>2, ShortQueues DEF Take, Shapes, OnSessions
    <3>4. Range(<<item>>) = {item} /\ Range(<<>>) = {}
      BY ShortQueues
    <3> QED BY <3>2, <3>3, <3>4 DEF Writes
  <2>3. CASE Publish(s) \/ DoNotPublish(s)
    <3>1. writing'[s] = {} /\ UNCHANGED <<saving, queue>>
      BY <1>0, <2>3 DEF Publish, DoNotPublish, Shapes, OnSessions
    <3>2. /\ archives' = archives
          /\ disk' = disk \/ \E item \in writing[s] : disk' = item.state
      BY <2>3 DEF Publish, DoNotPublish
    <3> QED BY <3>1, <3>2 DEF Writes
  <2> QED BY <2>1, <2>2, <2>3 DEF Write
<1>4. Pledged(s) => Pledged(s)'
  BY <1>1, <1>3 DEF Pledged, Copies
<1> QED
  BY <1>1, <1>2, <1>4 DEF Backed, Streaming

LEMMA OthersKeepBacked ==
  ASSUME IInv, NEW s \in Sessions, NEW t \in Sessions, t # s, Backed(t), Same(t), SameRecord(t),
         UNCHANGED store \/ Held(s)
  PROVE  Backed(t)'
<1>1. Streaming(t) => Copies' = Copies
  <2>1. Streaming(t) => Held(t)
    BY DEF Streaming, Held
  <2>2. Held(t) => lease = t
    BY DEF IInv, Local, Owned
  <2>3. Held(s) => lease = s
    BY DEF IInv, Local, Owned
  <2> QED BY <2>1, <2>2, <2>3 DEF Copies
<1>2. Writes(t)' = Writes(t) /\ Confirmed(t)' = Confirmed(t)
  BY DEF Same, Writes, Confirmed
<1>3. Streaming(t) /\ Pledged(t) => Pledged(t)'
  BY <1>1, <1>2 DEF Pledged, SameRecord
<1> QED
  BY <1>2, <1>3 DEF Backed, Streaming, Same, SameRecord

LEMMA DiskMoves ==
  ASSUME IInv, NEW s \in Sessions, Acquire(s) \/ Advance(s) \/ SendSave(s) \/ Write(s)
  PROVE  UNCHANGED store \/ Held(s)
<1>1. CASE Claim(s)
  BY <1>1, ClaimLocal
<1>2. CASE Publish(s) \/ DoNotPublish(s)
  BY <1>2, PublishLocal
<1>3. CASE ~Claim(s) /\ ~(Publish(s) \/ DoNotPublish(s))
  <2>1. Acquire(s) \/ Advance(s) \/ SendSave(s) \/ Take(s)
    BY <1>3 DEF Write
  <2> QED BY <1>3, <2>1, QuietStep
<1> QED
  BY <1>1, <1>2, <1>3

LEMMA SessionBacked ==
  ASSUME IInv, OlderInv, SoundInv, NEW s \in Sessions, Backed(s),
         Acquire(s) \/ Advance(s) \/ SendSave(s) \/ Write(s)
  PROVE  Backed(s)'
<1>0. Recorded /\ Filled /\ Sound(s)
  BY DEF SoundInv
<1>1. CASE \/ Acquire(s) \/ ReadProfile(s) \/ GiveUp(s) \/ Release(s) \/ ReleaseLate(s)
           \/ Flushed(s) \/ Defer(s)
  BY <1>0, <1>1, SilentBacked
<1>2. CASE Claim(s)
  BY <1>0, <1>2, StartBacked
<1>3. CASE Begin(s) \/ Format(s) \/ ControlSaved(s)
  BY <1>0, <1>3, PreparedBacked
<1>4. CASE DoNotBegin(s) \/ NoFormat(s) \/ ControlNotSaved(s)
  BY <1>0, <1>4, BrokenOffBacked
<1>5. CASE SendTrack(s) \/ SendAudio(s) \/ SendTrackEnd(s) \/ SendEof(s)
  BY <1>0, <1>5, StreamBacked
<1>6. CASE Acknowledge(s)
  BY <1>0, <1>6, AcknowledgeBacked
<1>7. CASE Seek(s) \/ Edit(s)
  BY <1>0, <1>7, SeekBacked, EditBacked
<1>8. CASE Stop(s) \/ PlayedOut(s) \/ Interrupted(s)
  BY <1>0, <1>8, EndedBacked
<1>9. CASE SendSave(s) \/ Write(s)
  BY <1>9, WrittenBacked
<1> QED
  BY <1>1, <1>2, <1>3, <1>4, <1>5, <1>6, <1>7, <1>8, <1>9 DEF Advance

LEMMA QuietBacked ==
  ASSUME BackedInv, \A x \in Copies' : x \in Copies \/ x.session \notin Sessions,
         UNCHANGED <<lease, phase, prior, snap, backup, stream, listens, counts, late, heard,
                     origins, failed, saving, reply, queue, writing>>
  PROVE  BackedInv'
<1>1. ASSUME NEW s \in Sessions PROVE Backed(s)'
  <2>1. Writes(s)' = Writes(s) /\ Confirmed(s)' = Confirmed(s)
    BY DEF Writes, Confirmed
  <2>2. Pledged(s) => Pledged(s)'
    BY <2>1 DEF Pledged
  <2> QED BY <2>1, <2>2 DEF BackedInv, Backed, Streaming
<1> QED
  BY <1>1 DEF BackedInv

LEMMA StepBacked == IInv /\ OlderInv /\ SoundInv /\ BackedInv /\ [Next]_vars => BackedInv'
<1> SUFFICES ASSUME IInv, OlderInv, SoundInv, BackedInv, [Next]_vars PROVE BackedInv'
  OBVIOUS
<1>1. ASSUME NEW s \in Sessions, Acquire(s) \/ Advance(s) \/ SendSave(s) \/ Write(s)
      PROVE  BackedInv'
  <2>1. Backed(s)'
    BY <1>1, SessionBacked DEF BackedInv
  <2>2. \A t \in Sessions : t # s => Same(t)
    BY <1>1, AdvanceAlone, WriteAlone DEF IInv, Alone
  <2>3. \A t \in Sessions : t # s => SameRecord(t)
    BY <1>1, RecordAlone DEF SoundInv
  <2>4. UNCHANGED store \/ Held(s)
    BY <1>1, DiskMoves
  <2>5. ASSUME NEW t \in Sessions PROVE Backed(t)'
    BY <2>1, <2>2, <2>3, <2>4, OthersKeepBacked DEF BackedInv
  <2> QED BY <2>5 DEF BackedInv
<1>2. CASE Crash
  <2>1. ASSUME NEW s \in Sessions PROVE Backed(s)'
    <3>1. phase'[s] \in {"idle", "closed"} /\ heard'[s] = NothingHeard
      BY <1>2 DEF Crash
    <3>2. ~Streaming(s)'
      BY <3>1 DEF Streaming
    <3> QED BY <3>1, <3>2, NothingIsTally DEF Backed
  <2> QED BY <2>1 DEF BackedInv
<1>3. CASE BackUp \/ Restore
  BY <1>3, CopiesGrow, QuietBacked DEF BackUp, Restore, own, writer
<1>4. CASE UNCHANGED vars
  <2>1. Copies' = Copies
    BY <1>4 DEF vars, Copies
  <2> QED BY <1>4, <2>1, QuietBacked DEF vars, own, writer
<1> QED
  BY <1>1, <1>2, <1>3, <1>4 DEF Next

LEMMA BackedInvHolds == Spec => []BackedInv
<1>1. Init => BackedInv
  <2>1. ASSUME Init, NEW s \in Sessions PROVE Backed(s)
    <3>1. phase[s] = "idle" /\ heard[s] = NothingHeard
      BY <2>1 DEF Init
    <3> QED BY <3>1, NothingIsTally DEF Backed, Streaming
  <2> QED BY <2>1 DEF BackedInv
<1> QED
  BY <1>1, StepBacked, SessionInvariant, OlderHolds, DataInvariant, PTL DEF Spec

\* CheckpointWasHeard: a stored cursor, and every cursor on its way to the
\* store, is one the session started from or had confirmed by the decoder, or
\* ends at a frame the client acknowledged, or follows a track it heard to the
\* end - whatever seeks failed, edits cut and checkpoints queued meanwhile.
THEOREM CheckpointsWereHeard == Spec => []CheckpointWasHeard
<1>1. BackedInv => CheckpointWasHeard
  BY JustifiedIs DEF BackedInv, Backed, Pledged, Copies, CheckpointWasHeard
<1> QED
  BY <1>1, BackedInvHolds, PTL

(***************************************************************************)
(* Sums of what was heard.                                                 *)
(***************************************************************************)
\* The partial sums of a count, as Total computes them.
Summing(sums, count, last) ==
  sums = [f \in 0..last |-> IF f = 0 THEN 0 ELSE sums[f - 1] + count[f]]

LEMMA SumsExist ==
  ASSUME NEW count, NEW last \in Nat
  PROVE  \E sums : Summing(sums, count, last)
<1> DEFINE T == {n \in Nat : \E sums : Summing(sums, count, n)}
<1>1. 0 \in T
  <2>1. PICK sums : sums = [f \in 0..0 |-> 0]
    OBVIOUS
  <2>2. Summing(sums, count, 0)
    BY <2>1 DEF Summing
  <2> QED BY <2>2
<1>2. ASSUME NEW n \in Nat, n \in T PROVE n + 1 \in T
  <2>1. PICK sums : sums = [f \in 0..n |-> IF f = 0 THEN 0 ELSE sums[f - 1] + count[f]]
    BY <1>2 DEF Summing
  <2>2. PICK more : more = [f \in 0..(n + 1) |-> IF f = n + 1 THEN sums[n] + count[f] ELSE sums[f]]
    OBVIOUS
  <2>3. ASSUME NEW f \in 0..(n + 1)
        PROVE  more[f] = IF f = 0 THEN 0 ELSE more[f - 1] + count[f]
    <3>1. CASE f = n + 1
      BY <2>2, <3>1
    <3>2. CASE f # n + 1
      BY <2>1, <2>2, <3>2
    <3> QED BY <3>1, <3>2
  <2>4. more = [f \in 0..(n + 1) |-> IF f = 0 THEN 0 ELSE more[f - 1] + count[f]]
    BY <2>2, <2>3
  <2>5. Summing(more, count, n + 1)
    BY <2>4 DEF Summing
  <2> QED BY <2>5
<1>3. Nat \subseteq T
  <2> HIDE DEF T
  <2> QED BY <1>1, <1>2, SetInduction
<1> QED BY <1>3

LEMMA TotalIs ==
  ASSUME NEW count
  PROVE  \E sums : /\ Total(count) = sums[Length] /\ sums[0] = 0
                   /\ \A n \in Nat : n < Length => sums[n + 1] = sums[n] + count[n + 1]
<1>0. Length \in Nat
  BY ConstantsAssumption
<1> DEFINE sums == CHOOSE g : g = [f \in 0..Length |-> IF f = 0 THEN 0 ELSE g[f - 1] + count[f]]
<1>1. sums = [f \in 0..Length |-> IF f = 0 THEN 0 ELSE sums[f - 1] + count[f]]
  BY <1>0, SumsExist DEF Summing
<1>2. Total(count) = sums[Length]
  BY DEF Total
<1> HIDE DEF sums
<1>3. sums[0] = 0
  BY <1>0, <1>1
<1>4. ASSUME NEW n \in Nat, n < Length PROVE sums[n + 1] = sums[n] + count[n + 1]
  <2>1. n + 1 \in 0..Length /\ n + 1 # 0 /\ n + 1 - 1 = n
    BY <1>0, <1>4
  <2>2. \A f \in 0..Length : sums[f] = IF f = 0 THEN 0 ELSE sums[f - 1] + count[f]
    BY <1>1
  <2>3. sums[n + 1] = IF n + 1 = 0 THEN 0 ELSE sums[n + 1 - 1] + count[n + 1]
    BY <2>1, <2>2
  <2> QED BY <2>1, <2>3
<1> QED BY <1>2, <1>3, <1>4

LEMMA Apart ==
  ASSUME NEW S, NEW T, IsFiniteSet(S), IsFiniteSet(T), S \cap T = {}
  PROVE  /\ Cardinality(S \cup T) = Cardinality(S) + Cardinality(T)
         /\ Cardinality(S) \in Nat /\ Cardinality(T) \in Nat
<1>1. Cardinality(S) \in Nat /\ Cardinality(T) \in Nat
  BY FS_CardinalityType
<1>2. Cardinality(S \cup T) = Cardinality(S) + Cardinality(T) - Cardinality({})
  BY FS_Union
<1> QED BY <1>1, <1>2, FS_EmptySet

\* Where a tape sounds a frame of an occurrence.
Sounding(tape, a, b, o, f) == {k \in (a + 1)..b : tape[k] = <<o, f>>}
Typed(tape, a, b) == \A k \in (a + 1)..b : tape[k] \in Occurrences \X (1..Length)
SoundingOf(tape, a, b, o) == {k \in (a + 1)..b : tape[k][1] = o}

LEMMA AddingAt ==
  ASSUME NEW tally \in Tally, NEW tape, NEW a \in Nat, NEW b \in Nat,
         NEW sum, sum = Adding(tally, tape, a, b), NEW o \in Occurrences, NEW f \in 1..Length
  PROVE  /\ sum[o][f] = tally[o][f] + Cardinality(Sounding(tape, a, b, o, f))
         /\ tally[o][f] \in Nat
         /\ IsFiniteSet(Sounding(tape, a, b, o, f))
         /\ Cardinality(Sounding(tape, a, b, o, f)) \in Nat
<1>1. IsFiniteSet((a + 1)..b)
  <2>1. a + 1 \in Int /\ b \in Int
    OBVIOUS
  <2> QED BY <2>1, FS_Interval
<1>2. PICK at : at = {k \in (a + 1)..b : tape[k] = <<o, f>>}
  OBVIOUS
<1>3. at \subseteq (a + 1)..b
  BY <1>2
<1>4. IsFiniteSet(at) /\ Cardinality(at) \in Nat
  BY <1>1, <1>3, FS_Subset, FS_CardinalityType
<1>5. sum[o][f] = tally[o][f] + Cardinality(at) /\ tally[o][f] \in Nat
  BY <1>2 DEF Adding, Tally
<1> QED BY <1>2, <1>4, <1>5 DEF Sounding

LEMMA TotalAdding ==
  ASSUME NEW tally \in Tally, NEW tape, NEW a \in Nat, NEW b \in Nat,
         Typed(tape, a, b), NEW sum, sum = Adding(tally, tape, a, b), NEW o \in Occurrences
  PROVE  /\ Total(tally[o]) \in Nat /\ Cardinality(SoundingOf(tape, a, b, o)) \in Nat
         /\ Total(sum[o]) = Total(tally[o]) + Cardinality(SoundingOf(tape, a, b, o))
<1> DEFINE Upto(n) == {k \in (a + 1)..b : tape[k][1] = o /\ tape[k][2] <= n}
           Exactly(n) == Sounding(tape, a, b, o, n)
<1>0. Length \in Nat
  BY ConstantsAssumption
<1>1. PICK g : /\ Total(tally[o]) = g[Length] /\ g[0] = 0
               /\ \A n \in Nat : n < Length => g[n + 1] = g[n] + tally[o][n + 1]
  BY TotalIs
<1>2. PICK h : /\ Total(sum[o]) = h[Length] /\ h[0] = 0
               /\ \A n \in Nat : n < Length => h[n + 1] = h[n] + sum[o][n + 1]
  BY TotalIs
<1>3. ASSUME NEW f \in 1..Length
      PROVE  /\ sum[o][f] = tally[o][f] + Cardinality(Exactly(f)) /\ tally[o][f] \in Nat
             /\ Cardinality(Exactly(f)) \in Nat
  BY AddingAt
<1>4. IsFiniteSet((a + 1)..b)
  <2>1. a + 1 \in Int /\ b \in Int
    OBVIOUS
  <2> QED BY <2>1, FS_Interval
<1>5. \A n : IsFiniteSet(Upto(n)) /\ IsFiniteSet(Exactly(n)) /\ Cardinality(Upto(n)) \in Nat
  <2>1. \A n : Upto(n) \in SUBSET ((a + 1)..b) /\ Exactly(n) \in SUBSET ((a + 1)..b)
    BY DEF Sounding
  <2> HIDE DEF Upto, Exactly
  <2> QED BY <1>4, <2>1, FS_Subset, FS_CardinalityType
<1>6. \A k \in (a + 1)..b : tape[k][2] \in 1..Length /\ tape[k] = <<tape[k][1], tape[k][2]>>
  BY DEF Typed
<1>7. ASSUME NEW n \in Nat
      PROVE  Upto(n + 1) = Upto(n) \cup Exactly(n + 1) /\ Upto(n) \cap Exactly(n + 1) = {}
  <2>1. \A k \in (a + 1)..b : tape[k][2] <= n + 1 <=> tape[k][2] <= n \/ tape[k][2] = n + 1
    BY <1>0, <1>6
  <2>2. \A k \in (a + 1)..b : tape[k] = <<o, n + 1>> <=> tape[k][1] = o /\ tape[k][2] = n + 1
    BY <1>6
  <2>3. \A k \in (a + 1)..b : tape[k][2] = n + 1 => ~(tape[k][2] <= n)
    BY <1>0, <1>6
  <2> QED BY <2>1, <2>2, <2>3 DEF Sounding
<1>8. Upto(0) = {} /\ Upto(Length) = SoundingOf(tape, a, b, o)
  BY <1>0, <1>6 DEF SoundingOf
<1> HIDE DEF Upto, Exactly
<1> DEFINE T == {n \in Nat : n <= Length => g[n] \in Nat /\ h[n] = g[n] + Cardinality(Upto(n))}
<1>9. 0 \in T
  <2>1. Cardinality(Upto(0)) = 0
    BY <1>8, FS_EmptySet
  <2> QED BY <1>1, <1>2, <2>1
<1>10. ASSUME NEW n \in Nat, n \in T PROVE n + 1 \in T
  <2>1. SUFFICES ASSUME n + 1 <= Length
                 PROVE  g[n + 1] \in Nat /\ h[n + 1] = g[n + 1] + Cardinality(Upto(n + 1))
    OBVIOUS
  <2>2. n < Length /\ n <= Length /\ n + 1 \in 1..Length
    BY <1>0, <2>1
  <2>3. g[n] \in Nat /\ h[n] = g[n] + Cardinality(Upto(n))
    BY <1>10, <2>2
  <2>4. g[n + 1] = g[n] + tally[o][n + 1] /\ h[n + 1] = h[n] + sum[o][n + 1]
    BY <1>1, <1>2, <2>2
  <2>5. /\ sum[o][n + 1] = tally[o][n + 1] + Cardinality(Exactly(n + 1))
        /\ tally[o][n + 1] \in Nat /\ Cardinality(Exactly(n + 1)) \in Nat
    BY <1>3, <2>2
  <2>6. /\ Cardinality(Upto(n + 1)) = Cardinality(Upto(n)) + Cardinality(Exactly(n + 1))
        /\ Cardinality(Upto(n)) \in Nat
    BY <1>5, <1>7, Apart
  <2> QED BY <2>3, <2>4, <2>5, <2>6
<1>11. Length \in T
  <2>1. Nat \subseteq T
    <3> HIDE DEF T
    <3> QED BY <1>9, <1>10, SetInduction
  <2> QED BY <1>0, <2>1
<1>12. g[Length] \in Nat /\ h[Length] = g[Length] + Cardinality(Upto(Length))
  BY <1>0, <1>11
<1> QED BY <1>1, <1>2, <1>5, <1>8, <1>12

\* What was heard of an occurrence is a number, and nothing before the first frame.
LEMMA TotalIsNat ==
  ASSUME NEW tally \in Tally, NEW o \in Occurrences
  PROVE  Total(tally[o]) \in Nat
<1>1. PICK tape : tape = <<>>
  OBVIOUS
<1>2. PICK n \in Nat : n = 0
  OBVIOUS
<1>3. Typed(tape, n, n)
  BY <1>2 DEF Typed
<1>4. PICK sum : sum = Adding(tally, tape, n, n)
  OBVIOUS
<1> QED BY <1>3, <1>4, TotalAdding

LEMMA NothingTotal ==
  ASSUME NEW o \in Occurrences
  PROVE  Total(NothingHeard[o]) = 0
<1>0. Length \in Nat /\ NothingHeard[o] = [f \in 1..Length |-> 0]
  BY ConstantsAssumption DEF NothingHeard
<1>1. PICK g : /\ Total(NothingHeard[o]) = g[Length] /\ g[0] = 0
               /\ \A n \in Nat : n < Length => g[n + 1] = g[n] + NothingHeard[o][n + 1]
  BY TotalIs
<1> DEFINE T == {n \in Nat : n <= Length => g[n] = 0}
<1>2. 0 \in T
  BY <1>1
<1>3. ASSUME NEW n \in Nat, n \in T PROVE n + 1 \in T
  <2>1. SUFFICES ASSUME n + 1 <= Length PROVE g[n + 1] = 0
    OBVIOUS
  <2>2. n < Length /\ n <= Length /\ n + 1 \in 1..Length
    BY <1>0, <2>1
  <2>3. NothingHeard[o][n + 1] = 0
    BY <1>0, <2>2
  <2>4. g[n] = 0
    BY <1>3, <2>2
  <2> QED BY <1>1, <2>2, <2>3, <2>4
<1>4. Nat \subseteq T
  <2> HIDE DEF T
  <2> QED BY <1>2, <1>3, SetInduction
<1>5. Length \in T
  BY <1>0, <1>4
<1>6. g[Length] = 0
  BY <1>0, <1>5
<1> QED BY <1>1, <1>6

(***************************************************************************)
(* What an epoch adds to the frames of an occurrence.                      *)
(***************************************************************************)
Share(run, acked, o) == {k \in 1..acked : run.tape[k][1] = o}

\* A frame of the tape is a frame of the track whose span holds it.
LEMMA FrameAt ==
  ASSUME NEW state, Proper(state), NEW run, Lined(state, run), NEW k \in 1..run.sent
  PROVE  \E i \in DOMAIN run.line :
           /\ i \in 1..Len(Programme(state)) /\ run.line[i].start \in Nat /\ EndOf(run, i) \in Nat
           /\ run.line[i].start < k /\ k <= EndOf(run, i)
           /\ run.tape[k][1] = Programme(state)[i]
<1>1. PICK i \in DOMAIN run.line : run.line[i].start < k /\ k <= EndOf(run, i)
  BY DEF Lined
<1>2. /\ i \in 1..Len(Programme(state)) /\ run.line[i].start \in Nat /\ EndOf(run, i) \in Nat
      /\ Spanned(state, run, i)
  BY SpansAre
<1>3. k \in (run.line[i].start + 1)..EndOf(run, i)
  BY <1>1, <1>2
<1>4. run.tape[k] = <<Programme(state)[i],
                      Length - FramesOf(state, i) + (k - run.line[i].start)>>
  BY <1>2, <1>3 DEF Spanned
<1> QED BY <1>1, <1>2, <1>4

LEMMA ShareIs ==
  ASSUME NEW state, Proper(state), NEW run, Lined(state, run), NEW acked \in 0..run.sent,
         NEW i \in DOMAIN run.line, NEW reach \in Nat,
         reach = (IF acked < EndOf(run, i) THEN acked ELSE EndOf(run, i))
  PROVE  Share(run, acked, Programme(state)[i]) = (run.line[i].start + 1)..reach
<1>0. Selected(state)
  BY DEF Lined
<1>1. /\ i \in 1..Len(Programme(state)) /\ run.line[i].start \in Nat /\ EndOf(run, i) \in Nat
      /\ run.sent \in Nat /\ Spanned(state, run, i)
  BY SpansAre
<1>2. Distinct(Programme(state)) /\ DOMAIN Programme(state) = 1..Len(Programme(state))
  BY <1>0, ProgrammeIs, LenProperties
<1>3. ASSUME NEW k \in 1..acked, run.tape[k][1] = Programme(state)[i]
      PROVE  k \in (run.line[i].start + 1)..reach
  <2>1. k \in 1..run.sent
    BY <1>1
  <2>2. PICK j \in DOMAIN run.line :
           /\ j \in 1..Len(Programme(state)) /\ run.line[j].start < k /\ k <= EndOf(run, j)
           /\ run.tape[k][1] = Programme(state)[j]
    BY <2>1, FrameAt
  <2>3. j = i
    BY <1>1, <1>2, <1>3, <2>2 DEF Distinct
  <2>4. run.line[i].start < k /\ k <= EndOf(run, i)
    BY <2>2, <2>3
  <2> QED BY <1>1, <2>4
<1>4. ASSUME NEW k \in (run.line[i].start + 1)..reach
      PROVE  k \in 1..acked /\ run.tape[k][1] = Programme(state)[i]
  <2>1. k \in 1..acked /\ k \in (run.line[i].start + 1)..EndOf(run, i)
    BY <1>1
  <2>2. run.tape[k] = <<Programme(state)[i],
                        Length - FramesOf(state, i) + (k - run.line[i].start)>>
    BY <1>1, <2>1 DEF Spanned
  <2> QED BY <2>1, <2>2
<1> QED BY <1>3, <1>4 DEF Share

\* Of a track that was listened to, the epoch adds the frames consumed; of an
\* occurrence that was not, it adds none.
LEMMA SharesAre ==
  ASSUME NEW s \in Sessions, Proper(snap[s]), Lined(snap[s], stream[s]),
         NEW acked \in 0..stream[s].sent, NEW o \in Occurrences
  PROVE  /\ \A i \in Listened(s, acked) : Programme(snap[s])[i] = o =>
              Cardinality(Share(stream[s], acked, o)) = Consumed(stream[s].line[i], acked)
         /\ (\A i \in Listened(s, acked) : Programme(snap[s])[i] # o) =>
              Cardinality(Share(stream[s], acked, o)) = 0
<1>1. ASSUME NEW i \in Listened(s, acked), Programme(snap[s])[i] = o
      PROVE  Cardinality(Share(stream[s], acked, o)) = Consumed(stream[s].line[i], acked)
  <2>0. i \in DOMAIN stream[s].line
    BY DEF Listened
  <2>1. /\ stream[s].line[i].start \in Nat /\ EndOf(stream[s], i) \in Nat /\ stream[s].sent \in Nat
    BY <2>0, SpansAre
  <2>2. PICK start \in Nat, end \in Nat :
          start = stream[s].line[i].start /\ end = EndOf(stream[s], i)
    BY <2>1
  <2>3. start < acked /\ start < end /\ acked \in Nat
    BY <1>1, <2>0, <2>1, <2>2, ConsumedIs
  <2>4. PICK reach \in Nat : reach = (IF acked < end THEN acked ELSE end)
    BY <2>3
  <2>5. Consumed(stream[s].line[i], acked) = reach - start
    <3>1. stream[s].line[i].start <= acked
      BY <2>2, <2>3
    <3>2. Consumed(stream[s].line[i], acked)
            = (IF acked < EndOf(stream[s], i) THEN acked ELSE EndOf(stream[s], i))
                - stream[s].line[i].start
      BY <2>0, <3>1, ConsumedIs
    <3> QED BY <2>2, <2>4, <3>2
  <2>6. Share(stream[s], acked, o) = (start + 1)..reach
    BY <1>1, <2>0, <2>2, <2>4, ShareIs
  <2>7. start + 1 \in Int /\ reach \in Int /\ ~(start + 1 > reach)
    BY <2>3, <2>4
  <2>8. Cardinality((start + 1)..reach) = reach - (start + 1) + 1
    BY <2>7, FS_Interval
  <2> QED BY <2>4, <2>5, <2>6, <2>8
<1>2. ASSUME \A i \in Listened(s, acked) : Programme(snap[s])[i] # o
      PROVE  Cardinality(Share(stream[s], acked, o)) = 0
  <2>1. ASSUME NEW k \in Share(stream[s], acked, o) PROVE FALSE
    <3>1. stream[s].sent \in Nat
      BY LineIs
    <3>2. k \in 1..acked /\ k \in 1..stream[s].sent /\ stream[s].tape[k][1] = o
      BY <2>1, <3>1 DEF Share
    <3>3. PICK i \in DOMAIN stream[s].line :
            /\ stream[s].line[i].start \in Nat /\ EndOf(stream[s], i) \in Nat
            /\ stream[s].line[i].start < k /\ k <= EndOf(stream[s], i)
            /\ stream[s].tape[k][1] = Programme(snap[s])[i]
      BY <3>2, FrameAt, SMTT(30)
    <3>4. stream[s].line[i].start < acked /\ stream[s].line[i].start < EndOf(stream[s], i)
      BY <3>1, <3>2, <3>3
    <3>5. i \in Listened(s, acked)
      BY <3>4, ConsumedIs
    <3> QED BY <1>2, <3>2, <3>3, <3>5
  <2>2. Share(stream[s], acked, o) = {}
    BY <2>1
  <2> QED BY <2>2, FS_EmptySet
<1> QED BY <1>1, <1>2

-----------------------------------------------------------------------------
Frames(visits, o) == IF o \in DOMAIN visits THEN visits[o].frames ELSE 0

\* What was heard of every occurrence is in its visit, or in the epoch.
Booked(h, visits, run, acked) ==
  \A o \in Occurrences :
    Total(h[o]) = Frames(visits, o) + Cardinality(Share(run, acked, o))

\* After an epoch, it is in the visits, as far as there is room for them.
LEMMA VisitsBooked ==
  ASSUME NEW s \in Sessions, Proper(snap[s]), Lined(snap[s], stream[s]),
         listens[s] \in Listening, NEW acked \in 0..stream[s].sent,
         NEW h, Booked(h, listens[s].visits, stream[s], acked),
         NEW visits, visits = Visits(s, acked), NEW o \in Occurrences
  PROVE  /\ o \in DOMAIN visits => visits[o].frames = Total(h[o])
         /\ o \notin DOMAIN visits /\ ~TooManyVisits(s, acked) => Total(h[o]) = 0
<1>0. PICK old : old = listens[s].visits
  OBVIOUS
<1>1. /\ DOMAIN visits = DOMAIN old \cup {Programme(snap[s])[i] : i \in Kept(s, acked)}
      /\ Kept(s, acked) \subseteq Listened(s, acked)
      /\ \A i \in Kept(s, acked) : visits[Programme(snap[s])[i]] = VisitOf(s, acked, i)
      /\ \A p \in DOMAIN old :
           (\A i \in Kept(s, acked) : Programme(snap[s])[i] # p) => visits[p] = old[p]
  <2>1. /\ DOMAIN visits = DOMAIN listens[s].visits
                           \cup {Programme(snap[s])[i] : i \in Kept(s, acked)}
        /\ Kept(s, acked) \subseteq Listened(s, acked)
        /\ \A i \in Kept(s, acked) : visits[Programme(snap[s])[i]] = VisitOf(s, acked, i)
        /\ \A p \in DOMAIN listens[s].visits :
             (\A i \in Kept(s, acked) : Programme(snap[s])[i] # p)
               => visits[p] = listens[s].visits[p]
    BY VisitsAre, SMTT(30)
  <2> QED BY <1>0, <2>1, Zenon
<1>2. Total(h[o]) = Frames(old, o) + Cardinality(Share(stream[s], acked, o))
  BY <1>0 DEF Booked
<1>3. old \in [DOMAIN old -> Visit] /\ Frames(old, o) \in Nat
  <2>1. old \in [DOMAIN old -> Visit]
    BY <1>0, VisitedIs DEF Listening
  <2>2. o \in DOMAIN old => old[o] \in Visit
    BY <2>1
  <2> QED BY <2>1, <2>2 DEF Frames, Visit
<1>4. CASE \E i \in Kept(s, acked) : Programme(snap[s])[i] = o
  <2>1. PICK i \in Kept(s, acked) : Programme(snap[s])[i] = o
    BY <1>4
  <2>2. i \in Listened(s, acked) /\ i \in DOMAIN stream[s].line
    BY <1>1, <2>1 DEF Listened
  <2>3. Consumed(stream[s].line[i], acked) \in Nat
    BY <2>2, ConsumedIs
  <2>4. visits[o].frames = Consumed(stream[s].line[i], acked) + Frames(old, o)
    <3>1. PICK visit : visit = VisitOf(s, acked, i)
      OBVIOUS
    <3>2. visits[o] = visit
      BY <1>1, <2>1, <3>1
    <3>3. visit.frames = Consumed(stream[s].line[i], acked)
             + (IF o \in DOMAIN listens[s].visits THEN listens[s].visits[o].frames ELSE 0)
      BY <2>1, <2>2, <3>1, VisitIs
    <3> QED BY <1>0, <3>2, <3>3 DEF Frames
  <2>5. Cardinality(Share(stream[s], acked, o)) = Consumed(stream[s].line[i], acked)
    BY <2>1, <2>2, SharesAre
  <2>6. o \in DOMAIN visits
    BY <1>1, <2>1
  <2> QED BY <1>2, <1>3, <2>3, <2>4, <2>5, <2>6
<1>5. CASE ~(\E i \in Kept(s, acked) : Programme(snap[s])[i] = o) /\ o \in DOMAIN visits
  <2>1. o \in DOMAIN old /\ visits[o] = old[o]
    BY <1>1, <1>5
  <2>2. ASSUME NEW i \in Listened(s, acked) PROVE Programme(snap[s])[i] # o
    <3>1. SUFFICES ASSUME Programme(snap[s])[i] = o PROVE FALSE
      OBVIOUS
    <3>2. i \notin NewVisits(s, acked)
      BY <1>0, <2>1, <3>1 DEF NewVisits
    <3>3. i \in Kept(s, acked)
      BY <3>2 DEF Kept
    <3> QED BY <1>5, <3>1, <3>3
  <2>3. Cardinality(Share(stream[s], acked, o)) = 0
    BY <2>2, SharesAre
  <2>4. Frames(old, o) = visits[o].frames
    BY <2>1 DEF Frames
  <2> QED BY <1>2, <1>3, <1>5, <2>3, <2>4
<1>6. CASE o \notin DOMAIN visits /\ ~TooManyVisits(s, acked)
  <2>1. Kept(s, acked) = Listened(s, acked) /\ o \notin DOMAIN old
    BY <1>1, <1>6 DEF TooManyVisits
  <2>2. \A i \in Listened(s, acked) : Programme(snap[s])[i] # o
    BY <1>1, <1>6, <2>1
  <2>3. Cardinality(Share(stream[s], acked, o)) = 0 /\ Frames(old, o) = 0
    BY <2>1, <2>2, SharesAre DEF Frames
  <2> QED BY <1>2, <1>6, <2>3
<1> QED BY <1>4, <1>5, <1>6

(***************************************************************************)
(* Completed listens.                                                      *)
(***************************************************************************)
UpTo(h, o, n) == \A f \in 1..Length : f <= n => h[o][f] > 0
Whole(h, o) == \A f \in 1..Length : h[o][f] > 0

\* A completed visit was heard as a whole.
Honest(h, visits) == \A o \in DOMAIN visits : visits[o].completed => Whole(h, o)

\* A visit that goes on where it was has been heard as far as the cursor.
Resumed(h, visits, moved, state) ==
  \A o \in DOMAIN visits :
    o = state.current /\ ~visits[o].moved /\ o \notin moved => UpTo(h, o, From(state))

LEMMA UpToGrows ==
  ASSUME NEW h, NEW g, Louder(h, g), NEW o \in Occurrences, NEW n
  PROVE  /\ UpTo(h, o, n) => UpTo(g, o, n)
         /\ Whole(h, o) => Whole(g, o)
BY DEF Louder, UpTo, Whole

\* A frame of a track is heard when the acknowledgement reaches it.
LEMMA HeardFrame ==
  ASSUME NEW state, Proper(state), NEW run, Lined(state, run), NEW acked \in 0..run.sent,
         NEW h, Sounded(run, acked, h), NEW i \in DOMAIN run.line,
         NEW f \in 1..Length, NEW before, before = Length - FramesOf(state, i), before < f,
         f - before <= acked - run.line[i].start, f - before <= EndOf(run, i) - run.line[i].start
  PROVE  h[Programme(state)[i]][f] > 0
<1>1. /\ i \in 1..Len(Programme(state)) /\ run.line[i].start \in Nat /\ EndOf(run, i) \in Nat
      /\ run.sent \in Nat /\ Spanned(state, run, i)
  BY SpansAre
<1>2. before \in Nat /\ Length \in Nat
  <2>1. From(state) <= Length /\ i \in Nat
    BY <1>1 DEF Lined
  <2>2. FramesOf(state, i) \in 0..Length
    BY <2>1, FramesAre
  <2> QED BY <2>2, ConstantsAssumption
<1>3. PICK start \in Nat, end \in Nat : start = run.line[i].start /\ end = EndOf(run, i)
  BY <1>1
<1>4. f \in Nat /\ acked \in Nat /\ acked <= run.sent
  BY <1>1, <1>2
<1>5. PICK k \in Nat : k = start + (f - before)
  BY <1>2, <1>3, <1>4
<1>6. k - start = f - before /\ k > start /\ k <= acked /\ k <= end
  BY <1>2, <1>3, <1>4, <1>5
<1>7. k \in 1..acked /\ k \in (start + 1)..end
  BY <1>3, <1>4, <1>6
<1>8. run.tape[k] = <<Programme(state)[i], Length - FramesOf(state, i) + (k - start)>>
  BY <1>1, <1>3, <1>7 DEF Spanned
<1>9. Length - FramesOf(state, i) + (k - start) = f
  BY <1>2, <1>4, <1>6
<1>10. h[run.tape[k][1]][run.tape[k][2]] > 0
  BY <1>7 DEF Sounded
<1> QED BY <1>8, <1>9, <1>10

LEMMA FirstTrack ==
  ASSUME NEW s \in Sessions, Proper(snap[s]), Lined(snap[s], stream[s]),
         NEW i \in DOMAIN stream[s].line, NEW j \in DOMAIN stream[s].line,
         Programme(snap[s])[i] = Programme(snap[s])[j]
  PROVE  i = j
<1>1. Selected(snap[s])
  BY DEF Lined
<1>2. i \in 1..Len(Programme(snap[s])) /\ j \in 1..Len(Programme(snap[s]))
  BY SpansAre
<1>3. Distinct(Programme(snap[s])) /\ DOMAIN Programme(snap[s]) = 1..Len(Programme(snap[s]))
  BY <1>1, ProgrammeIs, LenProperties
<1> QED BY <1>2, <1>3 DEF Distinct

\* The visit of an epoch's first track goes on from what was heard before it.
LEMMA Unbroken ==
  ASSUME NEW s \in Sessions, Proper(snap[s]), Lined(snap[s], stream[s]),
         listens[s] \in Listening, NEW acked \in 0..stream[s].sent,
         NEW h, NEW g, Louder(h, g), Resumed(h, listens[s].visits, listens[s].moved, snap[s]),
         NEW visits, visits = Visits(s, acked), 1 \in DOMAIN stream[s].line,
         NEW o, o = Programme(snap[s])[1], o \in DOMAIN visits, ~visits[o].moved,
         o \notin listens[s].moved
  PROVE  UpTo(g, o, From(snap[s]))
<1>0. PICK old : old = listens[s].visits
  OBVIOUS
<1>1. /\ DOMAIN visits = DOMAIN old \cup {Programme(snap[s])[i] : i \in Kept(s, acked)}
      /\ Kept(s, acked) \subseteq Listened(s, acked)
      /\ \A i \in Kept(s, acked) : visits[Programme(snap[s])[i]] = VisitOf(s, acked, i)
      /\ \A p \in DOMAIN old :
           (\A i \in Kept(s, acked) : Programme(snap[s])[i] # p) => visits[p] = old[p]
  BY <1>0, VisitsAre
<1>2. Selected(snap[s])
  BY DEF Lined
<1>3. o \in Occurrences /\ o = snap[s].current
  <2>1. 1 \in 1..Len(Programme(snap[s]))
    BY SpansAre
  <2> QED BY <1>2, <2>1, ProgrammeIs
<1>4. ASSUME o \in DOMAIN old, ~old[o].moved PROVE UpTo(g, o, From(snap[s]))
  <2>1. UpTo(h, o, From(snap[s]))
    BY <1>0, <1>3, <1>4 DEF Resumed
  <2> QED BY <1>3, <2>1, UpToGrows
<1>5. CASE 1 \in Kept(s, acked)
  <2>1. PICK visit : visit = VisitOf(s, acked, 1)
    OBVIOUS
  <2>2. visits[o] = visit /\ 1 \in Listened(s, acked)
    BY <1>1, <1>5, <2>1
  <2>3. visit.moved <=>
           \/ o \in listens[s].moved
           \/ o \in DOMAIN listens[s].visits /\ listens[s].visits[o].moved
           \/ o \notin DOMAIN listens[s].visits /\ 1 = 1 /\ snap[s].position > 0
    BY <2>1, <2>2, VisitIs
  <2>4. o \in DOMAIN old => ~old[o].moved
    BY <1>0, <2>2, <2>3
  <2>5. CASE o \notin DOMAIN old
    <3>1. snap[s].position \in Nat
      BY DEF Proper, PlaybackState
    <3>2. snap[s].position = 0
      BY <1>0, <2>2, <2>3, <2>5, <3>1
    <3>3. From(snap[s]) = 0 /\ Length \in Nat
      BY <3>1, <3>2, FromIsNat, ConstantsAssumption
    <3> QED BY <3>3 DEF UpTo
  <2> QED BY <1>4, <2>4, <2>5
<1>6. CASE 1 \notin Kept(s, acked)
  <2>1. \A i \in Kept(s, acked) : Programme(snap[s])[i] # o
    <3>1. SUFFICES ASSUME NEW i \in Kept(s, acked), Programme(snap[s])[i] = o PROVE FALSE
      OBVIOUS
    <3>2. i \in DOMAIN stream[s].line
      BY <1>1, <3>1 DEF Listened
    <3>3. i = 1
      BY <3>1, <3>2, FirstTrack
    <3> QED BY <1>6, <3>1, <3>3
  <2>2. o \in DOMAIN old /\ visits[o] = old[o]
    BY <1>1, <2>1
  <2> QED BY <1>4, <2>2
<1> QED BY <1>5, <1>6

-----------------------------------------------------------------------------
\* After an epoch, what counts as completed was heard as a whole.
LEMMA VisitsHonest ==
  ASSUME NEW s \in Sessions, Proper(snap[s]), Lined(snap[s], stream[s]),
         listens[s] \in Listening, NEW acked \in 0..stream[s].sent,
         NEW h, NEW g, Louder(h, g), Honest(h, listens[s].visits),
         Resumed(h, listens[s].visits, listens[s].moved, snap[s]),
         Sounded(stream[s], acked, g), NEW visits, visits = Visits(s, acked)
  PROVE  Honest(g, visits)
<1>0. /\ DOMAIN visits = DOMAIN listens[s].visits
                           \cup {Programme(snap[s])[i] : i \in Kept(s, acked)}
      /\ Kept(s, acked) \subseteq Listened(s, acked)
      /\ \A i \in Kept(s, acked) : visits[Programme(snap[s])[i]] = VisitOf(s, acked, i)
      /\ \A p \in DOMAIN listens[s].visits :
           (\A i \in Kept(s, acked) : Programme(snap[s])[i] # p) =>
              visits[p] = listens[s].visits[p]
  BY VisitsAre
<1>1. PICK old :
        /\ old = listens[s].visits
        /\ DOMAIN visits = DOMAIN old \cup {Programme(snap[s])[i] : i \in Kept(s, acked)}
        /\ Kept(s, acked) \subseteq Listened(s, acked)
        /\ \A i \in Kept(s, acked) : visits[Programme(snap[s])[i]] = VisitOf(s, acked, i)
        /\ \A p \in DOMAIN old :
             (\A i \in Kept(s, acked) : Programme(snap[s])[i] # p) => visits[p] = old[p]
  BY <1>0
<1>2. DOMAIN old \subseteq Occurrences
  BY <1>1, VisitedIs DEF Listening
<1>3. ASSUME NEW i \in Kept(s, acked), NEW o, o = Programme(snap[s])[i], visits[o].completed
      PROVE  Whole(g, o)
  <2>1. i \in Listened(s, acked) /\ i \in DOMAIN stream[s].line
    BY <1>1 DEF Listened
  <2>2. PICK visit : visit = VisitOf(s, acked, i)
    OBVIOUS
  <2>3. visits[o] = visit
    BY <1>1, <1>3, <2>2
  <2>4. o \in Occurrences /\ ~visit.moved /\ o \notin listens[s].moved
        /\ stream[s].line[i].end # Open /\ stream[s].line[i].end <= acked
    BY <1>3, <2>1, <2>2, <2>3, VisitIs
  <2>5. /\ i \in 1..Len(Programme(snap[s])) /\ stream[s].line[i].start \in Nat
        /\ EndOf(stream[s], i) \in Nat /\ stream[s].sent \in Nat
        /\ Spanned(snap[s], stream[s], i)
    BY <2>1, SpansAre
  <2>6. From(snap[s]) <= Length /\ i \in Nat /\ Length \in Nat
    BY <2>5, ConstantsAssumption DEF Lined
  <2>7. PICK frames \in 0..Length, from \in Nat :
          /\ frames = FramesOf(snap[s], i) /\ from = From(snap[s])
          /\ frames = Length - (IF i = 1 THEN from ELSE 0)
    BY <2>6, FramesAre
  <2>8. PICK start \in Nat, end \in Nat :
          start = stream[s].line[i].start /\ end = stream[s].line[i].end
          /\ end = EndOf(stream[s], i)
    BY <2>4, <2>5 DEF EndOf
  <2>9. end = start + frames /\ end <= acked /\ acked \in Nat
    BY <2>4, <2>5, <2>7, <2>8 DEF Spanned
  <2>10. ASSUME NEW f \in 1..Length PROVE g[o][f] > 0
    <3>1. CASE Length - frames < f
      <4>1. PICK before \in Nat : before = Length - frames
        BY <2>6, <2>7
      <4>2. f - before <= acked - start /\ f - before <= end - start
        BY <2>6, <2>7, <2>8, <2>9, <4>1
      <4> QED BY <1>3, <2>1, <2>7, <2>8, <3>1, <4>1, <4>2, HeardFrame
    <3>2. CASE ~(Length - frames < f)
      <4>1. i = 1 /\ f <= from
        BY <2>6, <2>7, <3>2
      <4>2. o \in DOMAIN visits /\ ~visits[o].moved
        BY <1>1, <1>3, <2>3, <2>4
      <4>3. UpTo(g, o, From(snap[s]))
        BY <1>3, <2>1, <2>4, <4>1, <4>2, Unbroken
      <4> QED BY <2>7, <4>1, <4>3 DEF UpTo
    <3> QED BY <3>1, <3>2
  <2> QED BY <2>10 DEF Whole
<1>4. ASSUME NEW o \in DOMAIN visits, visits[o].completed PROVE Whole(g, o)
  <2>1. CASE \E i \in Kept(s, acked) : Programme(snap[s])[i] = o
    BY <1>3, <1>4, <2>1
  <2>2. CASE ~(\E i \in Kept(s, acked) : Programme(snap[s])[i] = o)
    <3>1. o \in DOMAIN old /\ visits[o] = old[o] /\ o \in Occurrences
      BY <1>1, <1>2, <2>2
    <3>2. Whole(h, o)
      BY <1>1, <1>4, <3>1 DEF Honest
    <3> QED BY <3>1, <3>2, UpToGrows
  <2> QED BY <2>1, <2>2
<1> QED BY <1>4 DEF Honest

\* The cursor after an epoch: its track was heard that far, or was moved.
LEMMA VisitsResumed ==
  ASSUME NEW s \in Sessions, Proper(snap[s]), Lined(snap[s], stream[s]),
         listens[s] \in Listening, NEW acked \in 0..stream[s].sent,
         NEW h, NEW g, Louder(h, g),
         Resumed(h, listens[s].visits, listens[s].moved, snap[s]),
         Sounded(stream[s], acked, g), NEW visits, visits = Visits(s, acked),
         NEW c, Proper(c), Reaching(snap[s], stream[s], acked, c)
  PROVE  Resumed(g, visits, listens[s].moved, c)
<1>0. SUFFICES ASSUME NEW o \in DOMAIN visits, o = c.current, ~visits[o].moved,
                      o \notin listens[s].moved
               PROVE  UpTo(g, o, From(c))
  BY DEF Resumed
<1>1. Length \in Nat /\ c.position \in Nat
  BY ConstantsAssumption DEF Proper, PlaybackState
<1>2. ASSUME c.position = 0 PROVE UpTo(g, o, From(c))
  <2>1. From(c) = 0
    BY <1>1, <1>2, FromIsNat
  <2> QED BY <1>1, <2>1 DEF UpTo
<1>3. CASE stream[s].line = <<>> /\ c.current = snap[s].current /\ c.position = snap[s].position
  <2>1. Listened(s, acked) = {}
    BY <1>3 DEF Listened
  <2>2. /\ Kept(s, acked) \subseteq Listened(s, acked)
        /\ DOMAIN visits = DOMAIN listens[s].visits
                             \cup {Programme(snap[s])[i] : i \in Kept(s, acked)}
        /\ \A p \in DOMAIN listens[s].visits :
             (\A i \in Kept(s, acked) : Programme(snap[s])[i] # p) =>
                visits[p] = listens[s].visits[p]
    BY VisitsAre, SMTT(30)
  <2>3. o \in DOMAIN listens[s].visits /\ visits[o] = listens[s].visits[o]
    BY <2>1, <2>2
  <2>4. UpTo(h, o, From(snap[s])) /\ o \in Occurrences
    <3>1. DOMAIN listens[s].visits \subseteq Occurrences
      BY VisitedIs DEF Listening
    <3> QED BY <1>0, <1>3, <2>3, <3>1 DEF Resumed
  <2>5. From(c) = From(snap[s])
    BY <1>3 DEF From
  <2> QED BY <2>4, <2>5, UpToGrows
<1>4. ASSUME NEW i \in DOMAIN stream[s].line, stream[s].line[i].start <= acked,
             Inside(snap[s], stream[s], acked, i, c)
      PROVE  UpTo(g, o, From(c))
  <2>1. /\ i \in 1..Len(Programme(snap[s])) /\ stream[s].line[i].start \in Nat
        /\ EndOf(stream[s], i) \in Nat /\ stream[s].sent \in Nat
        /\ Spanned(snap[s], stream[s], i)
    BY SpansAre
  <2>2. From(snap[s]) <= Length /\ i \in Nat
    BY <2>1 DEF Lined
  <2>3. PICK frames \in 0..Length, from \in Nat :
          /\ frames = FramesOf(snap[s], i) /\ from = From(snap[s])
          /\ frames = Length - (IF i = 1 THEN from ELSE 0)
    BY <2>2, FramesAre
  <2>4. PICK start \in Nat, end \in Nat :
          start = stream[s].line[i].start /\ end = EndOf(stream[s], i)
    BY <2>1
  <2>5. acked \in Nat /\ start <= acked /\ acked <= end
    BY <1>4, <2>1, <2>4 DEF Inside
  <2>6. PICK done \in Nat : done = acked - start
    BY <2>4, <2>5
  <2>7. PICK ms \in Nat : ms = Milliseconds(done) /\ ms * FramesPerMs <= done
    BY WholeMilliseconds
  <2>8. PICK place \in Nat :
          /\ place = (IF i = 1 THEN snap[s].position ELSE 0) /\ c.position = place + ms
    <3>1. snap[s].position \in Nat
      BY DEF Proper, PlaybackState
    <3>2. stream[s].line[i].position = IF i = 1 THEN snap[s].position ELSE 0
      BY <2>1 DEF Spanned
    <3> QED BY <1>4, <2>4, <2>6, <2>7, <3>1, <3>2 DEF Inside
  <2>9. FramesPerMs \in Nat
    BY ConstantsAssumption
  <2>10. From(c) = place * FramesPerMs + ms * FramesPerMs
    <3>1. (place + ms) * FramesPerMs = place * FramesPerMs + ms * FramesPerMs
      BY <2>9
    <3> QED BY <2>8, <3>1 DEF From
  <2>11. place * FramesPerMs = Length - frames
    <3>1. CASE i = 1
      BY <1>1, <2>3, <2>8, <3>1 DEF From
    <3>2. CASE i # 1
      BY <1>1, <2>3, <2>8, <2>9, <3>2
    <3> QED BY <3>1, <3>2
  <2>12. PICK before \in Nat : before = Length - frames
    BY <1>1, <2>3
  <2>13. From(c) \in Nat /\ From(c) <= before + done
    <3>1. From(c) \in Nat
      BY <1>1, FromIsNat
    <3>2. ms * FramesPerMs \in Nat
      BY <2>9
    <3> QED BY <2>7, <2>10, <2>11, <2>12, <3>1, <3>2
  <2>14. o = Programme(snap[s])[i]
    BY <1>0, <1>4 DEF Inside
  <2>15. ASSUME NEW f \in 1..Length, f <= From(c) PROVE g[o][f] > 0
    <3>1. CASE before < f
      <4>1. f - before <= acked - start /\ f - before <= end - start
        BY <1>1, <2>4, <2>5, <2>6, <2>13, <2>15
      <4> QED BY <2>3, <2>4, <2>12, <2>14, <3>1, <4>1, HeardFrame
    <3>2. CASE ~(before < f)
      <4>1. i = 1 /\ f <= from
        BY <1>1, <2>3, <2>12, <3>2
      <4>2. UpTo(g, o, From(snap[s]))
        BY <1>0, <1>4, <2>14, <4>1, Unbroken
      <4> QED BY <2>3, <4>1, <4>2 DEF UpTo
    <3> QED BY <3>1, <3>2
  <2> QED BY <2>15 DEF UpTo
<1> QED BY <1>2, <1>3, <1>4 DEF Reaching, AtEnd

(***************************************************************************)
(* The history of a session.                                               *)
(***************************************************************************)
\* Of every occurrence the visits have what was heard, unless something failed.
Settled(h, visits, fails) ==
  \A o \in Occurrences :
    IF o \in DOMAIN visits THEN visits[o].frames = Total(h[o])
    ELSE Total(h[o]) > 0 => fails

Exact(s) ==
  Streaming(s) =>
    /\ Honest(heard[s], listens[s].visits)
    /\ IF phase[s] = "flushing" THEN Settled(heard[s], listens[s].visits, failed[s])
       ELSE /\ Booked(heard[s], listens[s].visits, stream[s], stream[s].acked)
            /\ Resumed(heard[s], listens[s].visits, listens[s].moved, snap[s])

LEMMA FramesIsNat ==
  ASSUME NEW visits \in Visited, NEW o
  PROVE  Frames(visits, o) \in Nat
<1>1. visits \in [DOMAIN visits -> Visit]
  BY VisitedIs
<1>2. o \in DOMAIN visits => visits[o] \in Visit
  BY <1>1
<1> QED BY <1>2 DEF Frames, Visit

\* An epoch of which nothing is acknowledged adds nothing.
LEMMA NoShare ==
  ASSUME NEW run, NEW o, NEW n, n = 0
  PROVE  Cardinality(Share(run, n, o)) = 0
<1>1. Share(run, n, o) = {}
  BY DEF Share
<1> QED BY <1>1, FS_EmptySet

\* What was heard is in the visits, to which a new epoch has added nothing.
LEMMA BookedAnew ==
  ASSUME NEW h \in Tally, NEW visits \in Visited, NEW run, NEW n, n = 0
  PROVE  /\ Booked(h, visits, run, n) <=> \A o \in Occurrences : Total(h[o]) = Frames(visits, o)
         /\ \A fails : Booked(h, visits, run, n) => Settled(h, visits, fails)
<1>1. ASSUME NEW o \in Occurrences
      PROVE  /\ Total(h[o]) \in Nat /\ Frames(visits, o) \in Nat
             /\ Frames(visits, o) + Cardinality(Share(run, n, o)) = Frames(visits, o)
  <2>1. Total(h[o]) \in Nat /\ Frames(visits, o) \in Nat
    BY TotalIsNat, FramesIsNat
  <2>2. Cardinality(Share(run, n, o)) = 0
    BY NoShare
  <2> QED BY <2>1, <2>2
<1>2. Booked(h, visits, run, n) <=> \A o \in Occurrences : Total(h[o]) = Frames(visits, o)
  BY <1>1 DEF Booked
<1>3. ASSUME NEW fails, Booked(h, visits, run, n) PROVE Settled(h, visits, fails)
  <2>1. ASSUME NEW o \in Occurrences
        PROVE  IF o \in DOMAIN visits THEN visits[o].frames = Total(h[o])
               ELSE Total(h[o]) > 0 => fails
    <3>1. Total(h[o]) = Frames(visits, o)
      BY <1>2, <1>3
    <3>2. CASE o \in DOMAIN visits
      BY <3>1, <3>2 DEF Frames
    <3>3. CASE o \notin DOMAIN visits
      <4>1. Total(h[o]) = 0
        BY <3>1, <3>3 DEF Frames
      <4>2. ~(Total(h[o]) > 0)
        BY <4>1
      <4> QED BY <3>3, <4>2
    <3> QED BY <3>2, <3>3
  <2> QED BY <2>1 DEF Settled
<1> QED BY <1>2, <1>3

\* Acknowledging more of an epoch moves its books with what is heard.
LEMMA BookedMore ==
  ASSUME NEW h \in Tally, NEW visits \in Visited, NEW run, NEW a \in Nat, NEW b \in Nat, a <= b,
         \A k \in 1..b : run.tape[k] \in Occurrences \X (1..Length),
         Booked(h, visits, run, a), NEW g, g = Adding(h, run.tape, a, b)
  PROVE  Booked(g, visits, run, b)
<1>0. ASSUME NEW o \in Occurrences
      PROVE  Total(g[o]) = Frames(visits, o) + Cardinality(Share(run, b, o))
  <2>1. PICK more : more = SoundingOf(run.tape, a, b, o)
    OBVIOUS
  <2>2. PICK tape : tape = run.tape
    OBVIOUS
  <2>3. Typed(tape, a, b) /\ g = Adding(h, tape, a, b)
    BY <2>2 DEF Typed
  <2>4. /\ Total(h[o]) \in Nat /\ Cardinality(SoundingOf(tape, a, b, o)) \in Nat
        /\ Total(g[o]) = Total(h[o]) + Cardinality(SoundingOf(tape, a, b, o))
    BY <2>3, TotalAdding
  <2>5. Total(h[o]) \in Nat /\ Total(g[o]) = Total(h[o]) + Cardinality(more)
    BY <2>1, <2>2, <2>4
  <2>6. Total(h[o]) = Frames(visits, o) + Cardinality(Share(run, a, o))
    BY DEF Booked
  <2>7. PICK part, all : part = Share(run, a, o) /\ all = Share(run, b, o)
    OBVIOUS
  <2>8. all = part \cup more /\ part \cap more = {}
    BY <2>1, <2>7 DEF Share, SoundingOf
  <2>9. IsFiniteSet(part) /\ IsFiniteSet(more)
    <3>1. IsFiniteSet(1..a) /\ IsFiniteSet((a + 1)..b)
      <4>1. 1 \in Int /\ a \in Int /\ a + 1 \in Int /\ b \in Int
        OBVIOUS
      <4> QED BY <4>1, FS_Interval
    <3>2. part \subseteq 1..a /\ more \subseteq (a + 1)..b
      BY <2>1, <2>7 DEF Share, SoundingOf
    <3> QED BY <3>1, <3>2, FS_Subset
  <2>10. /\ Cardinality(all) = Cardinality(part) + Cardinality(more)
         /\ Cardinality(part) \in Nat /\ Cardinality(more) \in Nat
    BY <2>8, <2>9, Apart
  <2>11. Frames(visits, o) \in Nat
    BY FramesIsNat
  <2> QED BY <2>5, <2>6, <2>7, <2>10, <2>11
<1> QED BY <1>0 DEF Booked

LEMMA SameShares ==
  ASSUME NEW h, NEW visits, NEW run, NEW new, NEW a,
         \A k \in 1..a : new.tape[k] = run.tape[k], Booked(h, visits, run, a)
  PROVE  Booked(h, visits, new, a)
<1>1. \A o : Share(new, a, o) = Share(run, a, o)
  BY DEF Share
<1> QED BY <1>1 DEF Booked

\* What a listener of a playing session has heard up to an acknowledgement.
LEMMA BooksNow ==
  ASSUME OnSessions(heard), NEW s \in Sessions, Sound(s), Backed(s), Exact(s),
         phase[s] = "playing", NEW acked \in stream[s].acked..stream[s].sent,
         Hears(s, acked) \/ (heard' = heard /\ acked = stream[s].acked)
  PROVE  /\ heard'[s] \in Tally /\ Louder(heard[s], heard'[s])
         /\ Sounded(stream[s], acked, heard'[s])
         /\ Booked(heard'[s], listens[s].visits, stream[s], acked)
<1>1. heard[s] \in Tally /\ Sounded(stream[s], stream[s].acked, heard[s])
  BY PlayingBacked
<1>2. Booked(heard[s], listens[s].visits, stream[s], stream[s].acked)
  BY DEF Exact, Streaming
<1>3. CASE Hears(s, acked)
  <2>1. /\ heard'[s] \in Tally /\ Louder(heard[s], heard'[s])
        /\ Sounded(stream[s], acked, heard'[s])
    BY <1>1, <1>3, HeardNow
  <2>2. /\ Lined(snap[s], stream[s]) /\ stream[s].acked \in Nat /\ stream[s].sent \in Nat
        /\ listens[s] \in Listening
    BY PlayingIs
  <2>3. PICK a \in Nat : a = stream[s].acked
    BY <2>2
  <2>4. acked \in Nat /\ a <= acked /\ acked <= stream[s].sent
    BY <2>2, <2>3
  <2>5. ASSUME NEW k \in 1..acked PROVE stream[s].tape[k] \in Occurrences \X (1..Length)
    <3>1. /\ stream[s].tape \in Seq(Occurrences \X (1..Length))
          /\ DOMAIN stream[s].tape = 1..stream[s].sent
      BY <2>2, LineIs
    <3>2. k \in DOMAIN stream[s].tape
      BY <2>2, <2>4, <3>1
    <3> QED BY <3>1, <3>2, ElementOfSeq, LenProperties
  <2>6. heard'[s] = Adding(heard[s], stream[s].tape, a, acked)
    BY <1>3, <2>3, HearsIs
  <2>7. listens[s].visits \in Visited
    BY <2>2 DEF Listening
  <2>8. Booked(heard'[s], listens[s].visits, stream[s], acked)
    BY <1>1, <1>2, <2>3, <2>4, <2>5, <2>6, <2>7, BookedMore
  <2> QED BY <2>1, <2>8
<1>4. CASE heard' = heard /\ acked = stream[s].acked
  BY <1>1, <1>2, <1>4, LouderAlike
<1> QED BY <1>3, <1>4

LEMMA ExactKept ==
  ASSUME NEW s \in Sessions, Exact(s), Streaming(s), phase[s] # "flushing",
         phase'[s] # "flushing", heard'[s] = heard[s], listens'[s] = listens[s],
         snap'[s] = snap[s], stream'[s].acked = stream[s].acked,
         \A k \in 1..stream[s].acked : stream'[s].tape[k] = stream[s].tape[k]
  PROVE  Exact(s)'
<1>1. /\ Honest(heard[s], listens[s].visits)
      /\ Booked(heard[s], listens[s].visits, stream[s], stream[s].acked)
      /\ Resumed(heard[s], listens[s].visits, listens[s].moved, snap[s])
  BY DEF Exact
<1>2. Booked(heard[s], listens[s].visits, stream'[s], stream[s].acked)
  BY <1>1, SameShares
<1> QED
  BY <1>1, <1>2 DEF Exact

LEMMA StartExact ==
  ASSUME IInv, Recorded, NEW s \in Sessions, Sound(s), Sound(s)', Backed(s), Claim(s)
  PROVE  Exact(s)'
<1>0. Shapes /\ phase[s] = "claiming"
  BY DEF IInv, Claim
<1>1. ~Streaming(s) /\ stream[s] = NoStream
  BY <1>0 DEF Streaming, Sound, Cursors
<1>2. heard[s] = NothingHeard /\ listens[s] = NoListens
  BY <1>1 DEF Backed, Sound, Numbered
<1>3. /\ heard'[s] = NothingHeard /\ listens'[s] = NoListens /\ stream'[s] = NoStream
      /\ phase'[s] = "opening"
  BY <1>0, <1>1, <1>2 DEF Claim, Shapes, OnSessions
<1>4. /\ DOMAIN NoListens.visits = {} /\ NoListens.visits \in Visited /\ NoStream.acked = 0
  BY NothingTyped DEF Listening, NoStream
<1>5. PICK n : n = 0
  OBVIOUS
<1>6. \A o \in Occurrences : Total(NothingHeard[o]) = Frames(NoListens.visits, o)
  BY <1>4, NothingTotal DEF Frames
<1>7. Booked(NothingHeard, NoListens.visits, NoStream, n)
  BY <1>4, <1>5, <1>6, NothingIsTally, BookedAnew
<1>8. Honest(NothingHeard, NoListens.visits)
      /\ Resumed(NothingHeard, NoListens.visits, NoListens.moved, snap'[s])
  BY <1>4 DEF Honest, Resumed
<1> QED
  BY <1>3, <1>4, <1>5, <1>7, <1>8 DEF Exact

LEMMA SilentExact ==
  ASSUME IInv, NEW s \in Sessions,
         \/ Acquire(s) \/ ReadProfile(s) \/ GiveUp(s) \/ Release(s) \/ ReleaseLate(s)
         \/ Flushed(s) \/ Defer(s)
  PROVE  Exact(s)'
<1>1. phase'[s] \in {"reading", "claiming", "closed", "draining", "deferred"}
  BY DEF IInv, Acquire, ReadProfile, GiveUp, Release, ReleaseLate, Flushed, Defer, Forget,
         Shapes, OnSessions
<1> QED
  BY <1>1 DEF Exact, Streaming

LEMMA PreparedExact ==
  ASSUME IInv, NEW s \in Sessions, Sound(s), Exact(s), Begin(s) \/ Format(s) \/ ControlSaved(s)
  PROVE  Exact(s)'
<1>0. Shapes
  BY DEF IInv
<1>1. /\ phase[s] \in {"opening", "waiting", "saving"} /\ phase'[s] \in {"opening", "waiting", "playing"}
      /\ UNCHANGED <<heard, listens, snap>> /\ stream'[s] \in {stream[s], NoStream}
  BY <1>0 DEF Begin, Format, ControlSaved, own, Shapes, OnSessions
<1>2. stream[s] = NoStream
  BY <1>1 DEF Sound, Cursors
<1>3. Streaming(s) /\ phase[s] # "flushing" /\ phase'[s] # "flushing"
  BY <1>1 DEF Streaming
<1>4. stream'[s] = stream[s]
  BY <1>1, <1>2
<1> QED
  BY <1>1, <1>3, <1>4, ExactKept

LEMMA StreamExact ==
  ASSUME IInv, NEW s \in Sessions, Sound(s), Exact(s),
         SendTrack(s) \/ SendAudio(s) \/ SendTrackEnd(s) \/ SendEof(s)
  PROVE  Exact(s)'
<1>1. /\ phase[s] = "playing" /\ stream'[s].acked = stream[s].acked
      /\ \A k \in 1..stream[s].acked : stream'[s].tape[k] = stream[s].tape[k]
      /\ UNCHANGED <<phase, snap, listens, heard>>
  BY StreamStep
<1>2. Streaming(s)
  BY <1>1 DEF Streaming
<1> QED
  BY <1>1, <1>2, ExactKept

LEMMA WrittenExact ==
  ASSUME NEW s \in Sessions, Exact(s), SendSave(s) \/ Write(s)
  PROVE  Exact(s)'
<1>1. UNCHANGED <<phase, failed, snap, stream, listens, heard>>
  BY DEF SendSave, Write, Take, Publish, DoNotPublish, own
<1> QED
  BY <1>1 DEF Exact, Streaming

LEMMA BrokenOffExact ==
  ASSUME IInv, NEW s \in Sessions, Sound(s), Backed(s), Exact(s),
         DoNotBegin(s) \/ NoFormat(s) \/ ControlNotSaved(s)
  PROVE  Exact(s)'
<1>0. Shapes
  BY DEF IInv
<1>1. /\ phase[s] \in {"opening", "waiting", "saving"} /\ phase'[s] = "flushing"
      /\ UNCHANGED <<heard, listens>>
  BY <1>0 DEF DoNotBegin, NoFormat, ControlNotSaved, Finish, Shapes, OnSessions
<1>2. stream[s].acked = 0 /\ Streaming(s) /\ phase[s] # "flushing"
  BY <1>1 DEF Sound, Cursors, NoStream, Streaming
<1>3. /\ Honest(heard[s], listens[s].visits)
      /\ Booked(heard[s], listens[s].visits, stream[s], stream[s].acked)
  BY <1>2 DEF Exact
<1>4. heard[s] \in Tally /\ listens[s].visits \in Visited
  BY DEF Backed, Sound, Flags, Listening
<1>5. PICK n, fails : n = stream[s].acked /\ fails = failed'[s]
  OBVIOUS
<1>6. Settled(heard[s], listens[s].visits, fails)
  BY <1>2, <1>3, <1>4, <1>5, BookedAnew
<1> QED
  BY <1>1, <1>3, <1>5, <1>6 DEF Exact

LEMMA AcknowledgeExact ==
  ASSUME IInv, Recorded, NEW s \in Sessions, Sound(s), Backed(s), Exact(s), Acknowledge(s)
  PROVE  Exact(s)'
<1>0. phase[s] = "playing" /\ OnSessions(heard) /\ UNCHANGED <<phase, snap, listens>>
  BY DEF Acknowledge, Recorded
<1>1. PICK acked, item :
           /\ acked \in (stream[s].acked + 1)..stream[s].sent
           /\ Hears(s, acked) /\ stream'[s].acked = acked
           /\ stream'[s].tape = stream[s].tape
  BY AcknowledgeStep
<1>2. acked \in stream[s].acked..stream[s].sent
  BY <1>0, <1>1, PlayingIs
<1>3. /\ Louder(heard[s], heard'[s]) /\ Booked(heard'[s], listens[s].visits, stream[s], acked)
  BY <1>0, <1>1, <1>2, BooksNow
<1>4. Booked(heard'[s], listens[s].visits, stream'[s], acked)
  BY <1>1, <1>3, SameShares
<1>5. /\ Honest(heard[s], listens[s].visits)
      /\ Resumed(heard[s], listens[s].visits, listens[s].moved, snap[s])
  BY <1>0 DEF Exact, Streaming
<1>6. DOMAIN listens[s].visits \subseteq Occurrences
  BY VisitedIs DEF Sound, Flags, Listening
<1>7. /\ Honest(heard'[s], listens[s].visits)
      /\ Resumed(heard'[s], listens[s].visits, listens[s].moved, snap[s])
  BY <1>3, <1>5, <1>6, UpToGrows DEF Honest, Resumed
<1> QED
  BY <1>0, <1>1, <1>4, <1>7 DEF Exact

-----------------------------------------------------------------------------
\* The end of an epoch: the visits are added up.
LEMMA EpochOver ==
  ASSUME OnSessions(heard), NEW s \in Sessions, Sound(s), Backed(s), Exact(s),
         phase[s] = "playing", NEW acked \in stream[s].acked..stream[s].sent,
         Hears(s, acked) \/ (heard' = heard /\ acked = stream[s].acked),
         NEW visits, visits = Visits(s, acked)
  PROVE  /\ heard'[s] \in Tally /\ visits \in Visited /\ Honest(heard'[s], visits)
         /\ \A c : Proper(c) /\ Reaching(snap[s], stream[s], acked, c) =>
               Resumed(heard'[s], visits, listens[s].moved, c)
         /\ \A o \in Occurrences :
              /\ o \in DOMAIN visits => visits[o].frames = Total(heard'[s][o])
              /\ o \notin DOMAIN visits /\ ~TooManyVisits(s, acked) => Total(heard'[s][o]) = 0
<1>1. PICK g : g = heard'[s]
  OBVIOUS
<1>2. /\ g \in Tally /\ Louder(heard[s], g) /\ Sounded(stream[s], acked, g)
      /\ Booked(g, listens[s].visits, stream[s], acked)
  BY <1>1, BooksNow
<1>3. /\ Honest(heard[s], listens[s].visits)
      /\ Resumed(heard[s], listens[s].visits, listens[s].moved, snap[s])
  BY DEF Exact, Streaming
<1>4. /\ Proper(snap[s]) /\ Lined(snap[s], stream[s]) /\ listens[s] \in Listening
      /\ acked \in 0..stream[s].sent
  BY PlayingIs
<1>5. Honest(g, visits)
  BY <1>2, <1>3, <1>4, VisitsHonest
<1>6. ASSUME NEW c, Proper(c), Reaching(snap[s], stream[s], acked, c)
      PROVE  Resumed(g, visits, listens[s].moved, c)
  BY <1>2, <1>3, <1>4, <1>6, VisitsResumed
<1>7. ASSUME NEW o \in Occurrences
      PROVE  /\ o \in DOMAIN visits => visits[o].frames = Total(g[o])
             /\ o \notin DOMAIN visits /\ ~TooManyVisits(s, acked) => Total(g[o]) = 0
  BY <1>2, <1>4, VisitsBooked
<1>8. visits \in Visited
  BY <1>4, VisitsAre
<1> QED
  BY <1>1, <1>2, <1>5, <1>6, <1>7, <1>8

\* The last epoch: the session ends with the visits of what was heard.
LEMMA EndedExact ==
  ASSUME IInv, Recorded, NEW s \in Sessions, Sound(s), Backed(s), Exact(s),
         Stop(s) \/ PlayedOut(s) \/ Interrupted(s)
  PROVE  Exact(s)'
<1>0. Shapes /\ phase[s] = "playing" /\ OnSessions(heard)
  BY DEF IInv, Stop, PlayedOut, Interrupted, Recorded
<1>1. PICK acked \in stream[s].acked..stream[s].sent :
        /\ Hears(s, acked) \/ (heard' = heard /\ acked = stream[s].acked)
        /\ \E state, fails : Halt(s, acked, state, fails)
  <2>1. stream[s].acked \in stream[s].acked..stream[s].sent
    BY <1>0, PlayingIs
  <2> QED BY <2>1 DEF Stop, PlayedOut, Interrupted
<1>2. PICK state, fails : Halt(s, acked, state, fails)
  BY <1>1
<1>3. PICK visits : visits = Visits(s, acked)
  OBVIOUS
<1>4. PICK slow \in BOOLEAN :
        /\ listens' = [listens EXCEPT ![s].visits = visits]
        /\ Finish(s, state, fails \/ slow \/ TooManyVisits(s, acked))
  BY <1>2, <1>3 DEF Halt
<1>5. listens'[s].visits = visits /\ phase'[s] = "flushing"
  <2>1. listens[s] \in Listening
    BY <1>0, PlayingIs
  <2> QED BY <1>0, <1>4, <2>1 DEF Finish, Recorded, Shapes, OnSessions, Listening
<1>6. TooManyVisits(s, acked) => failed'[s]
  <2>1. failed'[s] = (fails \/ slow \/ TooManyVisits(s, acked))
    BY <1>4 DEF Finish, Recorded, OnSessions
  <2> QED BY <2>1
<1>7. /\ heard'[s] \in Tally /\ Honest(heard'[s], visits)
      /\ \A o \in Occurrences :
           /\ o \in DOMAIN visits => visits[o].frames = Total(heard'[s][o])
           /\ o \notin DOMAIN visits /\ ~TooManyVisits(s, acked) => Total(heard'[s][o]) = 0
  BY <1>0, <1>1, <1>3, EpochOver
<1>8. Settled(heard'[s], visits, failed'[s])
  <2>1. ASSUME NEW o \in Occurrences
        PROVE  IF o \in DOMAIN visits THEN visits[o].frames = Total(heard'[s][o])
               ELSE Total(heard'[s][o]) > 0 => failed'[s]
    <3>1. CASE o \in DOMAIN visits
      BY <1>7, <3>1
    <3>2. CASE o \notin DOMAIN visits /\ ~TooManyVisits(s, acked)
      <4>1. Total(heard'[s][o]) = 0
        BY <1>7, <3>2
      <4>2. ~(Total(heard'[s][o]) > 0)
        BY <4>1
      <4> QED BY <3>2, <4>2
    <3>3. CASE o \notin DOMAIN visits /\ TooManyVisits(s, acked)
      BY <1>6, <3>3
    <3> QED BY <3>1, <3>2, <3>3
  <2> QED BY <2>1 DEF Settled
<1> QED
  BY <1>5, <1>7, <1>8 DEF Exact

\* A control leaves an epoch with what was heard in its visits.
LEMMA ControlExact ==
  ASSUME NEW s \in Sessions, NEW g \in Tally, NEW visits \in Visited,
         heard'[s] = g, listens'[s].visits = visits, Honest(g, visits),
         \A o \in Occurrences : Total(g[o]) = Frames(visits, o),
         \/ phase'[s] = "flushing"
         \/ /\ phase'[s] = "saving" /\ stream'[s] = NoStream
            /\ Resumed(g, visits, listens'[s].moved, snap'[s])
  PROVE  Exact(s)'
<1>1. PICK n, fails : n = 0 /\ fails = failed'[s]
  OBVIOUS
<1>2. /\ Booked(g, visits, NoStream, n)
      /\ Settled(g, visits, fails)
  BY <1>1, BookedAnew
<1>3. NoStream.acked = n
  BY <1>1 DEF NoStream
<1>4. CASE phase'[s] = "flushing"
  BY <1>1, <1>2, <1>4 DEF Exact
<1>5. CASE /\ phase'[s] = "saving" /\ stream'[s] = NoStream
           /\ Resumed(g, visits, listens'[s].moved, snap'[s])
  BY <1>2, <1>3, <1>5 DEF Exact
<1> QED BY <1>4, <1>5

\* The visits of an epoch that ends with a control have room for all of it.
LEMMA EpochBooked ==
  ASSUME OnSessions(heard), NEW s \in Sessions, Sound(s), Backed(s), Exact(s),
         phase[s] = "playing", NEW acked \in stream[s].acked..stream[s].sent,
         Hears(s, acked), ~TooManyVisits(s, acked), NEW visits, visits = Visits(s, acked)
  PROVE  /\ heard'[s] \in Tally /\ visits \in Visited /\ Honest(heard'[s], visits)
         /\ \A o \in Occurrences : Total(heard'[s][o]) = Frames(visits, o)
BY EpochOver DEF Frames

LEMMA SeekExact ==
  ASSUME IInv, Recorded, NEW s \in Sessions, Sound(s), Backed(s), Exact(s), Seek(s)
  PROVE  Exact(s)'
<1>0. Shapes /\ phase[s] = "playing" /\ OnSessions(heard) /\ OnSessions(listens)
  BY DEF IInv, Seek, Recorded
<1>1. PICK acked \in stream[s].acked..stream[s].sent, target \in Targets :
          LET reached == AtCursor(snap[s], stream[s].line, acked)
              visits == Visits(s, acked)
              o == reached.current
          IN /\ ~TooManyVisits(s, acked) /\ Hears(s, acked)
             /\ listens' = [listens EXCEPT ![s] =
                   [visits |-> [v \in DOMAIN visits |->
                       IF v = o THEN [visits[v] EXCEPT !.completed = FALSE, !.moved = TRUE]
                       ELSE visits[v]],
                    moved |-> @.moved \cup {o}]]
             /\ \/ Continue(s, [reached EXCEPT !.position = target], reached)
                \/ Finish(s, reached, TRUE)
  BY DEF Seek
<1>2. PICK reached, visits, song :
          /\ reached = AtCursor(snap[s], stream[s].line, acked) /\ visits = Visits(s, acked)
          /\ song = reached.current
  OBVIOUS
<1>3. PICK shown : shown = [v \in DOMAIN visits |->
                       IF v = song THEN [visits[v] EXCEPT !.completed = FALSE, !.moved = TRUE]
                       ELSE visits[v]]
  OBVIOUS
<1>4. listens'[s].visits = shown /\ song \in listens'[s].moved
  BY <1>0, <1>1, <1>2, <1>3 DEF OnSessions
<1>5. PICK g : g = heard'[s]
  OBVIOUS
<1>6. /\ g \in Tally /\ visits \in Visited /\ Honest(g, visits)
      /\ \A o \in Occurrences : Total(g[o]) = Frames(visits, o)
  BY <1>0, <1>1, <1>2, <1>5, EpochBooked
<1>7. /\ DOMAIN shown = DOMAIN visits
      /\ \A o \in DOMAIN visits :
           /\ visits[o] \in Visit /\ shown[o] \in Visit /\ shown[o].frames = visits[o].frames
           /\ shown[o].completed => visits[o].completed
  <2>1. ASSUME NEW o \in DOMAIN visits
        PROVE  /\ visits[o] \in Visit /\ shown[o] \in Visit /\ shown[o].frames = visits[o].frames
               /\ shown[o].completed => visits[o].completed
    <3>1. visits[o] \in Visit
      BY <1>6, VisitedIs
    <3>2. PICK old, new : old = visits[o] /\ new = [old EXCEPT !.completed = FALSE, !.moved = TRUE]
      OBVIOUS
    <3>3. new \in Visit /\ new.frames = old.frames /\ ~new.completed
      BY <3>1, <3>2 DEF Visit
    <3>4. shown[o] = IF o = song THEN new ELSE old
      BY <1>3, <3>2
    <3> QED BY <3>1, <3>2, <3>3, <3>4
  <2> QED BY <1>3, <2>1
<1>8. shown \in Visited
  <2>1. DOMAIN visits \subseteq Occurrences
    BY <1>6, VisitedIs
  <2>2. shown \in [DOMAIN shown -> Visit]
    BY <1>3, <1>7
  <2> QED BY <1>7, <2>1, <2>2, VisitedIs
<1>9. Honest(g, shown)
  BY <1>6, <1>7 DEF Honest
<1>10. \A o \in Occurrences : Total(g[o]) = Frames(shown, o)
  BY <1>6, <1>7 DEF Frames
<1>11. CASE Continue(s, [reached EXCEPT !.position = target], reached)
  <2>1. acked \in 0..stream[s].sent
    BY <1>0, PlayingIs
  <2>2. reached \in PlaybackState /\ target \in Nat
    BY <1>0, <1>2, <2>1, CursorSound, ConstantsAssumption DEF Proper
  <2>3. PICK state : state = [reached EXCEPT !.position = target]
    OBVIOUS
  <2>4. state \in PlaybackState /\ state.current = song
    BY <1>2, <2>2, <2>3 DEF PlaybackState
  <2>5. Continue(s, state, reached)
    BY <1>11, <2>3
  <2>6. phase'[s] = "saving" /\ stream'[s] = NoStream /\ snap'[s].current = song
    BY <1>0, <2>2, <2>4, <2>5, ContinueIs
  <2>7. Resumed(g, shown, listens'[s].moved, snap'[s])
    BY <1>4, <2>6 DEF Resumed
  <2> QED BY <1>4, <1>5, <1>6, <1>8, <1>9, <1>10, <2>6, <2>7, ControlExact
<1>12. CASE Finish(s, reached, TRUE)
  <2>1. phase'[s] = "flushing"
    BY <1>0, <1>12 DEF Finish, Shapes, OnSessions
  <2> QED BY <1>4, <1>5, <1>6, <1>8, <1>9, <1>10, <2>1, ControlExact
<1> QED
  BY <1>1, <1>2, <1>11, <1>12

\* An edit after the end of the queue starts what follows at its beginning.
LEMMA EditResumes ==
  ASSUME NEW h, NEW visits, NEW moved, NEW state, Proper(state), NEW next, NEW e, NEW m,
         Rewriting(state, next, e, m), e.position = state.position, NEW after,
         after.current = e.current, after.position = e.position,
         Resumed(h, visits, moved, state)
  PROVE  Resumed(h, visits, moved, after)
<1>1. CASE state.current # 0
  <2>1. after.current = state.current /\ From(after) = From(state)
    BY <1>1 DEF Rewriting, From
  <2> QED BY <2>1 DEF Resumed
<1>2. CASE state.current = 0
  <2>1. after.position = 0
    BY <1>2 DEF Proper
  <2>2. after.position \in Nat
    BY <2>1
  <2>3. From(after) = 0
    BY <2>1, <2>2, FromIsNat
  <2>4. \A f \in 1..Length : ~(f <= 0)
    BY ConstantsAssumption
  <2> QED BY <2>3, <2>4 DEF Resumed, UpTo
<1> QED BY <1>1, <1>2

LEMMA EditExact ==
  ASSUME IInv, Recorded, NEW s \in Sessions, Sound(s), Backed(s), Exact(s), Edit(s)
  PROVE  Exact(s)'
<1>0. Shapes /\ phase[s] = "playing" /\ OnSessions(heard) /\ OnSessions(listens)
  BY DEF IInv, Edit, Recorded
<1>1. PICK acked \in stream[s].acked..stream[s].sent :
          LET reached == AtCursor(snap[s], stream[s].line, acked)
          IN /\ ~TooManyVisits(s, acked) /\ Hears(s, acked)
             /\ listens' = [listens EXCEPT ![s].visits = Visits(s, acked)]
             /\ \E items \in Edits(reached, counts[s].next) :
                   LET edited == Edited(reached, items, counts[s].next)
                   IN Continue(s, edited, NoState) \/ Finish(s, edited, TRUE)
  BY DEF Edit
<1>2. PICK reached, visits : /\ reached = AtCursor(snap[s], stream[s].line, acked)
                             /\ visits = Visits(s, acked)
  OBVIOUS
<1>3. PICK items, edited, undo :
          /\ items \in Edits(reached, counts[s].next)
          /\ edited = Edited(reached, items, counts[s].next) /\ undo = NoState
          /\ Continue(s, edited, undo) \/ Finish(s, edited, TRUE)
  BY <1>1, <1>2
<1>4. listens'[s].visits = visits /\ listens'[s].moved = listens[s].moved
  <2>1. listens[s] \in Listening
    BY <1>0, PlayingIs
  <2> QED BY <1>0, <1>1, <1>2, <2>1 DEF OnSessions, Listening
<1>5. PICK g : g = heard'[s]
  OBVIOUS
<1>6. /\ g \in Tally /\ visits \in Visited /\ Honest(g, visits)
      /\ \A o \in Occurrences : Total(g[o]) = Frames(visits, o)
  BY <1>0, <1>1, <1>2, <1>5, EpochBooked
<1>7. CASE Continue(s, edited, undo)
  <2>1. acked \in 0..stream[s].sent
    BY <1>0, PlayingIs
  <2>2. /\ Proper(reached) /\ reached.entries = snap[s].entries
        /\ Reaching(snap[s], stream[s], acked, reached)
    BY <1>0, <1>2, <2>1, CursorSound
  <2>3. counts[s].next \in 0..MaxExact /\ Range(reached.entries) \subseteq 1..counts[s].next
    BY <1>0, <2>2, PlayingIs DEF Counting
  <2>4. PICK m : /\ Proper(edited) /\ edited.position = reached.position
                 /\ Rewriting(reached, counts[s].next, edited, m)
    BY <1>3, <2>2, <2>3, EditedIs
  <2>5. edited \in PlaybackState /\ undo \in PlaybackState
    <3>1. edited \in PlaybackState
      BY <2>4 DEF Proper
    <3> QED BY <1>3, <3>1, NothingTyped
  <2>6. /\ phase'[s] = "saving" /\ stream'[s] = NoStream
        /\ snap'[s].current = edited.current /\ snap'[s].position = edited.position
    BY <1>0, <1>7, <2>5, ContinueIs
  <2>7. Resumed(g, visits, listens[s].moved, reached)
    BY <1>0, <1>1, <1>2, <1>5, <2>2, EpochOver
  <2>8. Resumed(g, visits, listens[s].moved, snap'[s])
    BY <2>2, <2>4, <2>6, <2>7, EditResumes
  <2> QED BY <1>4, <1>5, <1>6, <2>6, <2>8, ControlExact
<1>8. CASE Finish(s, edited, TRUE)
  <2>1. phase'[s] = "flushing"
    BY <1>0, <1>8 DEF Finish, Shapes, OnSessions
  <2> QED BY <1>4, <1>5, <1>6, <2>1, ControlExact
<1> QED
  BY <1>3, <1>7, <1>8

ExactInv == \A s \in Sessions : Exact(s)

LEMMA SessionExact ==
  ASSUME IInv, SoundInv, BackedInv, NEW s \in Sessions, Exact(s),
         Acquire(s) \/ Advance(s) \/ SendSave(s) \/ Write(s)
  PROVE  Exact(s)'
<1>0. Recorded /\ Sound(s) /\ Backed(s)
  BY DEF SoundInv, BackedInv
<1>1. CASE \/ Acquire(s) \/ ReadProfile(s) \/ GiveUp(s) \/ Release(s) \/ ReleaseLate(s)
           \/ Flushed(s) \/ Defer(s)
  BY <1>1, SilentExact
<1>2. CASE Claim(s)
  <2>1. Sound(s)'
    BY SessionSound
  <2> QED BY <1>0, <1>2, <2>1, StartExact
<1>3. CASE Begin(s) \/ Format(s) \/ ControlSaved(s)
  BY <1>0, <1>3, PreparedExact
<1>4. CASE DoNotBegin(s) \/ NoFormat(s) \/ ControlNotSaved(s)
  BY <1>0, <1>4, BrokenOffExact
<1>5. CASE SendTrack(s) \/ SendAudio(s) \/ SendTrackEnd(s) \/ SendEof(s)
  BY <1>0, <1>5, StreamExact
<1>6. CASE Acknowledge(s)
  BY <1>0, <1>6, AcknowledgeExact
<1>7. CASE Seek(s) \/ Edit(s)
  BY <1>0, <1>7, SeekExact, EditExact
<1>8. CASE Stop(s) \/ PlayedOut(s) \/ Interrupted(s)
  BY <1>0, <1>8, EndedExact
<1>9. CASE SendSave(s) \/ Write(s)
  BY <1>9, WrittenExact
<1> QED
  BY <1>1, <1>2, <1>3, <1>4, <1>5, <1>6, <1>7, <1>8, <1>9 DEF Advance

LEMMA StepExact == IInv /\ SoundInv /\ BackedInv /\ ExactInv /\ [Next]_vars => ExactInv'
<1> SUFFICES ASSUME IInv, SoundInv, BackedInv, ExactInv, [Next]_vars PROVE ExactInv'
  OBVIOUS
<1>1. ASSUME NEW s \in Sessions, Acquire(s) \/ Advance(s) \/ SendSave(s) \/ Write(s)
      PROVE  ExactInv'
  <2>1. Exact(s)'
    BY <1>1, SessionExact DEF ExactInv
  <2>2. \A t \in Sessions : t # s => Same(t)
    BY <1>1, AdvanceAlone, WriteAlone DEF IInv, Alone
  <2>3. \A t \in Sessions : t # s => SameRecord(t)
    BY <1>1, RecordAlone DEF SoundInv
  <2>4. ASSUME NEW t \in Sessions, t # s PROVE Exact(t)'
    BY <2>2, <2>3, <2>4 DEF ExactInv, Exact, Streaming, Same, SameRecord
  <2> QED BY <2>1, <2>4 DEF ExactInv
<1>2. CASE Crash
  <2>1. ASSUME NEW s \in Sessions PROVE phase'[s] \in {"idle", "closed"}
    BY <1>2 DEF Crash
  <2> QED BY <2>1 DEF ExactInv, Exact, Streaming
<1>3. CASE BackUp \/ Restore
  BY <1>3 DEF BackUp, Restore, own, writer, ExactInv, Exact, Streaming
<1>4. CASE UNCHANGED vars
  BY <1>4 DEF vars, own, writer, ExactInv, Exact, Streaming
<1> QED
  BY <1>1, <1>2, <1>3, <1>4 DEF Next

LEMMA ExactInvHolds == Spec => []ExactInv
<1>1. Init => ExactInv
  BY DEF Init, ExactInv, Exact, Streaming
<1> QED
  BY <1>1, StepExact, SessionInvariant, DataInvariant, BackedInvHolds, PTL DEF Spec

\* HistoryIsExact: whenever a session saves, of every occurrence its visits have
\* exactly the frames that were heard, a visit that counts as completed was heard
\* as a whole, and what was heard has no visit only if the session has failed -
\* whatever was replayed, skipped by a seek or cut off by an edit meanwhile.
THEOREM HistoryStaysExact == Spec => []HistoryIsExact
<1>1. ASSUME SoundInv, BackedInv, ExactInv, NEW s \in Sessions,
             phase[s] \in {"saving", "flushing"}, NEW o \in Occurrences
      PROVE  IF o \in DOMAIN listens[s].visits
             THEN /\ listens[s].visits[o].frames = Total(heard[s][o])
                  /\ listens[s].visits[o].completed =>
                         \A f \in 1..Length : heard[s][o][f] > 0
             ELSE Total(heard[s][o]) > 0 => failed[s]
  <2>1. Sound(s) /\ Backed(s) /\ Exact(s) /\ Streaming(s)
    BY <1>1 DEF SoundInv, BackedInv, ExactInv, Streaming
  <2>2. Settled(heard[s], listens[s].visits, failed[s])
    <3>1. CASE phase[s] = "flushing"
      BY <2>1, <3>1 DEF Exact
    <3>2. CASE phase[s] = "saving"
      <4>1. Booked(heard[s], listens[s].visits, stream[s], stream[s].acked)
        BY <2>1, <3>2 DEF Exact
      <4>2. heard[s] \in Tally /\ listens[s].visits \in Visited
        BY <2>1 DEF Backed, Sound, Flags, Listening
      <4>3. PICK n, fails : n = stream[s].acked /\ fails = failed[s]
        OBVIOUS
      <4>4. n = 0
        BY <2>1, <3>2, <4>3 DEF Sound, Cursors, NoStream
      <4> QED BY <4>1, <4>2, <4>3, <4>4, BookedAnew
    <3> QED BY <1>1, <3>1, <3>2
  <2>3. Honest(heard[s], listens[s].visits)
    BY <2>1 DEF Exact
  <2> QED BY <2>2, <2>3 DEF Settled, Honest, Whole
<1>2. SoundInv /\ BackedInv /\ ExactInv => HistoryIsExact
  BY <1>1 DEF HistoryIsExact
<1> QED
  BY <1>2, DataInvariant, BackedInvHolds, ExactInvHolds, PTL
====
