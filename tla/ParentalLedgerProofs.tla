------------------------ MODULE ParentalLedgerProofs ------------------------
(***************************************************************************)
(* The ledger keeps its promises for every calendar, every bound and every *)
(* number of voices and streams.                                           *)
(***************************************************************************)
EXTENDS ParentalLedger, FiniteSetTheorems, TLAPS

\* A second that the retention is sure to keep.
Kept(t) == now + MaxGrant <= t + Retain

\* A row the program can hold at this time.
RowOK(row) ==
  /\ row \in Row
  /\ IsFiniteSet(row.reservations)
  /\ \A t \in row.settled : t < now + MaxGrant
  /\ \A r \in row.reservations :
        r.start <= now /\ r.start < r.end /\ r.end <= r.start + MaxGrant
  /\ \A r, q \in row.reservations : r.id = q.id => r = q

Room(row) == Cardinality(row.reservations) <= MaxLeases

\* What expired and was settled in full, as far as the retention reaches.
PaidOff(r, row) == r.end <= now /\ \A t \in Slice(r) : Kept(t) => t \in row.settled

\* new loses nothing of old but the reservations in gone.
Keeps(old, new, gone) ==
  /\ \A t \in old.settled : Kept(t) => t \in new.settled
  /\ \A r \in old.reservations \ gone : r \in new.reservations \/ PaidOff(r, new)

\* new charges nothing that old did not.
Shrinks(old, new) == Charged(new) \subseteq Charged(old)

-----------------------------------------------------------------------------
LEMMA KeepsTransitive ==
  ASSUME NEW old, NEW mid, NEW new, NEW gone,
         Keeps(old, mid, gone), Keeps(mid, new, {})
  PROVE  Keeps(old, new, gone)
  BY DEF Keeps, PaidOff

LEMMA PruneRow ==
  ASSUME NEW row, RowOK(row), now \in Nat
  PROVE  /\ RowOK(Prune(row))
         /\ Prune(row).reservations \subseteq row.reservations
         /\ Prune(row).settled \subseteq row.settled
         /\ Keeps(row, Prune(row), {})
         /\ Shrinks(row, Prune(row))
         /\ SpansFit(Prune(row))
<1> DEFINE new == Prune(row)
<1>1. /\ new.reservations = {r \in row.reservations : ~Forgotten(row, r.end - 1)}
      /\ new.settled = {t \in row.settled : ~Forgotten(row, t)}
  BY DEF Prune
<1>2. new \in Row
  BY <1>1 DEF Prune, Row, RowOK
<1>3. IsFiniteSet(new.reservations)
  BY <1>1, FS_Subset DEF RowOK
<1>4. RowOK(new)
  BY <1>1, <1>2, <1>3 DEF RowOK
<1>5. \A t \in row.settled : Kept(t) => t \in new.settled
  BY <1>1, BoundsAssumption DEF RowOK, Row, Time, Kept, Forgotten
<1>6. ASSUME NEW r \in row.reservations, r \notin new.reservations
      PROVE  PaidOff(r, new)
  <2>1. Forgotten(row, r.end - 1)
    BY <1>1, <1>6
  <2>2. r.end \in Nat /\ r.start \in Nat
    BY BoundsAssumption DEF RowOK, Row, Reservation, Time
  <2>3. r.end - 1 + Retain < now + MaxGrant
    BY <2>1 DEF Forgotten
  <2>4. r.end <= now
    BY <2>2, <2>3, BoundsAssumption
  <2>5. \A t \in Slice(r) : ~Kept(t)
    BY <2>2, <2>3, BoundsAssumption DEF Slice, Kept
  <2> QED
    BY <2>4, <2>5 DEF PaidOff
<1>7. Keeps(row, new, {})
  BY <1>5, <1>6 DEF Keeps
<1>8. Shrinks(row, new)
  BY <1>1 DEF Shrinks, Charged
<1>9. ASSUME NEW t \in new.settled, t..(t + Retain) \subseteq new.settled
      PROVE  FALSE
  <2>1. t \in Nat /\ t + Retain \in t..(t + Retain)
    BY <1>2, BoundsAssumption DEF Row, Time
  <2>2. t + Retain \in row.settled
    BY <1>1, <1>9, <2>1
  <2>3. t + Retain < now + MaxGrant
    BY <2>2 DEF RowOK
  <2>4. Forgotten(row, t)
    BY <2>1, <2>2, <2>3, BoundsAssumption DEF Forgotten
  <2> QED
    BY <1>1, <2>4
<1> QED
  BY <1>1, <1>4, <1>7, <1>8, <1>9 DEF SpansFit

\* Settling a part of a reservation.
LEMMA SettleRow ==
  ASSUME NEW row, RowOK(row), now \in Nat,
         NEW r \in row.reservations, NEW end \in Nat, end <= r.end
  PROVE  LET mid == [settled |-> row.settled \cup (r.start..(end - 1)),
                     reservations |-> row.reservations \ {r}]
         IN  /\ RowOK(mid)
             /\ Keeps(row, mid, {r})
             /\ Shrinks(row, mid)
             /\ \A t \in Slice(r) : t < end => t \in mid.settled
<1> DEFINE mid == [settled |-> row.settled \cup (r.start..(end - 1)),
                   reservations |-> row.reservations \ {r}]
<1>1. /\ r \in Reservation /\ r.start \in Time /\ r.end \in 0..(Last + 1)
      /\ r.start \in Nat /\ r.end \in Nat /\ r.end <= now + MaxGrant
  BY BoundsAssumption DEF RowOK, Row, Reservation, Time
<1>2. r.start..(end - 1) \subseteq Time
  BY <1>1, BoundsAssumption DEF Time
<1>3. mid \in Row
  BY <1>2 DEF RowOK, Row
<1>4. IsFiniteSet(mid.reservations)
  BY FS_RemoveElement DEF RowOK
<1>5. \A t \in mid.settled : t < now + MaxGrant
  BY <1>1, BoundsAssumption DEF RowOK
<1>6. RowOK(mid)
  BY <1>3, <1>4, <1>5 DEF RowOK
<1>7. Keeps(row, mid, {r})
  BY DEF Keeps
<1>8. Shrinks(row, mid)
  <2> SUFFICES ASSUME NEW t \in Time, t \in r.start..(end - 1)
               PROVE  t \in Slice(r)
    BY DEF Shrinks, Charged
  <2> QED
    BY <1>1 DEF Slice
<1>9. \A t \in Slice(r) : t < end => t \in mid.settled
  BY <1>1 DEF Slice
<1> QED
  BY <1>6, <1>7, <1>8, <1>9
\* Closing a reservation charges what has elapsed and what was consumed.
LEMMA ClosedRow ==
  ASSUME NEW row, RowOK(row), now \in Nat,
         NEW r \in row.reservations, NEW consumed, Reported(r, consumed)
  PROVE  LET new == Closed(row, r, consumed)
         IN  /\ RowOK(new)
             /\ new.reservations \subseteq row.reservations \ {r}
             /\ Keeps(row, new, {r})
             /\ Shrinks(row, new)
             /\ SpansFit(new)
             /\ \A t \in Slice(r) :
                   Kept(t) /\ (t < now \/ t < r.start + consumed) => t \in new.settled
<1> DEFINE end == ClosedEnd(r, consumed)
           mid == [settled |-> row.settled \cup (r.start..(end - 1)),
                   reservations |-> row.reservations \ {r}]
           new == Closed(row, r, consumed)
<1>1. /\ r.start \in Nat /\ r.end \in Nat /\ r.start <= now
      /\ consumed \in 0..(r.end - r.start)
  BY BoundsAssumption DEF RowOK, Row, Reservation, Time, Reported
<1>2. end \in Nat /\ end <= r.end
  BY <1>1 DEF ClosedEnd
<1>3. \A t \in Slice(r) : t < now \/ t < r.start + consumed => t < end
  BY <1>1 DEF ClosedEnd, Slice
<1> HIDE DEF end
<1>4. /\ RowOK(mid)
      /\ Keeps(row, mid, {r})
      /\ Shrinks(row, mid)
      /\ \A t \in Slice(r) : t < end => t \in mid.settled
  BY <1>2, SettleRow
<1>5. new = Prune(mid)
  BY DEF Closed, end
<1>6. mid.reservations = row.reservations \ {r}
  OBVIOUS
<1> HIDE DEF mid, new
<1>7. /\ RowOK(new)
      /\ new.reservations \subseteq mid.reservations
      /\ Keeps(mid, new, {})
      /\ Shrinks(mid, new)
      /\ SpansFit(new)
  BY <1>4, <1>5, PruneRow
<1>8. Keeps(row, new, {r})
  BY <1>4, <1>7, KeepsTransitive
<1>9. Shrinks(row, new)
  BY <1>4, <1>7 DEF Shrinks
<1>10. \A t \in Slice(r) :
         Kept(t) /\ (t < now \/ t < r.start + consumed) => t \in new.settled
  BY <1>3, <1>4, <1>7 DEF Keeps
<1> QED
  BY <1>6, <1>7, <1>8, <1>9, <1>10 DEF new

\* A row with a free slot loses nothing but what has expired.
LEMMA MakeRoomRow ==
  ASSUME NEW row, RowOK(row), Room(row), now \in Nat, NEW room \in MakeRoom(row)
  PROVE  /\ RowOK(room)
         /\ Cardinality(room.reservations) < MaxLeases
         /\ room.reservations \subseteq row.reservations
         /\ Keeps(row, room, {})
         /\ Shrinks(row, room)
<1>1. CASE Cardinality(row.reservations) < MaxLeases
  <2>1. room = row
    BY <1>1 DEF MakeRoom
  <2> QED
    BY <1>1, <2>1 DEF Keeps, Shrinks
<1>2. CASE ~(Cardinality(row.reservations) < MaxLeases)
  <2>1. PICK r \in Oldest(row) :
          room = Prune([settled |-> row.settled \cup (r.start..(r.end - 1)),
                        reservations |-> row.reservations \ {r}])
    BY <1>2 DEF MakeRoom, Slice
  <2> DEFINE end == r.end
             mid == [settled |-> row.settled \cup (r.start..(end - 1)),
                     reservations |-> row.reservations \ {r}]
  <2>2. r \in row.reservations /\ r.end <= now
    BY DEF Oldest, Expired
  <2>3. end \in Nat /\ end <= r.end
    BY <2>2, BoundsAssumption DEF RowOK, Row, Reservation
  <2> HIDE DEF end
  <2>4. /\ RowOK(mid)
        /\ Keeps(row, mid, {r})
        /\ Shrinks(row, mid)
        /\ \A t \in Slice(r) : t < end => t \in mid.settled
    BY <2>2, <2>3, SettleRow
  <2>5. mid.reservations = row.reservations \ {r}
    OBVIOUS
  <2>6. r.start \in Nat
    BY <2>2, BoundsAssumption DEF RowOK, Row, Reservation, Time
  <2>7. PaidOff(r, mid)
    BY <2>2, <2>3, <2>4, <2>6 DEF PaidOff, Slice, end
  <2>8. Keeps(row, mid, {})
    BY <2>4, <2>7 DEF Keeps
  <2>13. room = Prune(mid)
    BY <2>1 DEF end
  <2> HIDE DEF mid
  <2>9. /\ RowOK(room)
        /\ room.reservations \subseteq mid.reservations
        /\ Keeps(mid, room, {})
        /\ Shrinks(mid, room)
    BY <2>4, <2>13, PruneRow
  <2>10. Keeps(row, room, {})
    BY <2>8, <2>9, KeepsTransitive
  <2>11. Shrinks(row, room)
    BY <2>4, <2>9 DEF Shrinks
  <2>12. Cardinality(room.reservations) < MaxLeases
    <3>1. /\ IsFiniteSet(row.reservations \ {r})
          /\ Cardinality(row.reservations \ {r}) = Cardinality(row.reservations) - 1
      BY <2>2, FS_RemoveElement DEF RowOK
    <3>2. /\ Cardinality(room.reservations) <= Cardinality(row.reservations \ {r})
          /\ Cardinality(room.reservations) \in Nat
          /\ Cardinality(row.reservations) \in Nat
      BY <2>5, <2>9, <3>1, FS_Subset, FS_CardinalityType DEF RowOK
    <3> QED
      BY <3>1, <3>2, BoundsAssumption DEF Room
  <2> QED
    BY <2>5, <2>9, <2>10, <2>11, <2>12
<1> QED
  BY <1>1, <1>2
-----------------------------------------------------------------------------
(* Budgets.                                                                *)

\* A part of the calendar is finite, and so is the count of any set in it.
LEMMA Counting ==
  ASSUME NEW S, NEW T \in SUBSET Time, S \subseteq T
  PROVE  /\ IsFiniteSet(S) /\ IsFiniteSet(T)
         /\ Cardinality(S) \in Nat /\ Cardinality(T) \in Nat
         /\ Cardinality(S) <= Cardinality(T)
<1>1. IsFiniteSet(Time)
  BY FS_Interval, BoundsAssumption DEF Time
<1>2. IsFiniteSet(T)
  BY <1>1, FS_Subset
<1>3. IsFiniteSet(S) /\ Cardinality(S) <= Cardinality(T)
  BY <1>2, FS_Subset
<1> QED
  BY <1>2, <1>3, FS_CardinalityType

\* Charging less is always within the budgets.
LEMMA ShrinkingBudget ==
  ASSUME NEW old, NEW new, Shrinks(old, new)
  PROVE  Budget(Charged(old), Charged(new))
<1>1. ASSUME NEW D PROVE Cardinality(Charged(new) \cap D) <= Cardinality(Charged(old) \cap D)
  <2>1. Charged(old) \cap D \in SUBSET Time
    BY DEF Charged
  <2>2. Charged(new) \cap D \subseteq Charged(old) \cap D
    BY DEF Shrinks
  <2> QED
    BY <2>1, <2>2, Counting
<1> QED
  BY <1>1 DEF Budget, Within

\* What is within the budgets after less was charged is within them before.
LEMMA BudgetAfterShrinking ==
  ASSUME NEW old, NEW mid, NEW new, Shrinks(old, mid),
         Budget(Charged(mid), Charged(new)), policy \in Policies
  PROVE  Budget(Charged(old), Charged(new))
<1>1. ASSUME NEW D, NEW limit \in Nat,
             Within(Cardinality(Charged(new) \cap D), Cardinality(Charged(mid) \cap D), limit)
      PROVE  Within(Cardinality(Charged(new) \cap D), Cardinality(Charged(old) \cap D), limit)
  <2>1. Charged(old) \cap D \in SUBSET Time /\ Charged(new) \cap D \in SUBSET Time
    BY DEF Charged
  <2>2. Charged(mid) \cap D \subseteq Charged(old) \cap D
    BY DEF Shrinks
  <2>3. /\ Cardinality(Charged(mid) \cap D) <= Cardinality(Charged(old) \cap D)
        /\ Cardinality(Charged(mid) \cap D) \in Nat
        /\ Cardinality(Charged(old) \cap D) \in Nat
        /\ Cardinality(Charged(new) \cap D) \in Nat
    BY <2>1, <2>2, Counting
  <2> QED
    BY <1>1, <2>3 DEF Within
<1>2. \A t \in Time : Rule.dayLimit[t] \in Nat
  BY CalendarAssumption DEF Rule, Rulebook
<1>3. Rule.weekLimit \in Nat
  BY CalendarAssumption DEF Rule, Rulebook
<1> QED
  BY <1>1, <1>2, <1>3 DEF Budget

\* What is paid for out of a budget stays within it.
LEMMA PaidOutOf ==
  ASSUME NEW held \in SUBSET Time, NEW slice \in SUBSET Time, NEW D, NEW limit \in Nat,
         Cardinality(held \cap D) + Cardinality(slice \ held) <= limit
  PROVE  Cardinality((held \cup slice) \cap D) <= limit
<1> DEFINE A == held \cap D
           B == slice \ held
           C == (held \cup slice) \cap D
<1>1. A \in SUBSET Time /\ B \in SUBSET Time /\ A \cup B \in SUBSET Time /\ C \subseteq A \cup B
  OBVIOUS
<1>2. A \cap B = {}
  OBVIOUS
<1>3. Cardinality(A) + Cardinality(B) <= limit
  OBVIOUS
<1> HIDE DEF A, B, C
<1>4. /\ Cardinality(C) <= Cardinality(A \cup B)
      /\ Cardinality(C) \in Nat /\ Cardinality(A \cup B) \in Nat
      /\ IsFiniteSet(A) /\ IsFiniteSet(B)
      /\ Cardinality(A) \in Nat /\ Cardinality(B) \in Nat
  BY <1>1, Counting
<1>5. Cardinality(A \cup B) = Cardinality(A) + Cardinality(B)
  <2>1. Cardinality(A \cup B) = Cardinality(A) + Cardinality(B) - Cardinality(A \cap B)
    BY <1>4, FS_Union
  <2>2. Cardinality(A \cap B) = 0
    BY <1>2, FS_EmptySet
  <2> QED
    BY <1>4, <2>1, <2>2
<1>6. Cardinality(C) <= limit
  BY <1>3, <1>4, <1>5
<1> QED
  BY <1>6 DEF C

\* A grant is paid for by the day and the week it lies in, and by no other.
LEMMA GrantBudget ==
  ASSUME NEW row, NEW room, NEW k \in 1..MaxGrant, NEW id, NEW media,
         now \in 0..(Last - MaxGrant), policy \in Policies,
         room.settled \subseteq Time, Shrinks(row, room),
         Available(k), Affordable(room, k), room \in Row
  PROVE  Budget(Charged(row), Charged(Add(room, id, media, k)))
<1> DEFINE new == Add(room, id, media, k)
           slice == now..(now + k - 1)
           held == Charged(room)
<1> SUFFICES ASSUME Rule.enabled, NEW t \in Time
             PROVE  /\ Within(Cardinality(Charged(new) \cap Rule.day[t]),
                              Cardinality(Charged(row) \cap Rule.day[t]), Rule.dayLimit[t])
                    /\ Within(Cardinality(Charged(new) \cap Rule.week[t]),
                              Cardinality(Charged(row) \cap Rule.week[t]), Rule.weekLimit)
  BY DEF Budget
<1>1. now \in Time /\ now \in Nat /\ k \in Nat /\ slice \in SUBSET Time
  BY BoundsAssumption DEF Time
<1>2. Charged(new) = held \cup slice
  <2>1. new.settled = room.settled
    BY DEF Add, Row
  <2>2. new.reservations = room.reservations \cup
          {[id |-> id, media |-> media, start |-> now, end |-> now + k]}
    BY DEF Add, Row
  <2>3. Slice([id |-> id, media |-> media, start |-> now, end |-> now + k]) = slice
    BY DEF Slice
  <2> QED
    BY <1>1, <2>1, <2>2, <2>3 DEF Charged
<1>3. held \in SUBSET Time /\ held \subseteq Charged(row)
  BY DEF Charged, Shrinks
<1>4. /\ Rule.day[now] \subseteq Time /\ Rule.week[now] \subseteq Time
      /\ Rule.dayLimit[now] \in Nat /\ Rule.weekLimit \in Nat
  BY <1>1, CalendarAssumption DEF Rule, Rulebook
<1>5. slice \subseteq Rule.day[now]
  BY DEF Available
<1>6. /\ Cardinality(held \cap Rule.day[now]) + Cardinality(slice \ held) <= Rule.dayLimit[now]
      /\ Cardinality(held \cap Rule.week[now]) + Cardinality(slice \ held) <= Rule.weekLimit
  BY DEF Affordable
<1> HIDE DEF new, slice, held
<1>7. ASSUME NEW D, slice \cap D = {}
      PROVE  Cardinality(Charged(new) \cap D) <= Cardinality(Charged(row) \cap D)
  <2>1. Charged(new) \cap D \subseteq Charged(row) \cap D
    BY <1>2, <1>3, <1>7
  <2>2. Charged(row) \cap D \in SUBSET Time
    BY DEF Charged
  <2> QED
    BY <2>1, <2>2, Counting
<1>8. /\ Cardinality(Charged(new) \cap Rule.day[now]) <= Rule.dayLimit[now]
      /\ Cardinality(Charged(new) \cap Rule.week[now]) <= Rule.weekLimit
  BY <1>1, <1>2, <1>3, <1>4, <1>6, PaidOutOf
<1>9. Within(Cardinality(Charged(new) \cap Rule.day[t]),
             Cardinality(Charged(row) \cap Rule.day[t]), Rule.dayLimit[t])
  <2>1. CASE now \in Rule.day[t]
    <3>1. Rule.day[now] = Rule.day[t] /\ Rule.dayLimit[now] = Rule.dayLimit[t]
      BY <1>1, <2>1, CalendarAssumption DEF Rule
    <3> QED
      BY <1>8, <3>1 DEF Within
  <2>2. CASE now \notin Rule.day[t]
    <3>1. \A u \in slice : u \notin Rule.day[t]
      BY <1>1, <1>5, <2>2, CalendarAssumption DEF Rule
    <3> QED
      BY <1>7, <3>1 DEF Within
  <2> QED
    BY <2>1, <2>2
<1>10. Within(Cardinality(Charged(new) \cap Rule.week[t]),
              Cardinality(Charged(row) \cap Rule.week[t]), Rule.weekLimit)
  <2>1. CASE now \in Rule.week[t]
    <3>1. Rule.week[now] = Rule.week[t]
      BY <1>1, <2>1, CalendarAssumption DEF Rule
    <3> QED
      BY <1>8, <3>1 DEF Within
  <2>2. CASE now \notin Rule.week[t]
    <3>1. slice \subseteq Rule.week[now]
      BY <1>1, <1>5, CalendarAssumption DEF Rule
    <3>2. \A u \in slice : u \notin Rule.week[t]
      BY <1>1, <2>2, <3>1, CalendarAssumption DEF Rule
    <3> QED
      BY <1>7, <3>2 DEF Within
  <2> QED
    BY <2>1, <2>2
<1> QED
  BY <1>9, <1>10
\* A granted reservation, in a row that has room for it.
LEMMA GrantRow ==
  ASSUME NEW row, RowOK(row), Room(row),
         now \in 0..(Last - MaxGrant), policy \in Policies,
         NEW id \in Leases, NEW media \in Media,
         NEW wanted \in 1..MaxGrant, NEW g \in Grants(row, id, media, wanted)
  PROVE  LET new == Add(g.row, id, media, g.seconds)
             lease == [id |-> id, media |-> media, start |-> now, end |-> now + g.seconds]
         IN  /\ g.seconds \in 1..MaxGrant
             /\ RowOK(new)
             /\ Room(new)
             /\ lease \in new.reservations
             /\ new.reservations \subseteq row.reservations \cup {lease}
             /\ \A r \in new.reservations : r.id = id => r = lease
             /\ Keeps(row, new, {})
             /\ Budget(Charged(row), Charged(new))
<1> DEFINE pruned == Prune(row)
           room == g.row
           k == g.seconds
           lease == [id |-> id, media |-> media, start |-> now, end |-> now + k]
           new == Add(room, id, media, k)
<1>1. /\ room \in MakeRoom(pruned) /\ k \in 1..wanted
      /\ \A r \in pruned.reservations : r.id # id
      /\ \A j \in 1..k : Available(j) /\ Affordable(room, j)
  BY DEF Grants
<1>2. now \in Nat /\ k \in 1..MaxGrant /\ k \in 1..k
  BY <1>1, BoundsAssumption
<1> HIDE DEF room, k, pruned
<1>3. /\ RowOK(pruned)
      /\ pruned.reservations \subseteq row.reservations
      /\ Keeps(row, pruned, {})
      /\ Shrinks(row, pruned)
  BY <1>2, PruneRow DEF pruned
<1>4. Room(pruned)
  <2>1. /\ Cardinality(pruned.reservations) <= Cardinality(row.reservations)
        /\ Cardinality(pruned.reservations) \in Nat
        /\ Cardinality(row.reservations) \in Nat
    BY <1>3, FS_Subset, FS_CardinalityType DEF RowOK
  <2> QED
    BY <2>1, BoundsAssumption DEF Room
<1>5. /\ RowOK(room)
      /\ Cardinality(room.reservations) < MaxLeases
      /\ room.reservations \subseteq pruned.reservations
      /\ Keeps(pruned, room, {})
      /\ Shrinks(pruned, room)
  BY <1>1, <1>2, <1>3, <1>4, MakeRoomRow
<1>6. Keeps(row, room, {}) /\ Shrinks(row, room)
  BY <1>3, <1>5, KeepsTransitive DEF Shrinks
<1>7. lease \in Reservation
  BY <1>2, BoundsAssumption DEF Reservation, Time
<1>8. new.settled = room.settled /\ new.reservations = room.reservations \cup {lease}
  BY <1>5 DEF Add, RowOK, Row
<1>9. new \in Row
  BY <1>5, <1>7 DEF Add, RowOK, Row
<1>10. /\ IsFiniteSet(new.reservations)
       /\ Cardinality(new.reservations) <= Cardinality(room.reservations) + 1
  <2>1. IsFiniteSet(room.reservations) /\ Cardinality(room.reservations) \in Nat
    BY <1>5, FS_CardinalityType DEF RowOK
  <2> DEFINE R == room.reservations
  <2> HIDE DEF R, lease
  <2>2. /\ IsFiniteSet(R \cup {lease})
        /\ Cardinality(R \cup {lease}) =
             IF lease \in R THEN Cardinality(R) ELSE Cardinality(R) + 1
    BY <2>1, FS_AddElement DEF R
  <2>3. new.reservations = R \cup {lease} /\ room.reservations = R
    BY <1>8 DEF R
  <2> QED
    BY <2>1, <2>2, <2>3
<1>11. Room(new)
  <2>1. Cardinality(room.reservations) \in Nat /\ Cardinality(new.reservations) \in Nat
    BY <1>5, <1>10, FS_CardinalityType DEF RowOK
  <2> QED
    BY <1>5, <1>10, <2>1, BoundsAssumption DEF Room
<1>12. \A r \in room.reservations : r.id # id
  BY <1>1, <1>5
<1>13. \A r \in new.reservations : r.id = id => r = lease
  BY <1>8, <1>12
<1>14. /\ lease.start = now /\ lease.end = now + k /\ lease.id = id
  OBVIOUS
<1> HIDE DEF lease, new
<1>15. RowOK(new)
  <2>1. \A t \in new.settled : t < now + MaxGrant
    BY <1>5, <1>8 DEF RowOK
  <2>2. \A r \in new.reservations :
          r.start <= now /\ r.start < r.end /\ r.end <= r.start + MaxGrant
    BY <1>2, <1>5, <1>8, <1>14, BoundsAssumption DEF RowOK
  <2>3. \A r, q \in new.reservations : r.id = q.id => r = q
    BY <1>5, <1>8, <1>12, <1>14 DEF RowOK
  <2> QED
    BY <1>9, <1>10, <2>1, <2>2, <2>3 DEF RowOK
<1>16. Keeps(row, new, {})
  BY <1>6, <1>8 DEF Keeps, PaidOff
<1>17. Budget(Charged(row), Charged(new))
  <2>1. Available(k) /\ Affordable(room, k)
    BY <1>1, <1>2
  <2>2. room.settled \subseteq Time /\ room \in Row
    BY <1>5 DEF RowOK, Row
  <2> QED
    BY <1>2, <1>6, <2>1, <2>2, GrantBudget DEF new
<1>18. new.reservations \subseteq row.reservations \cup {lease} /\ lease \in new.reservations
  BY <1>3, <1>5, <1>8
<1> QED
  BY <1>2, <1>11, <1>13, <1>15, <1>16, <1>17, <1>18 DEF new, lease, k, room

-----------------------------------------------------------------------------
(* The inductive invariant.                                                *)

\* A second that closing the reservation would charge: it has elapsed, or it was
\* transmitted by the stream that holds it, if there still is one.
Owed(r, t) ==
  /\ t \in Slice(r)
  /\ \/ t < now
     \/ /\ r.media = "music"
        /\ \A s \in Sessions :
              Live(s) /\ pcm[s].id = r.id => t < r.start + Received(s)

Safe(row, t) ==
  Kept(t) => t \in row.settled \/ \E r \in row.reservations : Owed(r, t)

SessionInv(s) ==
  Live(s) => /\ pcm[s].id \in Leases
             /\ pcm[s].start <= now
             /\ pcm[s].start < pcm[s].end
             /\ pcm[s].end <= pcm[s].start + MaxGrant
             /\ pcm[s].base <= pcm[s].sent
             /\ Received(s) <= pcm[s].end - pcm[s].start

Match(s, r) ==
  r.media = "music" /\ r.start = pcm[s].start /\ r.end = pcm[s].end

\* The reservation under a stream's identifier is the grant the stream holds,
\* unless the grant expired and was settled in full, or the save of its
\* renewal failed.
Held(row, s) ==
  /\ pcm[s].phase \in {"streaming", "renewing"} =>
        /\ \A r \in row.reservations : r.id = pcm[s].id => Match(s, r)
        /\ \/ \E r \in row.reservations : r.id = pcm[s].id
           \/ /\ pcm[s].end <= now
              /\ \A t \in pcm[s].start..(pcm[s].end - 1) : Kept(t) => t \in row.settled
  /\ pcm[s].phase = "renewing" => pcm[s].end <= now
  /\ pcm[s].phase = "stopping" =>
        \A r \in row.reservations : r.id = pcm[s].id =>
          /\ r.media = "music"
          /\ Match(s, r) \/ (Received(s) = 0 /\ r.end <= now)

OwnIds == \A s, q \in Sessions : Live(s) /\ Live(q) /\ pcm[s].id = pcm[q].id => s = q

IInv ==
  /\ TypeOK
  /\ RowOK(ledger)
  /\ \A s \in Sessions : SessionInv(s) /\ Held(ledger, s)
  /\ OwnIds
  /\ \A t \in heard : Safe(ledger, t)

LEMMA InitInv == Init => IInv
<1> SUFFICES ASSUME Init
             PROVE  IInv
  OBVIOUS
<1>1. /\ ledger.settled = {} /\ ledger.reservations = {} /\ ledger \in Row
      /\ heard = {} /\ now = 0
  BY DEF Init, Row
<1>2. IsFiniteSet(ledger.reservations) /\ Cardinality(ledger.reservations) = 0
  BY <1>1, FS_EmptySet
<1>3. RowOK(ledger)
  BY <1>1, <1>2 DEF RowOK
<1>4. NoSession \in Session
  BY BoundsAssumption DEF NoSession, Session, Time
<1>5. TypeOK
  BY <1>1, <1>2, <1>4, BoundsAssumption DEF TypeOK, Init
<1>6. \A s \in Sessions : pcm[s].phase = "idle"
  BY DEF Init, NoSession
<1> QED
  BY <1>1, <1>3, <1>5, <1>6 DEF IInv, SessionInv, Held, OwnIds, Live

\* What was owed under a row is owed or settled under the next.
LEMMA SafeCarried ==
  ASSUME NEW old, NEW new, NEW gone, Keeps(old, new, gone),
         \A r \in gone : \A t \in Slice(r) : Kept(t) /\ Owed(r, t) => t \in new.settled,
         NEW t, Safe(old, t)
  PROVE  Safe(new, t)
<1> SUFFICES ASSUME Kept(t)
             PROVE  t \in new.settled \/ \E r \in new.reservations : Owed(r, t)
  BY DEF Safe
<1>1. CASE t \in old.settled
  BY <1>1 DEF Keeps
<1>2. ASSUME NEW r \in old.reservations, Owed(r, t)
      PROVE  t \in new.settled \/ \E q \in new.reservations : Owed(q, t)
  <2>1. t \in Slice(r)
    BY <1>2 DEF Owed
  <2>2. CASE r \in gone
    BY <1>2, <2>1, <2>2
  <2>3. CASE r \in new.reservations
    BY <1>2, <2>3
  <2>4. CASE PaidOff(r, new)
    BY <2>1, <2>4 DEF PaidOff
  <2> QED
    BY <2>2, <2>3, <2>4 DEF Keeps
<1> QED
  BY <1>1, <1>2 DEF Safe

\* The grant of a stream survives what the other voices do to the row.
LEMMA HeldCarried ==
  ASSUME NEW old, NEW new, NEW gone, NEW lease, NEW s, Keeps(old, new, gone),
         new.reservations \subseteq old.reservations \cup {lease},
         lease.id # pcm[s].id, \A r \in gone : r.id # pcm[s].id,
         Held(old, s)
  PROVE  Held(new, s)
<1>1. \A r \in new.reservations : r.id = pcm[s].id => r \in old.reservations
  OBVIOUS
<1>2. ASSUME pcm[s].phase \in {"streaming", "renewing"},
             NEW r \in old.reservations, r.id = pcm[s].id, r \notin new.reservations
      PROVE  /\ pcm[s].end <= now
             /\ \A t \in pcm[s].start..(pcm[s].end - 1) : Kept(t) => t \in new.settled
  <2>1. Match(s, r)
    BY <1>2 DEF Held
  <2>2. PaidOff(r, new)
    BY <1>2 DEF Keeps
  <2> QED
    BY <2>1, <2>2 DEF Match, PaidOff, Slice
<1> QED
  BY <1>1, <1>2 DEF Held, Keeps

\* A step that only replaces the saved row.
LEMMA RowStep ==
  ASSUME IInv, UNCHANGED <<now, policy, pcm, heard>>,
         RowOK(ledger'), Room(ledger'),
         NEW gone \in SUBSET ledger.reservations, NEW lease,
         Keeps(ledger, ledger', gone),
         ledger'.reservations \subseteq ledger.reservations \cup {lease},
         \A s \in Sessions : Live(s) => lease.id # pcm[s].id,
         \A r \in gone : r.media = "external",
         \A r \in gone : \A t \in Slice(r) : Kept(t) /\ t < now => t \in ledger'.settled
  PROVE  IInv'
<1>1. TypeOK'
  BY DEF IInv, TypeOK, RowOK, Room
<1>2. RowOK(ledger)'
  BY DEF RowOK
<1>3. ASSUME NEW s \in Sessions PROVE SessionInv(s)' /\ Held(ledger, s)'
  <2>1. SessionInv(s)'
    BY DEF IInv, SessionInv, Live, Received
  <2>2. CASE Live(s)
    <3>1. \A r \in gone : r.id # pcm[s].id
      BY <2>2 DEF IInv, Held, Match, Live, TypeOK, Session
    <3>2. Held(ledger', s)
      BY <2>2, <3>1, HeldCarried DEF IInv
    <3>3. Held(ledger, s)'
      BY <3>2 DEF Held, Match, Received, Kept
    <3> QED
      BY <2>1, <3>3
  <2>3. CASE ~Live(s)
    BY <2>1, <2>3 DEF Held, Live
  <2> QED
    BY <2>2, <2>3
<1>4. OwnIds'
  BY DEF IInv, OwnIds, Live
<1>5. ASSUME NEW t \in heard' PROVE Safe(ledger, t)'
  <2>1. \A r \in gone : \A u \in Slice(r) : Kept(u) /\ Owed(r, u) => u \in ledger'.settled
    BY DEF Owed
  <2>2. Safe(ledger', t)
    BY <2>1, SafeCarried DEF IInv
  <2> QED
    BY <2>2 DEF Safe, Kept, Owed, Live, Received
<1> QED
  BY <1>1, <1>2, <1>3, <1>4, <1>5 DEF IInv

\* The facts every step starts from.
LEMMA Basics ==
  ASSUME IInv
  PROVE  /\ now \in Nat /\ now \in 0..(Last - MaxGrant) /\ policy \in Policies
         /\ RowOK(ledger) /\ Room(ledger)
         /\ \A r \in ledger.reservations : r.id \in Leases /\ r.media \in Media
         /\ "external" \in Media /\ "music" \in Media
  BY BoundsAssumption DEF IInv, TypeOK, Room, Row, Reservation, Media

LEMMA FewerInRoom ==
  ASSUME NEW row, NEW new, RowOK(row), Room(row), RowOK(new),
         new.reservations \subseteq row.reservations
  PROVE  Room(new)
<1>1. /\ Cardinality(new.reservations) <= Cardinality(row.reservations)
      /\ Cardinality(new.reservations) \in Nat
      /\ Cardinality(row.reservations) \in Nat
  BY FS_Subset, FS_CardinalityType DEF RowOK
<1> QED
  BY <1>1, BoundsAssumption DEF Room

LEMMA ReserveLeaseStep ==
  ASSUME IInv, NEW id \in Leases, NEW wanted \in Requests, ReserveLease(id, wanted)
  PROVE  IInv' /\ Budget(Charged(ledger), Charged(ledger'))
<1>1. PICK g \in Grants(ledger, id, "external", wanted) :
        ledger' = Add(g.row, id, "external", g.seconds)
  BY DEF ReserveLease
<1> DEFINE lease == [id |-> id, media |-> "external", start |-> now, end |-> now + g.seconds]
<1>2. wanted \in 1..MaxGrant
  BY BoundsAssumption
<1>3. /\ RowOK(ledger')
      /\ Room(ledger')
      /\ ledger'.reservations \subseteq ledger.reservations \cup {lease}
      /\ Keeps(ledger, ledger', {})
      /\ Budget(Charged(ledger), Charged(ledger'))
  BY <1>1, <1>2, Basics, GrantRow
<1>4. \A s \in Sessions : Live(s) => lease.id # pcm[s].id
  BY DEF ReserveLease, Fresh
<1>5. UNCHANGED <<now, policy, pcm, heard>>
  BY DEF ReserveLease
<1> HIDE DEF lease
<1>6. IInv'
  BY <1>3, <1>4, <1>5, RowStep
<1> QED
  BY <1>3, <1>6

LEMMA ReleaseLeaseStep ==
  ASSUME IInv, NEW r \in ledger.reservations, NEW consumed, ReleaseLease(r, consumed)
  PROVE  IInv' /\ Budget(Charged(ledger), Charged(ledger'))
<1>1. /\ ledger' = Closed(ledger, r, consumed) /\ r.media = "external"
      /\ Reported(r, consumed) /\ UNCHANGED <<now, policy, pcm, heard>>
  BY DEF ReleaseLease
<1>2. /\ RowOK(ledger')
      /\ ledger'.reservations \subseteq ledger.reservations \ {r}
      /\ Keeps(ledger, ledger', {r})
      /\ Shrinks(ledger, ledger')
      /\ \A t \in Slice(r) : Kept(t) /\ t < now => t \in ledger'.settled
  BY <1>1, Basics, ClosedRow
<1>3. Room(ledger')
  BY <1>2, Basics, FewerInRoom
<1>4. \A s \in Sessions : Live(s) => r.id # pcm[s].id
  BY <1>1 DEF IInv, Held, Match, Live, TypeOK, Session
<1>5. IInv'
  <2>1. ledger'.reservations \subseteq ledger.reservations \cup {r}
    BY <1>2
  <2>2. {r} \in SUBSET ledger.reservations
    OBVIOUS
  <2> QED
    BY <1>1, <1>2, <1>3, <1>4, <2>1, <2>2, RowStep
<1>6. Budget(Charged(ledger), Charged(ledger'))
  BY <1>2, ShrinkingBudget
<1> QED
  BY <1>5, <1>6

LEMMA RenewLeaseStep ==
  ASSUME IInv, NEW r \in ledger.reservations, NEW consumed, NEW wanted \in Requests,
         RenewLease(r, consumed, wanted)
  PROVE  IInv' /\ Budget(Charged(ledger), Charged(ledger'))
<1> DEFINE mid == Closed(ledger, r, consumed)
<1>1. /\ r.media = "external" /\ Reported(r, consumed)
      /\ UNCHANGED <<now, policy, pcm, heard>>
  BY DEF RenewLease
<1>2. PICK g \in Grants(mid, r.id, r.media, wanted) :
        ledger' = Add(g.row, r.id, r.media, g.seconds)
  BY DEF RenewLease
<1> DEFINE lease == [id |-> r.id, media |-> r.media, start |-> now, end |-> now + g.seconds]
<1>3. /\ RowOK(mid)
      /\ mid.reservations \subseteq ledger.reservations \ {r}
      /\ Keeps(ledger, mid, {r})
      /\ Shrinks(ledger, mid)
      /\ \A t \in Slice(r) : Kept(t) /\ t < now => t \in mid.settled
  BY <1>1, Basics, ClosedRow
<1> HIDE DEF mid
<1>4. Room(mid)
  BY <1>3, Basics, FewerInRoom
<1>5. wanted \in 1..MaxGrant /\ r.id \in Leases /\ r.media \in Media
  BY Basics, BoundsAssumption
<1>6. /\ RowOK(ledger')
      /\ Room(ledger')
      /\ ledger'.reservations \subseteq mid.reservations \cup {lease}
      /\ Keeps(mid, ledger', {})
      /\ Budget(Charged(mid), Charged(ledger'))
  BY <1>2, <1>3, <1>4, <1>5, Basics, GrantRow
<1>7. lease.id = r.id
  OBVIOUS
<1> HIDE DEF lease
<1>8. \A s \in Sessions : Live(s) => lease.id # pcm[s].id
  BY <1>1, <1>7 DEF IInv, Held, Match, Live, TypeOK, Session
<1>9. Keeps(ledger, ledger', {r})
  BY <1>3, <1>6, KeepsTransitive
<1>10. \A t \in Slice(r) : Kept(t) /\ t < now => t \in ledger'.settled
  BY <1>3, <1>6 DEF Keeps
<1>11. IInv'
  <2>1. ledger'.reservations \subseteq ledger.reservations \cup {lease}
    BY <1>3, <1>6
  <2>2. {r} \in SUBSET ledger.reservations
    OBVIOUS
  <2> QED
    BY <1>1, <1>6, <1>8, <1>9, <1>10, <2>1, <2>2, RowStep
<1>12. Budget(Charged(ledger), Charged(ledger'))
  BY <1>3, <1>6, Basics, BudgetAfterShrinking
<1> QED
  BY <1>11, <1>12

\* A stream that stays what it was, stops, goes to renew an expired grant or closes.
SameGrant(s) ==
  /\ Live(s)
  /\ pcm'[s].id = pcm[s].id /\ pcm'[s].start = pcm[s].start
  /\ pcm'[s].end = pcm[s].end /\ pcm'[s].base = pcm[s].base
  /\ pcm'[s].sent = pcm[s].sent
  /\ \/ pcm'[s].phase = pcm[s].phase
     \/ pcm'[s].phase = "stopping"
     \/ pcm'[s].phase = "renewing" /\ pcm[s].phase = "streaming" /\ pcm[s].end <= now

\* A step of the streams that leaves the ledger alone.
LEMMA StreamStep ==
  ASSUME IInv, UNCHANGED <<now, ledger, heard>>, policy' \in Policies,
         pcm' \in [Sessions -> Session],
         \A s \in Sessions : pcm'[s].phase # "idle" => SameGrant(s)
  PROVE  IInv'
<1>1. TypeOK' /\ RowOK(ledger)'
  BY DEF IInv, TypeOK, RowOK
<1>2. ASSUME NEW s \in Sessions PROVE SessionInv(s)' /\ Held(ledger, s)'
  <2>1. CASE pcm'[s].phase = "idle"
    BY <2>1 DEF SessionInv, Held, Live
  <2>2. CASE pcm'[s].phase # "idle"
    <3>1. SameGrant(s) /\ SessionInv(s) /\ Held(ledger, s) /\ Live(s)
      BY <2>2 DEF IInv, SameGrant
    <3>2. pcm[s].phase \in {"streaming", "renewing", "stopping"}
      BY <3>1 DEF IInv, TypeOK, Session, Live
    <3>3. SessionInv(s)'
      BY <3>1 DEF SameGrant, SessionInv, Live, Received
    <3>4. Held(ledger, s)'
      BY <2>2, <3>1, <3>2 DEF SameGrant, Held, Match, Received, Kept
    <3> QED
      BY <3>3, <3>4
  <2> QED
    BY <2>1, <2>2
<1>3. OwnIds'
  BY DEF IInv, OwnIds, Live, SameGrant
<1>4. ASSUME NEW t \in heard' PROVE Safe(ledger, t)'
  <2>1. Safe(ledger, t)
    BY DEF IInv
  <2>2. \A r \in ledger.reservations : Owed(r, t) => Owed(r, t)'
    BY DEF Owed, Live, Received, SameGrant, Slice
  <2> QED
    BY <2>1, <2>2 DEF Safe, Kept
<1> QED
  BY <1>1, <1>2, <1>3, <1>4 DEF IInv

LEMMA StreamTypes ==
  ASSUME IInv, NEW s \in Sessions
  PROVE  /\ pcm[s] \in Session /\ pcm \in [Sessions -> Session]
         /\ NoSession \in Session
         /\ pcm[s].start \in Nat /\ pcm[s].end \in Nat
         /\ pcm[s].base \in Nat /\ pcm[s].sent \in Nat
  BY BoundsAssumption DEF IInv, TypeOK, Session, NoSession, Time

LEMMA CheckStep ==
  ASSUME IInv, NEW s \in Sessions, Check(s)
  PROVE  IInv'
<1>1. pcm' \in [Sessions -> Session]
  BY StreamTypes DEF Check, Session
<1>2. \A q \in Sessions : pcm'[q].phase # "idle" => SameGrant(q)
  BY StreamTypes DEF Check, SameGrant, Live, StillAllowed
<1> QED
  BY <1>1, <1>2, StreamStep, Basics DEF Check

LEMMA RenewRefusedStep ==
  ASSUME IInv, NEW s \in Sessions, RenewRefused(s)
  PROVE  IInv'
<1>1. pcm' \in [Sessions -> Session]
  BY StreamTypes DEF RenewRefused, Session
<1>2. \A q \in Sessions : pcm'[q].phase # "idle" => SameGrant(q)
  BY StreamTypes DEF RenewRefused, SameGrant, Live
<1> QED
  BY <1>1, <1>2, StreamStep, Basics DEF RenewRefused

LEMMA CloseFailsStep ==
  ASSUME IInv, NEW s \in Sessions, CloseFails(s)
  PROVE  IInv'
<1>1. pcm' \in [Sessions -> Session]
  BY StreamTypes DEF CloseFails, Session
<1>2. \A q \in Sessions : pcm'[q].phase # "idle" => SameGrant(q)
  BY StreamTypes DEF CloseFails, SameGrant, Live, NoSession
<1> QED
  BY <1>1, <1>2, StreamStep, Basics DEF CloseFails

LEMMA CrashStep ==
  ASSUME IInv, Crash
  PROVE  IInv'
<1>1. pcm' \in [Sessions -> Session]
  BY StreamTypes DEF Crash
<1>2. \A q \in Sessions : pcm'[q].phase # "idle" => SameGrant(q)
  BY DEF Crash, NoSession
<1> QED
  BY <1>1, <1>2, StreamStep, Basics DEF Crash

LEMMA SetPolicyStep ==
  ASSUME IInv, NEW p \in Policies, SetPolicy(p)
  PROVE  IInv'
<1>1. pcm' \in [Sessions -> Session]
  BY StreamTypes DEF SetPolicy, Session
<1>2. \A q \in Sessions : pcm'[q].phase # "idle" => SameGrant(q)
  <2> SUFFICES ASSUME NEW q \in Sessions, pcm'[q].phase # "idle"
               PROVE  SameGrant(q)
    OBVIOUS
  <2>1. pcm[q] \in Session /\ pcm'[q] = [pcm[q] EXCEPT !.current = FALSE]
    BY StreamTypes DEF SetPolicy
  <2>2. /\ pcm'[q].phase = pcm[q].phase /\ pcm'[q].id = pcm[q].id
        /\ pcm'[q].start = pcm[q].start /\ pcm'[q].end = pcm[q].end
        /\ pcm'[q].base = pcm[q].base /\ pcm'[q].sent = pcm[q].sent
    BY <2>1 DEF Session
  <2> QED
    BY <2>2 DEF SameGrant, Live
<1> QED
  BY <1>1, <1>2, StreamStep, Basics DEF SetPolicy

\* A transmitted second is charged by the grant it was sent under.
LEMMA SendStep ==
  ASSUME IInv, NEW s \in Sessions, Send(s)
  PROVE  IInv'
<1>0. PICK u : u = pcm[s].start + Received(s)
  OBVIOUS
<1>1. /\ pcm[s].phase = "streaming" /\ Received(s) < pcm[s].end - pcm[s].start
      /\ pcm' = [pcm EXCEPT ![s].sent = @ + 1]
      /\ heard' = heard \cup {u} /\ UNCHANGED <<now, policy, ledger>>
      /\ Live(s)
  BY <1>0 DEF Send, Live
<1>2. /\ pcm[s].start \in Nat /\ pcm[s].end \in Nat /\ pcm[s].base \in Nat
      /\ pcm[s].sent \in Nat /\ pcm[s].end <= Last + 1 /\ pcm[s].base <= pcm[s].sent
  BY <1>1, StreamTypes, BoundsAssumption DEF Session, IInv, SessionInv
<1>3. u \in pcm[s].start..(pcm[s].end - 1) /\ u \in Time
  BY <1>0, <1>1, <1>2, BoundsAssumption DEF Received, Time
<1>4. pcm' \in [Sessions -> Session]
  BY <1>1, <1>2, StreamTypes DEF Session
<1>5. /\ pcm'[s].sent = pcm[s].sent + 1 /\ pcm'[s].base = pcm[s].base
      /\ pcm'[s].start = pcm[s].start /\ pcm'[s].end = pcm[s].end
      /\ pcm'[s].id = pcm[s].id /\ pcm'[s].phase = pcm[s].phase
      /\ \A q \in Sessions : q # s => pcm'[q] = pcm[q]
  BY <1>1, StreamTypes DEF Session
<1>6. \A q \in Sessions : /\ Live(q)' <=> Live(q)
                         /\ pcm'[q].id = pcm[q].id
                         /\ Received(q)' = IF q = s THEN Received(q) + 1 ELSE Received(q)
  BY <1>2, <1>5 DEF Live, Received
<1>7. TypeOK' /\ RowOK(ledger)'
  BY <1>1, <1>3, <1>4 DEF IInv, TypeOK, RowOK
<1>8. ASSUME NEW q \in Sessions PROVE SessionInv(q)' /\ Held(ledger, q)'
  <2>1. SessionInv(q) /\ Held(ledger, q)
    BY DEF IInv
  <2>2. CASE q = s
    BY <1>1, <1>2, <1>5, <2>1, <2>2 DEF SessionInv, Held, Match, Live, Received, Kept
  <2>3. CASE q # s
    BY <1>1, <1>5, <2>1, <2>3 DEF SessionInv, Held, Match, Live, Received, Kept
  <2> QED
    BY <2>2, <2>3
<1>9. OwnIds'
  BY <1>6 DEF IInv, OwnIds
<1>10. ASSUME NEW t \in heard PROVE Safe(ledger, t)'
  <2>1. Safe(ledger, t)
    BY DEF IInv
  <2>2. ASSUME NEW r \in ledger.reservations, Owed(r, t) PROVE Owed(r, t)'
    <3>1. r.start \in Nat /\ t \in Int
      BY <2>2, BoundsAssumption DEF IInv, TypeOK, Row, Reservation, Time
    <3>2. \A q \in Sessions : Received(q) \in Int
      BY StreamTypes DEF Received
    <3> QED
      BY <1>1, <1>6, <2>2, <3>1, <3>2 DEF Owed, Slice
  <2> QED
    BY <1>1, <2>1, <2>2 DEF Safe, Kept
<1>11. Safe(ledger, u)'
  <2>1. CASE \E r \in ledger.reservations : r.id = pcm[s].id
    <3>1. PICK r \in ledger.reservations : r.id = pcm[s].id
      BY <2>1
    <3>2. Match(s, r)
      BY <1>1, <3>1 DEF IInv, Held
    <3>3. u \in Slice(r) /\ r.media = "music" /\ r.start = pcm[s].start
      BY <1>3, <3>2 DEF Match, Slice
    <3>4. \A q \in Sessions : Live(q)' /\ pcm'[q].id = r.id => q = s
      BY <1>1, <1>6, <3>1 DEF IInv, OwnIds
    <3>5. u < r.start + Received(s)'
      BY <1>0, <1>2, <1>6, <3>3 DEF Received
    <3>6. Owed(r, u)'
      BY <3>3, <3>4, <3>5 DEF Owed, Slice
    <3> QED
      BY <1>1, <3>6 DEF Safe
  <2>2. CASE ~\E r \in ledger.reservations : r.id = pcm[s].id
    BY <1>1, <1>3, <2>2 DEF IInv, Held, Safe, Kept
  <2> QED
    BY <2>1, <2>2
<1> QED
  BY <1>1, <1>7, <1>8, <1>9, <1>10, <1>11 DEF IInv

-----------------------------------------------------------------------------
(* Steps of one stream that also change the saved row.                     *)

LEMMA OtherStreams ==
  ASSUME IInv, NEW s \in Sessions, UNCHANGED now,
         \A q \in Sessions \ {s} : pcm'[q] = pcm[q],
         NEW gone, NEW lease, Keeps(ledger, ledger', gone),
         ledger'.reservations \subseteq ledger.reservations \cup {lease},
         \A q \in Sessions \ {s} : Live(q) => lease.id # pcm[q].id,
         \A q \in Sessions \ {s} : Live(q) => \A r \in gone : r.id # pcm[q].id,
         NEW q \in Sessions \ {s}
  PROVE  SessionInv(q)' /\ Held(ledger, q)'
<1>1. SessionInv(q) /\ Held(ledger, q) /\ pcm'[q] = pcm[q]
  BY DEF IInv
<1>2. SessionInv(q)'
  BY <1>1 DEF SessionInv, Live, Received
<1>3. CASE Live(q)
  <2>1. Held(ledger', q)
    BY <1>1, <1>3, HeldCarried
  <2>2. Held(ledger, q)'
    BY <1>1, <2>1 DEF Held, Match, Received, Kept
  <2> QED
    BY <1>2, <2>2
<1>4. CASE ~Live(q)
  BY <1>1, <1>2, <1>4 DEF Held, Live
<1> QED
  BY <1>3, <1>4

LEMMA StillSafe ==
  ASSUME IInv, UNCHANGED <<now, heard>>, NEW gone, Keeps(ledger, ledger', gone),
         \A r \in gone : \A t \in Slice(r) : Kept(t) /\ Owed(r, t) => t \in ledger'.settled,
         \A r \in ledger.reservations \ gone : \A t : Owed(r, t) => Owed(r, t)',
         NEW t \in heard'
  PROVE  Safe(ledger, t)'
<1> SUFFICES ASSUME Kept(t)
             PROVE  t \in ledger'.settled \/ \E r \in ledger'.reservations : Owed(r, t)'
  BY DEF Safe, Kept
<1>1. Safe(ledger, t)
  BY DEF IInv
<1>2. CASE t \in ledger.settled
  BY <1>2 DEF Keeps
<1>3. ASSUME NEW r \in ledger.reservations, Owed(r, t)
      PROVE  t \in ledger'.settled \/ \E q \in ledger'.reservations : Owed(q, t)'
  <2>1. t \in Slice(r)
    BY <1>3 DEF Owed
  <2>2. CASE r \in gone
    BY <1>3, <2>1, <2>2
  <2>3. CASE r \notin gone
    BY <1>3, <2>1, <2>3 DEF Keeps, PaidOff
  <2> QED
    BY <2>2, <2>3
<1> QED
  BY <1>1, <1>2, <1>3 DEF Safe

LEMMA ActivateStep ==
  ASSUME IInv, NEW s \in Sessions, NEW id \in Leases, Activate(s, id)
  PROVE  IInv' /\ Budget(Charged(ledger), Charged(ledger'))
<1>1. PICK g \in Grants(ledger, id, "music", MaxGrant) :
        /\ ledger' = Add(g.row, id, "music", g.seconds)
        /\ pcm' = [pcm EXCEPT ![s] =
              [phase |-> "streaming", id |-> id, start |-> now, end |-> now + g.seconds,
               base |-> 0, sent |-> 0, since |-> now, current |-> TRUE]]
  BY DEF Activate
<1>2. PICK lease :
        lease = [id |-> id, media |-> "music", start |-> now, end |-> now + g.seconds]
  OBVIOUS
<1>3. /\ g.seconds \in 1..MaxGrant
      /\ RowOK(ledger')
      /\ Room(ledger')
      /\ lease \in ledger'.reservations
      /\ ledger'.reservations \subseteq ledger.reservations \cup {lease}
      /\ \A r \in ledger'.reservations : r.id = id => r = lease
      /\ Keeps(ledger, ledger', {})
      /\ Budget(Charged(ledger), Charged(ledger'))
  <2>1. MaxGrant \in 1..MaxGrant
    BY BoundsAssumption
  <2> QED
    BY <1>1, <1>2, <2>1, Basics, GrantRow
<1>4. /\ UNCHANGED <<now, policy, heard>> /\ ~Live(s)
      /\ \A r \in ledger.reservations : r.id # id
      /\ \A q \in Sessions : Live(q) => pcm[q].id # id
  BY DEF Activate, Fresh
<1>5. /\ pcm'[s].phase = "streaming" /\ pcm'[s].id = id /\ pcm'[s].start = now
      /\ pcm'[s].end = now + g.seconds /\ pcm'[s].base = 0 /\ pcm'[s].sent = 0
      /\ \A q \in Sessions \ {s} : pcm'[q] = pcm[q]
  BY <1>1, StreamTypes
<1>6. pcm' \in [Sessions -> Session]
  <2>1. now \in Time /\ now + g.seconds \in 0..(Last + 1)
    BY <1>3, Basics, BoundsAssumption DEF Time
  <2>2. [phase |-> "streaming", id |-> id, start |-> now, end |-> now + g.seconds,
         base |-> 0, sent |-> 0, since |-> now, current |-> TRUE] \in Session
    BY <2>1 DEF Session
  <2> QED
    BY <1>1, <2>2, StreamTypes
<1>7. TypeOK' /\ RowOK(ledger)'
  BY <1>3, <1>4, <1>6 DEF IInv, TypeOK, RowOK, Room
<1>8. ASSUME NEW q \in Sessions PROVE SessionInv(q)' /\ Held(ledger, q)'
  <2>1. CASE q = s
    <3>1. SessionInv(s)'
      BY <1>3, <1>4, <1>5, Basics, BoundsAssumption DEF SessionInv, Live, Received
    <3>2. Held(ledger, s)'
      BY <1>2, <1>3, <1>5 DEF Held, Match
    <3> QED
      BY <2>1, <3>1, <3>2
  <2>2. CASE q # s
    <3>1. \A p \in Sessions \ {s} : Live(p) => lease.id # pcm[p].id
      BY <1>2, <1>4
    <3>2. \A p \in Sessions \ {s} : Live(p) => \A r \in {} : r.id # pcm[p].id
      OBVIOUS
    <3>3. q \in Sessions \ {s}
      BY <2>2
    <3> QED
      BY <1>3, <1>4, <1>5, <3>1, <3>2, <3>3, OtherStreams
  <2> QED
    BY <2>1, <2>2
<1>9. OwnIds'
  BY <1>4, <1>5 DEF IInv, OwnIds, Live
<1>10. ASSUME NEW t \in heard' PROVE Safe(ledger, t)'
  <2>1. \A r \in ledger.reservations \ {} : \A u : Owed(r, u) => Owed(r, u)'
    BY <1>4, <1>5 DEF Owed, Live, Received, Slice
  <2>2. \A r \in {} : \A u \in Slice(r) : Kept(u) /\ Owed(r, u) => u \in ledger'.settled
    OBVIOUS
  <2> QED
    BY <1>3, <1>4, <2>1, <2>2, StillSafe
<1>11. IInv'
  BY <1>7, <1>8, <1>9, <1>10 DEF IInv
<1> QED
  BY <1>3, <1>11

\* The grant a stream goes to renew has expired, and settling it charges all of it.
LEMMA ExpiredGrant ==
  ASSUME IInv, NEW s \in Sessions, NEW r \in ledger.reservations, r.id = pcm[s].id,
         pcm[s].phase = "renewing"
  PROVE  /\ r.end <= now /\ r.media = "music" /\ Live(s)
         /\ \A t \in Slice(r) : t < now
<1>1. Match(s, r) /\ pcm[s].end <= now /\ Live(s)
  BY DEF IInv, Held, Live
<1>2. r.start \in Nat /\ r.end \in Nat
  BY BoundsAssumption DEF IInv, TypeOK, Row, Reservation, Time
<1> QED
  BY <1>1, <1>2, Basics DEF Match, Slice

LEMMA RenewStep ==
  ASSUME IInv, NEW s \in Sessions, NEW r \in ledger.reservations, NEW acknowledged,
         Renew(s, r, acknowledged)
  PROVE  IInv' /\ Budget(Charged(ledger), Charged(ledger'))
<1>1. PICK mid : mid = Closed(ledger, r, acknowledged)
  OBVIOUS
<1>2. PICK g \in Grants(mid, r.id, "music", MaxGrant) :
        \/ /\ ledger' = Add(g.row, r.id, "music", g.seconds)
           /\ pcm' = Renewed(s, g.seconds, "streaming")
        \/ /\ pcm' = Renewed(s, g.seconds, "stopping")
           /\ UNCHANGED ledger
  BY <1>1 DEF Renew
<1>3. PICK lease :
        lease = [id |-> r.id, media |-> "music", start |-> now, end |-> now + g.seconds]
  OBVIOUS
<1>4. /\ pcm[s].phase = "renewing" /\ r.id = pcm[s].id /\ Reported(r, acknowledged)
      /\ UNCHANGED <<now, policy, heard>>
  BY DEF Renew
<1>5. r.end <= now /\ r.media = "music" /\ Live(s) /\ \A t \in Slice(r) : t < now
  BY <1>4, ExpiredGrant
<1>6. /\ RowOK(mid)
      /\ mid.reservations \subseteq ledger.reservations \ {r}
      /\ Keeps(ledger, mid, {r})
      /\ Shrinks(ledger, mid)
      /\ \A t \in Slice(r) : Kept(t) /\ t < now => t \in mid.settled
  BY <1>1, <1>4, Basics, ClosedRow
<1>7. Room(mid)
  BY <1>6, Basics, FewerInRoom
<1>8. \A new : new = Add(g.row, r.id, "music", g.seconds) =>
        /\ g.seconds \in 1..MaxGrant
        /\ RowOK(new)
        /\ Room(new)
        /\ lease \in new.reservations
        /\ new.reservations \subseteq mid.reservations \cup {lease}
        /\ \A q \in new.reservations : q.id = r.id => q = lease
        /\ Keeps(mid, new, {})
        /\ Budget(Charged(mid), Charged(new))
  <2>1. MaxGrant \in 1..MaxGrant
    BY BoundsAssumption
  <2> QED
    BY <1>3, <1>6, <1>7, <2>1, Basics, GrantRow
<1>9. g.seconds \in 1..MaxGrant
  BY <1>8
<1>10. /\ pcm'[s].phase \in {"streaming", "stopping"} /\ pcm'[s].id = r.id
       /\ pcm'[s].start = now /\ pcm'[s].end = now + g.seconds
       /\ pcm'[s].base = pcm[s].sent /\ pcm'[s].sent = pcm[s].sent
       /\ \A q \in Sessions \ {s} : pcm'[q] = pcm[q]
  BY <1>2, <1>4, StreamTypes DEF Renewed, Session
<1>11. pcm' \in [Sessions -> Session]
  <2>1. now \in Time /\ now + g.seconds \in 0..(Last + 1)
    BY <1>9, Basics, BoundsAssumption DEF Time
  <2> QED
    BY <1>2, <2>1, StreamTypes, SMTT(30) DEF Renewed, Session
<1>12. SessionInv(s)' /\ Received(s)' = 0
  <2>1. r.id \in Leases
    BY Basics
  <2> QED
    BY <1>4, <1>9, <1>10, <2>1, Basics, StreamTypes, BoundsAssumption
    DEF SessionInv, Live, Received
<1>13. OwnIds'
  BY <1>4, <1>5, <1>10 DEF IInv, OwnIds, Live
<1>14. \A q \in Sessions \ {s} : Live(q) => r.id # pcm[q].id
  BY <1>4, <1>5 DEF IInv, OwnIds
<1>15. CASE /\ ledger' = Add(g.row, r.id, "music", g.seconds)
            /\ pcm' = Renewed(s, g.seconds, "streaming")
  <2>1. /\ RowOK(ledger')
        /\ Room(ledger')
        /\ lease \in ledger'.reservations
        /\ ledger'.reservations \subseteq mid.reservations \cup {lease}
        /\ \A q \in ledger'.reservations : q.id = r.id => q = lease
        /\ Keeps(mid, ledger', {})
        /\ Budget(Charged(mid), Charged(ledger'))
    BY <1>8, <1>15
  <2>2. Keeps(ledger, ledger', {r})
    BY <1>6, <2>1, KeepsTransitive
  <2>3. Budget(Charged(ledger), Charged(ledger'))
    BY <1>6, <2>1, Basics, BudgetAfterShrinking
  <2>4. TypeOK' /\ RowOK(ledger)'
    BY <1>4, <1>11, <2>1 DEF IInv, TypeOK, RowOK, Room
  <2>5. pcm'[s].phase = "streaming"
    BY <1>15, StreamTypes DEF Renewed, Session
  <2>6. Held(ledger, s)'
    BY <1>3, <1>10, <2>1, <2>5 DEF Held, Match
  <2>7. ASSUME NEW q \in Sessions \ {s} PROVE SessionInv(q)' /\ Held(ledger, q)'
    <3>1. \A p \in Sessions \ {s} : Live(p) => lease.id # pcm[p].id
      BY <1>3, <1>14
    <3>2. \A p \in Sessions \ {s} : Live(p) => \A o \in {r} : o.id # pcm[p].id
      BY <1>14
    <3>3. ledger'.reservations \subseteq ledger.reservations \cup {lease}
      BY <1>6, <2>1
    <3> QED
      BY <1>4, <1>10, <2>2, <3>1, <3>2, <3>3, OtherStreams
  <2>8. ASSUME NEW t \in heard' PROVE Safe(ledger, t)'
    <3>1. \A o \in ledger.reservations \ {r} : o.id # r.id
      BY DEF IInv, RowOK
    <3>2. \A o \in ledger.reservations \ {r} : \A u : Owed(o, u) => Owed(o, u)'
      BY <1>4, <1>10, <3>1 DEF Owed, Live, Received, Slice
    <3>3. \A o \in {r} : \A u \in Slice(o) : Kept(u) /\ Owed(o, u) => u \in ledger'.settled
      BY <1>5, <1>6, <2>1 DEF Keeps
    <3> QED
      BY <1>4, <2>2, <3>2, <3>3, StillSafe
  <2> QED
    BY <1>12, <1>13, <2>3, <2>4, <2>6, <2>7, <2>8 DEF IInv
<1>16. CASE pcm' = Renewed(s, g.seconds, "stopping") /\ UNCHANGED ledger
  <2>1. TypeOK' /\ RowOK(ledger)'
    BY <1>4, <1>11, <1>16 DEF IInv, TypeOK, RowOK
  <2>2. pcm'[s].phase = "stopping"
    BY <1>16, StreamTypes DEF Renewed, Session
  <2>3. Held(ledger, s)'
    <3>1. \A o \in ledger.reservations : o.id = r.id => o = r
      BY DEF IInv, RowOK
    <3> QED
      BY <1>4, <1>5, <1>10, <1>12, <1>16, <2>2, <3>1 DEF Held
  <2>4. Keeps(ledger, ledger', {}) /\ ledger'.reservations \subseteq ledger.reservations \cup {lease}
    BY <1>16 DEF Keeps
  <2>5. ASSUME NEW q \in Sessions \ {s} PROVE SessionInv(q)' /\ Held(ledger, q)'
    <3>1. \A p \in Sessions \ {s} : Live(p) => lease.id # pcm[p].id
      BY <1>3, <1>14
    <3>2. \A p \in Sessions \ {s} : Live(p) => \A o \in {} : o.id # pcm[p].id
      OBVIOUS
    <3> QED
      BY <1>4, <1>10, <2>4, <3>1, <3>2, OtherStreams
  <2>6. ASSUME NEW t \in heard' PROVE Safe(ledger, t)'
    <3>1. \A o \in ledger.reservations : o.id = r.id => o = r
      BY DEF IInv, RowOK
    <3>2. \A o \in ledger.reservations \ {} : \A u : Owed(o, u) => Owed(o, u)'
      BY <1>4, <1>5, <1>10, <3>1 DEF Owed, Live, Received, Slice
    <3>3. \A o \in {} : \A u \in Slice(o) : Kept(u) /\ Owed(o, u) => u \in ledger'.settled
      OBVIOUS
    <3> QED
      BY <1>4, <2>4, <3>2, <3>3, StillSafe
  <2>7. Budget(Charged(ledger), Charged(ledger'))
    BY <1>16, ShrinkingBudget DEF Shrinks
  <2> QED
    BY <1>12, <1>13, <2>1, <2>3, <2>5, <2>6, <2>7 DEF IInv
<1> QED
  BY <1>2, <1>15, <1>16

LEMMA CloseStep ==
  ASSUME IInv, NEW s \in Sessions, NEW r \in ledger.reservations, Close(s, r)
  PROVE  IInv' /\ Budget(Charged(ledger), Charged(ledger'))
<1>1. /\ pcm[s].phase \in {"streaming", "stopping"} /\ r.id = pcm[s].id /\ Live(s)
      /\ Reported(r, Received(s))
      /\ ledger' = Closed(ledger, r, Received(s))
      /\ pcm' = [pcm EXCEPT ![s] = NoSession]
      /\ UNCHANGED <<now, policy, heard>>
  BY DEF Close, Live
<1>2. /\ RowOK(ledger')
      /\ ledger'.reservations \subseteq ledger.reservations \ {r}
      /\ Keeps(ledger, ledger', {r})
      /\ Shrinks(ledger, ledger')
      /\ \A t \in Slice(r) :
            Kept(t) /\ (t < now \/ t < r.start + Received(s)) => t \in ledger'.settled
  BY <1>1, Basics, ClosedRow
<1>3. Room(ledger')
  BY <1>2, Basics, FewerInRoom
<1>4. /\ pcm' \in [Sessions -> Session] /\ pcm'[s].phase = "idle"
      /\ \A q \in Sessions \ {s} : pcm'[q] = pcm[q]
  BY <1>1, StreamTypes DEF NoSession
<1>5. TypeOK' /\ RowOK(ledger)'
  BY <1>1, <1>2, <1>3, <1>4 DEF IInv, TypeOK, RowOK, Room
<1>6. \A q \in Sessions \ {s} : Live(q) => r.id # pcm[q].id
  BY <1>1 DEF IInv, OwnIds
<1>7. ASSUME NEW q \in Sessions PROVE SessionInv(q)' /\ Held(ledger, q)'
  <2>1. CASE q = s
    BY <1>4, <2>1 DEF SessionInv, Held, Live
  <2>2. CASE q # s
    <3>1. \A p \in Sessions \ {s} : Live(p) => \A o \in {r} : o.id # pcm[p].id
      BY <1>6
    <3>2. ledger'.reservations \subseteq ledger.reservations \cup {r} /\ q \in Sessions \ {s}
      BY <1>2, <2>2
    <3> QED
      BY <1>1, <1>2, <1>4, <1>6, <3>1, <3>2, OtherStreams
  <2> QED
    BY <2>1, <2>2
<1>8. OwnIds'
  BY <1>4 DEF IInv, OwnIds, Live
<1>9. ASSUME NEW t \in heard' PROVE Safe(ledger, t)'
  <2>1. \A o \in ledger.reservations \ {r} : \A u : Owed(o, u) => Owed(o, u)'
    BY <1>1, <1>4 DEF Owed, Live, Received, Slice
  <2>2. \A o \in {r} : \A u \in Slice(o) : Kept(u) /\ Owed(o, u) => u \in ledger'.settled
    BY <1>1, <1>2 DEF Owed
  <2> QED
    BY <1>1, <1>2, <2>1, <2>2, StillSafe
<1>10. Budget(Charged(ledger), Charged(ledger'))
  BY <1>2, ShrinkingBudget
<1> QED
  BY <1>5, <1>7, <1>8, <1>9, <1>10 DEF IInv

\* As time passes grants expire, and less of the past has to be kept.
LEMMA TickStep ==
  ASSUME IInv, Tick
  PROVE  IInv'
<1>1. /\ now' = now + 1 /\ now + MaxGrant < Last /\ UNCHANGED <<policy, ledger, pcm>>
      /\ heard' = {t \in heard \cup (IF Active THEN {now} ELSE {}) : Counted(t)}
  BY DEF Tick
<1>2. now \in Nat /\ now \in Time
  BY Basics, BoundsAssumption DEF Time
<1>3. \A t \in Int : Kept(t)' => Kept(t)
  BY <1>1, <1>2, BoundsAssumption DEF Kept
<1>4. TypeOK'
  <2>1. now' \in 0..(Last - MaxGrant)
    BY <1>1, <1>2, BoundsAssumption
  <2>2. heard' \in SUBSET Time
    BY <1>1, <1>2 DEF IInv, TypeOK
  <2> QED
    BY <1>1, <2>1, <2>2 DEF IInv, TypeOK
<1>5. RowOK(ledger)'
  BY <1>1, <1>2, BoundsAssumption DEF IInv, RowOK, Row, Reservation, Time
<1>6. ASSUME NEW s \in Sessions PROVE SessionInv(s)' /\ Held(ledger, s)'
  <2>1. SessionInv(s) /\ Held(ledger, s)
    BY DEF IInv
  <2>2. SessionInv(s)'
    BY <1>1, <1>2, <2>1, StreamTypes DEF SessionInv, Live, Received
  <2>3. \A r \in ledger.reservations : r.end \in Nat
    BY BoundsAssumption DEF IInv, TypeOK, Row, Reservation
  <2>4. \A t \in pcm[s].start..(pcm[s].end - 1) : Kept(t)' => Kept(t)
    BY <1>3
  <2>5. \A e \in Nat : e <= now => e <= now'
    BY <1>1, <1>2
  <2>6. Held(ledger, s)'
    BY <1>1, <2>1, <2>3, <2>4, <2>5, StreamTypes DEF Held, Match, Received
  <2> QED
    BY <2>2, <2>6
<1>7. OwnIds'
  BY <1>1 DEF IInv, OwnIds, Live
<1>8. ASSUME NEW t \in heard' PROVE Safe(ledger, t)'
  <2> SUFFICES ASSUME Kept(t)'
               PROVE  t \in ledger.settled \/ \E r \in ledger.reservations : Owed(r, t)'
    BY <1>1 DEF Safe
  <2>1. CASE t \in heard
    <3>1. t \in Int /\ Safe(ledger, t)
      BY <2>1, BoundsAssumption DEF IInv, TypeOK, Time
    <3>2. \A r \in ledger.reservations : Owed(r, t) => Owed(r, t)'
      BY <1>1, <1>2, <3>1 DEF Owed, Live, Received, Slice
    <3> QED
      BY <1>3, <3>1, <3>2 DEF Safe
  <2>2. CASE t \notin heard
    <3>1. t = now /\ Active
      BY <1>1, <2>2
    <3>2. PICK r \in ledger.reservations : t \in Slice(r)
      BY <3>1 DEF Active
    <3>3. Owed(r, t)'
      BY <1>1, <1>2, <3>1, <3>2 DEF Owed, Slice
    <3> QED
      BY <3>3
  <2> QED
    BY <2>1, <2>2
<1> QED
  BY <1>4, <1>5, <1>6, <1>7, <1>8 DEF IInv

-----------------------------------------------------------------------------
(* The theorems.                                                           *)

\* Every step keeps the invariant, and under one policy keeps the budgets.
LEMMA NextStep ==
  ASSUME IInv, [Next]_vars
  PROVE  IInv' /\ (policy' = policy => Budget(Charged(ledger), Charged(ledger')))
<1>1. CASE \E id \in Leases, wanted \in Requests : ReserveLease(id, wanted)
  BY <1>1, ReserveLeaseStep
<1>2. CASE \E r \in ledger.reservations, wanted \in Requests :
             \E consumed \in 0..MaxGrant : RenewLease(r, consumed, wanted)
  BY <1>2, RenewLeaseStep
<1>3. CASE \E r \in ledger.reservations :
             \E consumed \in 0..MaxGrant : ReleaseLease(r, consumed)
  BY <1>3, ReleaseLeaseStep
<1>4. CASE \E s \in Sessions : \E id \in Leases : Activate(s, id)
  BY <1>4, ActivateStep
<1>5. CASE \E s \in Sessions, r \in ledger.reservations :
             \E acknowledged \in 0..Received(s) : Renew(s, r, acknowledged)
  BY <1>5, RenewStep
<1>6. CASE \E s \in Sessions, r \in ledger.reservations : Close(s, r)
  BY <1>6, CloseStep
<1>7. UNCHANGED ledger => Budget(Charged(ledger), Charged(ledger'))
  BY ShrinkingBudget DEF Shrinks
<1>8. CASE \E s \in Sessions : Send(s)
  BY <1>7, <1>8, SendStep DEF Send
<1>9. CASE \E s \in Sessions : Check(s)
  BY <1>7, <1>9, CheckStep DEF Check
<1>10. CASE \E s \in Sessions : RenewRefused(s)
  BY <1>7, <1>10, RenewRefusedStep DEF RenewRefused
<1>11. CASE \E s \in Sessions : CloseFails(s)
  BY <1>7, <1>11, CloseFailsStep DEF CloseFails
<1>12. CASE Crash
  BY <1>7, <1>12, CrashStep DEF Crash
<1>13. CASE \E p \in Policies : SetPolicy(p)
  BY <1>7, <1>13, SetPolicyStep DEF SetPolicy
<1>14. CASE Tick
  BY <1>7, <1>14, TickStep DEF Tick
<1>15. CASE UNCHANGED vars
  <2>1. UNCHANGED <<now, policy, ledger, pcm, heard>>
    BY <1>15 DEF vars
  <2>2. \A s \in Sessions : pcm'[s].phase # "idle" => SameGrant(s)
    BY <2>1 DEF SameGrant, Live
  <2>3. policy' \in Policies /\ pcm' \in [Sessions -> Session]
    BY <2>1 DEF IInv, TypeOK
  <2>4. IInv'
    BY <2>1, <2>2, <2>3, StreamStep
  <2> QED
    BY <1>7, <2>1, <2>4
<1> QED
  BY <1>1, <1>2, <1>3, <1>4, <1>5, <1>6, <1>8, <1>9, <1>10, <1>11, <1>12, <1>13,
     <1>14, <1>15 DEF Next

LEMMA LedgerInvariant == Spec => []IInv
<1>1. IInv /\ [Next]_vars => IInv'
  BY NextStep
<1> QED
  BY <1>1, InitInv, PTL DEF Spec

\* Every value stays of its type and no owner holds more reservations than its slots.
THEOREM TypeCorrect == Spec => []TypeOK
<1>1. IInv => TypeOK
  BY DEF IInv
<1> QED
  BY <1>1, LedgerInvariant, PTL

\* Listening is never refunded: whatever is reported, renewed, released, evicted,
\* pruned or lost in a crash, the seconds listened to stay charged for as long as
\* a week counts them (storage.rs prune and make_room, leases.rs settle).
THEOREM ListeningIsCharged == Spec => []HeardIsCharged
<1>1. IInv => HeardIsCharged
  <2> SUFFICES ASSUME IInv, NEW p \in Policies, NEW t \in heard, t \in Rules[p].week[now]
               PROVE  t \in Charged(ledger)
    BY DEF HeardIsCharged
  <2>1. now \in Time /\ t \in Time
    BY BoundsAssumption DEF IInv, TypeOK, Time
  <2>2. Kept(t)
    BY <2>1, CalendarAssumption DEF Kept
  <2>3. t \in ledger.settled \/ \E r \in ledger.reservations : Owed(r, t)
    BY <2>2 DEF IInv, Safe
  <2> QED
    BY <2>1, <2>3 DEF Charged, Owed
<1> QED
  BY <1>1, LedgerInvariant, PTL

\* No step of any voice takes a day or a week over the budget of an unchanged
\* policy (leases.rs reserve: the budget counts settled and reserved seconds).
THEOREM LimitsHold == Spec => WithinLimits
<1>1. IInv /\ [Next]_vars => [policy' = policy => Budget(Charged(ledger), Charged(ledger'))]_vars
  BY NextStep
<1> QED
  BY <1>1, LedgerInvariant, PTL DEF Spec, WithinLimits

\* A stream that plays on an unexpired grant has that very reservation in the saved
\* row (storage.rs make_room evicts expired reservations only).
THEOREM StreamsAreBacked == Spec => []StreamIsBacked
<1>1. IInv => StreamIsBacked
  <2> SUFFICES ASSUME IInv, NEW s \in Sessions, pcm[s].phase = "streaming", now < pcm[s].end
               PROVE  [id |-> pcm[s].id, media |-> "music", start |-> pcm[s].start,
                       end |-> pcm[s].end] \in ledger.reservations
    BY DEF StreamIsBacked
  <2>1. ~(pcm[s].end <= now)
    BY Basics, StreamTypes
  <2>2. PICK r \in ledger.reservations : r.id = pcm[s].id
    BY <2>1 DEF IInv, Held
  <2>3. Match(s, r) /\ r \in Reservation
    BY <2>2 DEF IInv, Held, TypeOK, Row
  <2>4. r = [id |-> pcm[s].id, media |-> "music", start |-> pcm[s].start, end |-> pcm[s].end]
    BY <2>2, <2>3 DEF Match, Reservation
  <2> QED
    BY <2>4
<1> QED
  BY <1>1, LedgerInvariant, PTL

\* However long someone listens without a pause, closing a lease leaves no settled
\* interval that a saved document would refuse (storage.rs prune and validate).
THEOREM LeasesCanClose == Spec => []ClosingFits
<1>1. IInv => ClosingFits
  <2> SUFFICES ASSUME IInv, NEW r \in ledger.reservations,
                      NEW consumed \in 0..(r.end - r.start)
               PROVE  SpansFit(Closed(ledger, r, consumed))
    BY DEF ClosingFits
  <2>1. Reported(r, consumed)
    BY DEF IInv, RowOK, Reported
  <2> QED
    BY <2>1, Basics, ClosedRow
<1> QED
  BY <1>1, LedgerInvariant, PTL

=============================================================================
