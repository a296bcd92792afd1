--------------------------- MODULE ParentalLedger ---------------------------
(***************************************************************************)
(* The listening ledger of one supervised account                          *)
(* (aede-core/src/parental/leases.rs, storage.rs) and the two kinds of      *)
(* player that spend it: native clients that hold leases for radio and     *)
(* podcasts (aede-server/src/parental/http.rs) and the server's own PCM     *)
(* sessions (aede-server/src/parental/pcm.rs).                              *)
(*                                                                         *)
(* Time is counted in whole seconds, the unit of grants and of the         *)
(* calendar; a second t stands for the half-open interval [t, t+1), so a   *)
(* sorted union of intervals is the set of its seconds and a duration is a *)
(* cardinality.  Every handler holds the store lock from its load to its   *)
(* save, and a failed handler saves nothing: each is one step.  The wall   *)
(* clock is taken to be monotone.                                          *)
(***************************************************************************)
EXTENDS Integers, FiniteSets

CONSTANTS
    Leases,      \* lease identifiers
    Sessions,    \* the PCM streams the account may have open at once
    Policies,    \* the policies an administrator may save
    Rules,       \* what each policy says, with its calendar resolved
    MaxGrant,    \* the longest grant (10 s in the code)
    Requests,    \* the lengths clients ask for (1 to 10 s in the code)
    MaxLeases,   \* outstanding reservations per owner (8)
    MaxSettled,  \* settled intervals per owner (8192)
    Retain,      \* how long usage is kept (32 days)
    Last,        \* the last second of the calendar
    NoLease      \* the identifier of a session that is not open

Time == 0..Last
Media == {"music", "external"}

(* A policy with its time zone and weekday tables resolved: the civil day   *)
(* and week of each second, the seconds inside a listening window, and the *)
(* budgets.  An absent budget is one that no usage reaches.                *)
Rulebook ==
    [enabled : BOOLEAN, media : SUBSET Media, open : SUBSET Time,
     day : [Time -> SUBSET Time], week : [Time -> SUBSET Time],
     dayLimit : [Time -> Nat], weekLimit : Nat]

ASSUME BoundsAssumption ==
    /\ MaxGrant \in Nat \ {0}
    /\ Requests \subseteq 1..MaxGrant
    /\ MaxLeases \in Nat \ {0}
    /\ MaxSettled \in Nat
    /\ Last \in Nat
    /\ Retain \in Nat
    /\ MaxGrant <= Retain
    /\ MaxGrant <= Last
    /\ NoLease \notin Leases

(* Days and weeks partition the calendar, and usage outlives the week it   *)
(* counts in: 32 days are longer than a week and a grant together.         *)
ASSUME CalendarAssumption ==
    /\ Rules \in [Policies -> Rulebook]
    /\ \A p \in Policies, t, u \in Time :
          /\ u \in Rules[p].day[t] =>
                /\ Rules[p].day[u] = Rules[p].day[t]
                /\ Rules[p].dayLimit[u] = Rules[p].dayLimit[t]
          /\ u \in Rules[p].week[t] =>
                /\ Rules[p].week[u] = Rules[p].week[t]
                /\ t + MaxGrant <= u + Retain
          /\ t \in Rules[p].day[t]
          /\ Rules[p].day[t] \subseteq Rules[p].week[t]

VARIABLES
    now,      \* the wall clock
    policy,   \* the policy in force
    ledger,   \* the saved row: settled seconds and outstanding reservations
    pcm,      \* the PCM sessions
    heard     \* history: the seconds the account has lately listened to

vars == <<now, policy, ledger, pcm, heard>>

Reservation == [id : Leases, media : Media, start : Time, end : 0..(Last + 1)]
Row == [settled : SUBSET Time, reservations : SUBSET Reservation]

(* What a session holds in memory: the grant (id, start, end), the length  *)
(* already transmitted when the grant began (base), the length transmitted *)
(* altogether, when the stream started, and whether the policy it was      *)
(* admitted under is still the current one.                                *)
Session ==
    [phase : {"idle", "streaming", "renewing", "stopping"}, id : Leases \cup {NoLease},
     start : Time, end : 0..(Last + 1), base : Nat, sent : Nat,
     since : Time, current : BOOLEAN]

NoSession ==
    [phase |-> "idle", id |-> NoLease, start |-> 0, end |-> 0, base |-> 0,
     sent |-> 0, since |-> 0, current |-> FALSE]

Rule == Rules[policy]
Live(s) == pcm[s].phase # "idle"
(* Transmitted under the grant in hand. *)
Received(s) == pcm[s].sent - pcm[s].base

-----------------------------------------------------------------------------
(* The ledger.                                                             *)

Slice(r) == r.start .. (r.end - 1)

(* The union of settled and reserved intervals: what the budgets count. *)
Charged(row) ==
    {t \in Time : t \in row.settled \/ \E r \in row.reservations : t \in Slice(r)}

\* Mutated form: the retention is measured from the clock alone.
Forgotten_ByClock(row, t) == t + Retain < now

(* Before the retention cutoff.  The horizon the cutoff is measured from is *)
(* the clock, or the end of the last settled interval when that is ahead,   *)
(* by one grant at most.                                                   *)
Forgotten(row, t) ==
    /\ t + Retain < now + MaxGrant
    /\ \/ t + Retain < now
       \/ \E u \in row.settled : t + Retain <= u

Prune(row) ==
    [settled |-> {t \in row.settled : ~Forgotten(row, t)},
     reservations |-> {r \in row.reservations : ~Forgotten(row, r.end - 1)}]

\* Mutated form: a full row gives up its oldest reservation even if it is still active.
MakeRoom_Active(row) ==
    IF Cardinality(row.reservations) < MaxLeases
    THEN {row}
    ELSE {Prune([settled |-> row.settled \cup Slice(r),
                 reservations |-> row.reservations \ {r}]) :
             r \in {o \in row.reservations :
                        \A q \in row.reservations : o.end <= q.end}}
\* Mutated form: the slots are not counted.
MakeRoom_Unbounded(row) == {row}

(* When the slots are full the reservation that expired first is settled in *)
(* full; among equals the list order decides.                              *)
Expired(row) == {r \in row.reservations : r.end <= now}
Oldest(row) == {r \in Expired(row) : \A o \in Expired(row) : r.end <= o.end}
MakeRoom(row) ==
    IF Cardinality(row.reservations) < MaxLeases
    THEN {row}
    ELSE {Prune([settled |-> row.settled \cup Slice(r),
                 reservations |-> row.reservations \ {r}]) : r \in Oldest(row)}

(* What a saved document must satisfy: no settled interval longer than the *)
(* retention and at most MaxSettled of them.                               *)
SpansFit(row) == \A t \in row.settled : ~(t..(t + Retain) \subseteq row.settled)
Pieces(row) == Cardinality({t \in row.settled : t - 1 \notin row.settled})
Valid(row) == SpansFit(row) /\ Pieces(row) <= MaxSettled

\* Mutated form: only settled usage counts against the budget.
Affordable_Settled(row, seconds) ==
    LET extra == Cardinality((now..(now + seconds - 1)) \ row.settled)
    IN Rule.enabled =>
          /\ Cardinality(row.settled \cap Rule.day[now]) + extra <= Rule.dayLimit[now]
          /\ Cardinality(row.settled \cap Rule.week[now]) + extra <= Rule.weekLimit

(* The current category, window and budget checks of a reservation. *)
Admitted(media) == Rule.enabled => media \in Rule.media /\ now \in Rule.open
(* The grant ends no later than the next boundary of the schedule or day. *)
Available(seconds) ==
    Rule.enabled => now..(now + seconds - 1) \subseteq Rule.day[now] \cap Rule.open
Affordable(row, seconds) ==
    LET held == Charged(row)
        extra == Cardinality((now..(now + seconds - 1)) \ held)
    IN Rule.enabled =>
          /\ Cardinality(held \cap Rule.day[now]) + extra <= Rule.dayLimit[now]
          /\ Cardinality(held \cap Rule.week[now]) + extra <= Rule.weekLimit

(* The reservations that may be granted: a row with room and the longest   *)
(* affordable grant no longer than asked.                                  *)
Add(row, id, media, seconds) ==
    [row EXCEPT !.reservations =
        @ \cup {[id |-> id, media |-> media, start |-> now, end |-> now + seconds]}]
Grants(row, id, media, wanted) ==
    {g \in [row : MakeRoom(Prune(row)), seconds : 1..wanted] :
        /\ \A r \in Prune(row).reservations : r.id # id
        /\ Admitted(media)
        /\ \A k \in 1..g.seconds : Available(k) /\ Affordable(g.row, k)
        /\ g.seconds < wanted =>
              ~(Available(g.seconds + 1) /\ Affordable(g.row, g.seconds + 1))
        /\ Valid(Add(g.row, id, media, g.seconds))}

\* Mutated form: closing trusts the client's counter.
ClosedEnd_Reported(r, consumed) == r.start + consumed

(* Closing charges what was consumed or what has elapsed, whichever is      *)
(* more; an expired reservation stays charged in full.                     *)
Reported(r, consumed) == consumed \in 0..(r.end - r.start) /\ r.start <= now
ClosedEnd(r, consumed) ==
    IF now > r.end THEN r.end
    ELSE IF consumed > now - r.start THEN r.start + consumed ELSE now
Closed(row, r, consumed) ==
    Prune([settled |-> row.settled \cup (r.start..(ClosedEnd(r, consumed) - 1)),
           reservations |-> row.reservations \ {r}])

-----------------------------------------------------------------------------
(* Clients with external leases.                                           *)

(* Identifiers are random and never reused while anyone remembers them. *)
Fresh(id) ==
    /\ \A r \in ledger.reservations : r.id # id
    /\ \A s \in Sessions : Live(s) => pcm[s].id # id

ReserveLease(id, wanted) ==
    /\ Fresh(id)
    /\ \E g \in Grants(ledger, id, "external", wanted) :
          ledger' = Add(g.row, id, "external", g.seconds)
    /\ UNCHANGED <<now, policy, pcm, heard>>

RenewLease(r, consumed, wanted) ==
    /\ r.media = "external"
    /\ Reported(r, consumed)
    /\ Valid(Closed(ledger, r, consumed))
    /\ \E g \in Grants(Closed(ledger, r, consumed), r.id, r.media, wanted) :
          ledger' = Add(g.row, r.id, r.media, g.seconds)
    /\ UNCHANGED <<now, policy, pcm, heard>>

ReleaseLease(r, consumed) ==
    /\ r.media = "external"
    /\ Reported(r, consumed)
    /\ Valid(Closed(ledger, r, consumed))
    /\ ledger' = Closed(ledger, r, consumed)
    /\ UNCHANGED <<now, policy, pcm, heard>>

-----------------------------------------------------------------------------
(* PCM sessions.                                                           *)

(* The first grant, once the format is ready; a refusal ends the stream. *)
Activate(s, id) ==
    /\ ~Live(s)
    /\ Rule.enabled
    /\ Fresh(id)
    /\ \E g \in Grants(ledger, id, "music", MaxGrant) :
          /\ ledger' = Add(g.row, id, "music", g.seconds)
          /\ pcm' = [pcm EXCEPT ![s] =
                [phase |-> "streaming", id |-> id, start |-> now,
                 end |-> now + g.seconds, base |-> 0, sent |-> 0,
                 since |-> now, current |-> TRUE]]
    /\ UNCHANGED <<now, policy, heard>>

(* One more second of audio: at most a second ahead of real time and never *)
(* beyond the grant.  Authorization is rechecked by the clock and not by   *)
(* the block, so a block may leave after the grant has expired.            *)
Send(s) ==
    /\ pcm[s].phase = "streaming"
    /\ pcm[s].sent <= now - pcm[s].since
    /\ Received(s) < pcm[s].end - pcm[s].start
    /\ pcm' = [pcm EXCEPT ![s].sent = @ + 1]
    /\ heard' = heard \cup {pcm[s].start + Received(s)}
    /\ UNCHANGED <<now, policy, ledger>>

(* The periodic check reads the policy without the lock: a stale policy or *)
(* a closed window stops the stream, an expired grant goes on to a renewal *)
(* and an unexpired one changes nothing.                                   *)
StillAllowed(s) == pcm[s].current /\ Admitted("music")
Check(s) ==
    /\ pcm[s].phase = "streaming"
    /\ ~StillAllowed(s) \/ pcm[s].end <= now
    /\ pcm' = [pcm EXCEPT ![s].phase =
                  IF StillAllowed(s) THEN "renewing" ELSE "stopping"]
    /\ UNCHANGED <<now, policy, ledger, heard>>

(* The locked half of the check settles the expired grant and reserves the *)
(* next one.  What was transmitted belongs to the grant that ends: a late  *)
(* acknowledgement of it is not charged to the new one.  The grant is taken *)
(* into memory before the save, so a failed save leaves the two apart and  *)
(* stops the stream, like any refusal.                                     *)
Renewed(s, seconds, phase) ==
    [pcm EXCEPT ![s].phase = phase, ![s].start = now, ![s].end = now + seconds,
                ![s].base = pcm[s].sent]
Renew(s, r, acknowledged) ==
    /\ pcm[s].phase = "renewing"
    /\ r.id = pcm[s].id
    /\ Reported(r, acknowledged)
    /\ Valid(Closed(ledger, r, acknowledged))
    /\ \E g \in Grants(Closed(ledger, r, acknowledged), r.id, "music", MaxGrant) :
          \/ /\ ledger' = Add(g.row, r.id, "music", g.seconds)
             /\ pcm' = Renewed(s, g.seconds, "streaming")
          \/ /\ pcm' = Renewed(s, g.seconds, "stopping")
             /\ UNCHANGED ledger
    /\ UNCHANGED <<now, policy, heard>>
RenewRefused(s) ==
    /\ pcm[s].phase = "renewing"
    /\ pcm' = [pcm EXCEPT ![s].phase = "stopping"]
    /\ UNCHANGED <<now, policy, ledger, heard>>

(* The stream has ended, for any reason, and its grant is settled: audio    *)
(* the client already received is charged even if never acknowledged.      *)
Close(s, r) ==
    /\ pcm[s].phase \in {"streaming", "stopping"}
    /\ r.id = pcm[s].id
    /\ Reported(r, Received(s))
    /\ Valid(Closed(ledger, r, Received(s)))
    /\ ledger' = Closed(ledger, r, Received(s))
    /\ pcm' = [pcm EXCEPT ![s] = NoSession]
    /\ UNCHANGED <<now, policy, heard>>

(* The settlement may fail (a busy store, a lease that is gone, a failed    *)
(* save): the reservation then stays as it is.                             *)
CloseFails(s) ==
    /\ pcm[s].phase \in {"streaming", "stopping"}
    /\ pcm' = [pcm EXCEPT ![s] = NoSession]
    /\ UNCHANGED <<now, policy, ledger, heard>>

(* A restart of the server forgets the sessions and keeps the saved ledger. *)
Crash ==
    /\ \E s \in Sessions : Live(s)
    /\ pcm' = [s \in Sessions |-> NoSession]
    /\ UNCHANGED <<now, policy, ledger, heard>>

-----------------------------------------------------------------------------
(* The administrator and the clock.                                        *)

(* Every saved policy invalidates the streams admitted before it; so do an *)
(* equal one and a new catalog, which leave the rules as they are.         *)
SetPolicy(p) ==
    /\ policy' = p
    /\ pcm' = [s \in Sessions |-> [pcm[s] EXCEPT !.current = FALSE]]
    /\ UNCHANGED <<now, ledger, heard>>

(* A second passes, and whoever holds an active grant may have spent it     *)
(* listening.  The history keeps the seconds some week may still count.    *)
Counted(t) == now + 1 + MaxGrant <= t + Retain
Active == \E r \in ledger.reservations : now \in Slice(r)
Tick ==
    /\ now + MaxGrant < Last
    /\ now' = now + 1
    /\ heard' = {t \in heard \cup (IF Active THEN {now} ELSE {}) : Counted(t)}
    /\ UNCHANGED <<policy, ledger, pcm>>

-----------------------------------------------------------------------------
Init ==
    /\ now = 0
    /\ policy \in Policies
    /\ ledger = [settled |-> {}, reservations |-> {}]
    /\ pcm = [s \in Sessions |-> NoSession]
    /\ heard = {}

Next ==
    \/ \E id \in Leases, wanted \in Requests : ReserveLease(id, wanted)
    \/ \E r \in ledger.reservations, wanted \in Requests :
          \E consumed \in 0..MaxGrant : RenewLease(r, consumed, wanted)
    \/ \E r \in ledger.reservations :
          \E consumed \in 0..MaxGrant : ReleaseLease(r, consumed)
    \/ \E s \in Sessions : \E id \in Leases : Activate(s, id)
    \/ \E s \in Sessions : Send(s) \/ Check(s) \/ RenewRefused(s) \/ CloseFails(s)
    \/ \E s \in Sessions, r \in ledger.reservations :
          \E acknowledged \in 0..Received(s) : Renew(s, r, acknowledged)
    \/ \E s \in Sessions, r \in ledger.reservations : Close(s, r)
    \/ Crash
    \/ \E p \in Policies : SetPolicy(p)
    \/ Tick

Spec == Init /\ [][Next]_vars

-----------------------------------------------------------------------------
(* The values of the state; the slots of an owner are never overrun. *)
TypeOK ==
    /\ now \in 0..(Last - MaxGrant)
    /\ policy \in Policies
    /\ ledger \in Row
    /\ Cardinality(ledger.reservations) <= MaxLeases
    /\ pcm \in [Sessions -> Session]
    /\ heard \in SUBSET Time

(* Listening is never refunded: whatever a client reports, renews, releases *)
(* or forgets, and whatever eviction and retention remove, the seconds      *)
(* elapsed under an active grant and the audio transmitted ahead of them    *)
(* are still charged when the current week of any policy is counted        *)
(* (leases.rs settle, storage.rs prune and make_room, pcm.rs refresh).      *)
HeardIsCharged ==
    \A p \in Policies : heard \cap Rules[p].week[now] \subseteq Charged(ledger)

(* Under an unchanged enabled policy no step takes the usage of any day or  *)
(* week over its budget, however many voices reserve, renew and overlap:    *)
(* usage already over a budget, from a laxer policy, only stays or shrinks. *)
Within(used, before, limit) == used <= limit \/ used <= before
Budget(before, after) ==
    Rule.enabled =>
       \A t \in Time :
          /\ Within(Cardinality(after \cap Rule.day[t]),
                    Cardinality(before \cap Rule.day[t]), Rule.dayLimit[t])
          /\ Within(Cardinality(after \cap Rule.week[t]),
                    Cardinality(before \cap Rule.week[t]), Rule.weekLimit)
WithinLimits ==
    [][policy' = policy => Budget(Charged(ledger), Charged(ledger'))]_vars

(* A stream never plays on a grant the ledger has lost: while the grant in  *)
(* memory is unexpired the saved row holds that very reservation, whatever  *)
(* other voices evicted, renewed or pruned meanwhile.                      *)
StreamIsBacked ==
    \A s \in Sessions :
       pcm[s].phase = "streaming" /\ now < pcm[s].end =>
          [id |-> pcm[s].id, media |-> "music", start |-> pcm[s].start,
           end |-> pcm[s].end] \in ledger.reservations

(* Continuous listening never makes a lease impossible to close: the        *)
(* settled interval that closing it leaves, prepaid audio included, is no   *)
(* longer than a saved document may hold (storage.rs prune and validate).  *)
ClosingFits ==
    \A r \in ledger.reservations :
       \A consumed \in 0..(r.end - r.start) : SpansFit(Closed(ledger, r, consumed))

=============================================================================
