--------------------------- MODULE DelegationProofs ---------------------------
(***************************************************************************)
(* What is reported of a delegated command is true, a stop leaves nothing  *)
(* behind, and the notification streams are fresh and silent when they     *)
(* must be, for every number of connections and streams and every limit.   *)
(***************************************************************************)
EXTENDS Delegation, FiniteSetTheorems, TLAPS

(***************************************************************************)
(* The streams, whatever publishes catalogs and runs tasks beside them:    *)
(* StreamsKept is about any step over their variables, and a specification *)
(* that extends EventStream cites it for each of its steps.                *)
(***************************************************************************)
\* What a step of any specification over the streams does to them.
StreamMove ==
  \/ UNCHANGED streamVars
  \/ Broadcast("task") /\ UNCHANGED <<shutdown, published, announced, gate, allowed>>
  \/ \E h : h # Nobody /\ (PublishCatalog(h) \/ AnnounceCatalog(h) \/ AbandonCatalog(h))
  \/ Shutdown
  \/ \E s \in Stream : StreamStep(s)

Subscribed(state) == state.at \in Waiting \cup {"sending"}

\* The catalog a stream knows of, apart from what it has not yet received.
Knows(state) ==
  IF state.at \in {"confirming", "reading"} THEN published
  ELSE IF state.at \in {"rechecking", "checking", "sending"} /\ state.next.about # "task"
  THEN state.next.version ELSE state.seen

\* What a client may have been told last: the last announced catalog or a newer.
Told == announced..published

\* The last catalog of a queue, after one that is known, is one of a set.
Latest(queue, known, good) ==
  \/ \E i \in DOMAIN queue :
       /\ queue[i].about = "catalog" /\ queue[i].version \in good
       /\ \A j \in DOMAIN queue : j > i => queue[j].about # "catalog"
  \/ known \in good /\ \A j \in DOMAIN queue : queue[j].about # "catalog"

QueuesInv ==
  \A s \in Stream :
    /\ Subscribed(stream[s]) \/ stream[s].unread = <<>>
    /\ \A i \in DOMAIN stream[s].unread :
         stream[s].unread[i].about \in {"catalog", "task"}

FreshInv ==
  \A s \in Stream :
    Subscribed(stream[s]) /\ ~stream[s].missed =>
      Latest(stream[s].unread, Knows(stream[s]), Told)

\* Nothing late reaches an identity that is still good.
LateInv ==
  \A s \in Stream : allowed[s] =>
    /\ ~stream[s].next.late
    /\ \A i \in DOMAIN stream[s].unread : ~stream[s].unread[i].late

StreamsInv ==
  /\ StreamsTypeOK
  /\ QueuesInv
  /\ FreshInv
  /\ LateInv
  /\ NothingAfterRevocation
-----------------------------------------------------------------------------
(***************************************************************************)
(* Queues.                                                                 *)
(***************************************************************************)
LEMMA AppendQueue ==
  ASSUME NEW queue \in Seq(Event), NEW e \in Event
  PROVE  /\ Append(queue, e) \in Seq(Event)
         /\ DOMAIN Append(queue, e) = 1..Len(queue) + 1
         /\ Append(queue, e)[Len(queue) + 1] = e
         /\ \A i \in DOMAIN queue :
              i \in 1..Len(queue) /\ Append(queue, e)[i] = queue[i]
  OBVIOUS

LEMMA TailQueue ==
  ASSUME NEW queue \in Seq(Event), queue # <<>>
  PROVE  /\ Tail(queue) \in Seq(Event)
         /\ Len(Tail(queue)) = Len(queue) - 1
         /\ Head(queue) = queue[1] /\ Head(queue) \in Event
         /\ DOMAIN Tail(queue) = 1..Len(queue) - 1
         /\ \A i \in DOMAIN Tail(queue) :
              i + 1 \in DOMAIN queue /\ Tail(queue)[i] = queue[i + 1]
  OBVIOUS

LEMMA LatestAfterTask ==
  ASSUME NEW queue \in Seq(Event), NEW e \in Event, e.about = "task",
         NEW known, NEW good, Latest(queue, known, good)
  PROVE  Latest(Append(queue, e), known, good)
<1> DEFINE all == Append(queue, e)
<1>1. /\ DOMAIN all = 1..Len(queue) + 1 /\ all[Len(queue) + 1] = e
      /\ DOMAIN queue = 1..Len(queue) /\ Len(queue) \in Nat
      /\ \A i \in DOMAIN queue : all[i] = queue[i]
  BY AppendQueue
<1> HIDE DEF all
<1>2. CASE \E i \in DOMAIN queue :
             /\ queue[i].about = "catalog" /\ queue[i].version \in good
             /\ \A j \in DOMAIN queue : j > i => queue[j].about # "catalog"
  <2>1. PICK i \in DOMAIN queue :
          /\ queue[i].about = "catalog" /\ queue[i].version \in good
          /\ \A j \in DOMAIN queue : j > i => queue[j].about # "catalog"
    BY <1>2
  <2>2. /\ i \in DOMAIN all /\ all[i].about = "catalog" /\ all[i].version \in good
        /\ \A j \in DOMAIN all : j > i => all[j].about # "catalog"
    BY <1>1, <2>1
  <2> QED
    BY <2>2 DEF Latest, all
<1>3. CASE known \in good /\ \A j \in DOMAIN queue : queue[j].about # "catalog"
  BY <1>1, <1>3 DEF Latest, all
<1> QED
  BY <1>2, <1>3 DEF Latest

LEMMA LatestAfterCatalog ==
  ASSUME NEW queue \in Seq(Event), NEW e \in Event, e.about = "catalog",
         NEW good, e.version \in good, NEW known
  PROVE  Latest(Append(queue, e), known, good)
<1> DEFINE all == Append(queue, e)
<1>1. /\ DOMAIN all = 1..Len(queue) + 1 /\ all[Len(queue) + 1] = e /\ Len(queue) \in Nat
  BY AppendQueue
<1> HIDE DEF all
<1>2. /\ Len(queue) + 1 \in DOMAIN all
      /\ all[Len(queue) + 1].about = "catalog" /\ all[Len(queue) + 1].version \in good
      /\ \A j \in DOMAIN all : j > Len(queue) + 1 => all[j].about # "catalog"
  BY <1>1
<1> QED
  BY <1>2 DEF Latest, all

LEMMA LatestAfterReceive ==
  ASSUME NEW queue \in Seq(Event), queue # <<>>, NEW known, NEW good,
         Latest(queue, known, good)
  PROVE  Latest(Tail(queue),
                IF Head(queue).about = "catalog" THEN Head(queue).version ELSE known, good)
<1> DEFINE rest == Tail(queue)
<1>1. /\ DOMAIN queue = 1..Len(queue) /\ Len(queue) \in Nat \ {0}
      /\ DOMAIN rest = 1..Len(queue) - 1
      /\ \A i \in DOMAIN rest : i + 1 \in DOMAIN queue /\ rest[i] = queue[i + 1]
      /\ Head(queue) = queue[1]
  BY TailQueue
<1> HIDE DEF rest
<1>2. CASE known \in good /\ \A j \in DOMAIN queue : queue[j].about # "catalog"
  <2>1. \A j \in DOMAIN rest : rest[j].about # "catalog"
    BY <1>1, <1>2
  <2>2. queue[1].about # "catalog"
    BY <1>1, <1>2
  <2> QED
    BY <1>1, <1>2, <2>1, <2>2 DEF Latest, rest
<1>3. ASSUME NEW i \in DOMAIN queue,
             queue[i].about = "catalog", queue[i].version \in good,
             \A j \in DOMAIN queue : j > i => queue[j].about # "catalog"
      PROVE  Latest(rest,
                IF Head(queue).about = "catalog" THEN Head(queue).version ELSE known, good)
  <2>1. CASE i = 1
    <3>1. \A j \in DOMAIN rest : rest[j].about # "catalog"
      BY <1>1, <1>3, <2>1
    <3> QED
      BY <1>1, <1>3, <2>1, <3>1 DEF Latest
  <2>2. CASE i # 1
    <3>1. i - 1 \in DOMAIN rest /\ rest[i - 1] = queue[i]
      BY <1>1, <2>2
    <3>2. \A j \in DOMAIN rest : j > i - 1 => rest[j].about # "catalog"
      BY <1>1, <1>3
    <3> QED
      BY <1>3, <3>1, <3>2 DEF Latest
  <2> QED
    BY <2>1, <2>2
<1> QED
  BY <1>2, <1>3 DEF Latest, rest
-----------------------------------------------------------------------------
(***************************************************************************)
(* Steps of the streams.                                                   *)
(***************************************************************************)
LEMMA SlotsFinite ==
  ASSUME NEW T \in SUBSET Stream
  PROVE  /\ IsFiniteSet(T) /\ Cardinality(T) \in Nat
         /\ \A U \in SUBSET T : Cardinality(U) <= Cardinality(T)
         /\ \A s \in Stream : Cardinality(T \cup {s}) <= Cardinality(T) + 1
<1>1. IsFiniteSet(T)
  BY EventStreamAssumption, FS_Subset
<1>2. Cardinality(T) \in Nat
  BY <1>1, FS_CardinalityType
<1>3. \A U \in SUBSET T : Cardinality(U) <= Cardinality(T)
  BY <1>1, FS_Subset
<1>4. \A s \in Stream : Cardinality(T \cup {s}) <= Cardinality(T) + 1
  BY <1>1, <1>2, FS_AddElement
<1> QED
  BY <1>1, <1>2, <1>3, <1>4

\* What one stream has to be for StreamsInv to hold of it, under the gate and
\* the identity of now.
Sound(s, state) ==
  /\ state \in StreamState
  /\ Len(state.unread) <= Capacity
  /\ Subscribed(state) \/ state.unread = <<>>
  /\ \A i \in DOMAIN state.unread : state.unread[i].about \in {"catalog", "task"}
  /\ Subscribed(state) /\ ~state.missed => Latest(state.unread, Knows(state), Told)
  /\ allowed[s] =>
       /\ ~state.next.late
       /\ \A i \in DOMAIN state.unread : ~state.unread[i].late
  /\ state.at = "sending" => ~state.next.late

LEMMA PublishedIsTold ==
  ASSUME StreamsInv
  PROVE  published \in Told
BY EventStreamAssumption DEF StreamsInv, StreamsTypeOK, Catalog, Told

Idle == {"idle", "closed"}

LEMMA SoundStreams ==
  ASSUME StreamsInv, NEW s \in Stream
  PROVE  Sound(s, stream[s])
  BY DEF StreamsInv, StreamsTypeOK, QueuesInv, FreshInv, LateInv,
         NothingAfterRevocation, Sound

LEMMA BecomesKeeps ==
  ASSUME StreamsInv, NEW s \in Stream, NEW state, Sound(s, state), Becomes(s, state),
         state.at \in Idle \/ stream[s].at \notin Idle \/ Cardinality(Open) < WebSocketSlots
  PROVE  StreamsInv'
<1> USE DEF Becomes
<1>1. \A t \in Stream : Sound(t, stream'[t]) /\ stream'[t] \in StreamState
  BY SoundStreams DEF Sound, StreamsInv, StreamsTypeOK
<1>2. stream' \in [Stream -> StreamState]
  BY <1>1 DEF StreamsInv, StreamsTypeOK
<1>3. Cardinality(Open') <= WebSocketSlots
  <2>1. CASE state.at \in Idle \/ stream[s].at \notin Idle
    <3>1. Open' \in SUBSET Open
      BY <2>1 DEF Open, Idle, StreamsInv, StreamsTypeOK
    <3>2. Open \in SUBSET Stream
      BY DEF Open
    <3>3. Cardinality(Open') <= Cardinality(Open) /\ Cardinality(Open) \in Nat
      BY <3>1, <3>2, SlotsFinite
    <3>4. Cardinality(Open') \in Nat
      BY <3>1, <3>2, SlotsFinite
    <3> QED
      BY <3>3, <3>4, EventStreamAssumption DEF StreamsInv, StreamsTypeOK
  <2>2. CASE Cardinality(Open) < WebSocketSlots
    <3>1. Open \in SUBSET Stream /\ Open \cup {s} \in SUBSET Stream
          /\ Open' \in SUBSET (Open \cup {s})
      BY DEF Open, StreamsInv, StreamsTypeOK
    <3>2. /\ Cardinality(Open') <= Cardinality(Open \cup {s})
          /\ Cardinality(Open \cup {s}) \in Nat
      BY <3>1, SlotsFinite
    <3>3. /\ Cardinality(Open \cup {s}) <= Cardinality(Open) + 1
          /\ Cardinality(Open) \in Nat
      BY <3>1, SlotsFinite
    <3>4. Cardinality(Open') \in Nat
      BY <3>1, SlotsFinite
    <3> QED
      BY <2>2, <3>2, <3>3, <3>4, EventStreamAssumption
  <2> QED
    BY <2>1, <2>2
<1>4. StreamsTypeOK'
  BY <1>1, <1>2, <1>3 DEF StreamsInv, StreamsTypeOK, Sound
<1>5. QueuesInv'
  BY <1>1 DEF QueuesInv, Sound
<1>6. FreshInv'
  <2>1. ASSUME NEW t \in Stream, Subscribed(stream[t])', ~stream[t].missed'
        PROVE  Latest(stream[t].unread, Knows(stream[t]), Told)'
    <3> DEFINE new == stream'[t]
    <3>1. Latest(new.unread, Knows(new), Told)
      BY <1>1, <2>1 DEF Sound, Subscribed
    <3> QED
      BY <3>1 DEF Latest, Knows, Told
  <2> QED
    BY <2>1 DEF FreshInv
<1>7. LateInv' /\ NothingAfterRevocation'
  BY <1>1 DEF LateInv, NothingAfterRevocation, Sound
<1> QED
  BY <1>4, <1>5, <1>6, <1>7 DEF StreamsInv

LEMMA BroadcastKeeps ==
  ASSUME StreamsInv, NEW about \in {"catalog", "task"}, Broadcast(about),
         UNCHANGED <<shutdown, published, allowed>>,
         announced' = IF about = "catalog" THEN published ELSE announced
  PROVE  StreamsInv'
<1> DEFINE Gets(s) == stream[s].at \in Waiting \cup {"sending"}
           new(s) == [about |-> about,
                      version |-> IF about = "catalog" THEN published ELSE 0,
                      late |-> ~allowed[s]]
           all(s) == Append(stream[s].unread, new(s))
           full(s) == Len(stream[s].unread) = Capacity
<1>1. stream \in [Stream -> StreamState] /\ published \in Catalog /\ 0 \in Catalog
      /\ published \in Nat /\ announced \in 0..published /\ allowed \in [Stream -> BOOLEAN]
  BY EventStreamAssumption DEF StreamsInv, StreamsTypeOK, Catalog
<1>2. \A s \in Stream :
        /\ stream'[s].at = stream[s].at
        /\ stream'[s].next = stream[s].next
        /\ stream'[s].seen = stream[s].seen
        /\ ~Gets(s) => stream'[s] = stream[s]
        /\ Gets(s) =>
             /\ stream'[s].missed = (stream[s].missed \/ full(s))
             /\ stream'[s].unread = IF full(s) THEN Tail(all(s)) ELSE all(s)
  BY <1>1 DEF Broadcast, Received, StreamState
<1>3. \A s \in Stream : new(s) \in Event /\ stream[s].unread \in Seq(Event)
        /\ Len(stream[s].unread) <= Capacity
  BY <1>1 DEF Event, StreamState, StreamsInv, StreamsTypeOK
<1>4. stream' = [s \in Stream |-> stream'[s]]
  BY DEF Broadcast
<1>5. ASSUME NEW s \in Stream, Gets(s)
      PROVE  /\ stream'[s].unread \in Seq(Event) /\ Len(stream'[s].unread) <= Capacity
             /\ \A i \in DOMAIN stream'[s].unread :
                  \/ stream'[s].unread[i] = new(s)
                  \/ \E j \in DOMAIN stream[s].unread :
                       stream'[s].unread[i] = stream[s].unread[j]
  <2>1. /\ all(s) \in Seq(Event) /\ all(s) # <<>> /\ Len(all(s)) = Len(stream[s].unread) + 1
        /\ Len(stream[s].unread) \in Nat
        /\ \A i \in DOMAIN all(s) :
             \/ all(s)[i] = new(s)
             \/ \E j \in DOMAIN stream[s].unread : all(s)[i] = stream[s].unread[j]
    <3>1. stream[s].unread \in Seq(Event) /\ new(s) \in Event
      BY <1>3
    <3> HIDE DEF new
    <3>2. /\ all(s) \in Seq(Event) /\ all(s) # <<>>
          /\ Len(all(s)) = Len(stream[s].unread) + 1 /\ Len(stream[s].unread) \in Nat
      BY <3>1
    <3>3. ASSUME NEW i \in DOMAIN all(s), i # Len(stream[s].unread) + 1
          PROVE  i \in DOMAIN stream[s].unread /\ all(s)[i] = stream[s].unread[i]
      BY <3>1, <3>3, AppendQueue
    <3>4. all(s)[Len(stream[s].unread) + 1] = new(s)
      BY <3>1, AppendQueue
    <3> HIDE DEF all
    <3> QED
      BY <3>2, <3>3, <3>4
  <2> HIDE DEF all, new
  <2>2. CASE full(s)
    <3>1. stream'[s].unread = Tail(all(s))
      BY <1>2, <1>5, <2>2
    <3>2. /\ Tail(all(s)) \in Seq(Event) /\ Len(Tail(all(s))) = Len(all(s)) - 1
          /\ \A i \in DOMAIN Tail(all(s)) :
               i + 1 \in DOMAIN all(s) /\ Tail(all(s))[i] = all(s)[i + 1]
      BY <2>1, TailQueue
    <3> QED
      BY <2>1, <2>2, <3>1, <3>2, EventStreamAssumption
  <2>3. CASE ~full(s)
    <3>1. stream'[s].unread = all(s)
      BY <1>2, <1>5, <2>3
    <3> QED
      BY <1>3, <2>1, <2>3, <3>1, EventStreamAssumption
  <2> QED
    BY <2>2, <2>3
<1>6. \A s \in Stream : new(s).about = about /\ new(s).late = ~allowed[s]
  OBVIOUS
<1> HIDE DEF new
<1>7. StreamsTypeOK'
  <2>1. ASSUME NEW s \in Stream
        PROVE  stream'[s] \in StreamState /\ Len(stream'[s].unread) <= Capacity
    <3>1. CASE Gets(s)
      <4>1. stream'[s] = [stream[s] EXCEPT !.unread = stream'[s].unread,
                                           !.missed = stream'[s].missed]
        BY <1>1, <3>1 DEF Broadcast, Received, StreamState
      <4>2. stream[s] \in StreamState /\ stream'[s].missed \in BOOLEAN
        BY <1>1, <1>2, <3>1 DEF StreamState
      <4> QED
        BY <1>5, <3>1, <4>1, <4>2 DEF StreamState
    <3>2. CASE ~Gets(s)
      BY <1>1, <1>2, <1>3, <3>2
    <3> QED
      BY <3>1, <3>2
  <2>2. stream' \in [Stream -> StreamState]
    BY <1>4, <2>1
  <2>3. Open' = Open
    BY <1>2 DEF Open
  <2> QED
    BY <1>1, <2>1, <2>2, <2>3 DEF StreamsInv, StreamsTypeOK
<1>8. QueuesInv'
  <2>1. ASSUME NEW s \in Stream
        PROVE  Subscribed(stream'[s]) \/ stream'[s].unread = <<>>
    BY <1>2 DEF StreamsInv, QueuesInv, Subscribed
  <2>2. ASSUME NEW s \in Stream, NEW i \in DOMAIN stream'[s].unread
        PROVE  stream'[s].unread[i].about \in {"catalog", "task"}
    BY <1>2, <1>5, <1>6 DEF StreamsInv, QueuesInv
  <2> QED
    BY <2>1, <2>2 DEF QueuesInv, Subscribed
<1>9. LateInv'
  <2> SUFFICES ASSUME NEW s \in Stream, allowed[s]
               PROVE  /\ ~stream'[s].next.late
                      /\ \A i \in DOMAIN stream'[s].unread : ~stream'[s].unread[i].late
    BY DEF LateInv
  <2>1. /\ ~stream[s].next.late
        /\ \A i \in DOMAIN stream[s].unread : ~stream[s].unread[i].late
    BY DEF StreamsInv, LateInv
  <2>2. ~new(s).late
    BY <1>6
  <2>3. ASSUME NEW i \in DOMAIN stream'[s].unread
        PROVE  ~stream'[s].unread[i].late
    <3>1. CASE Gets(s)
      BY <1>5, <2>1, <2>2, <3>1
    <3>2. CASE ~Gets(s)
      BY <1>2, <2>1, <3>2
    <3> QED
      BY <3>1, <3>2
  <2> QED
    BY <1>2, <2>1, <2>3
<1>10. NothingAfterRevocation'
  BY <1>2 DEF StreamsInv, NothingAfterRevocation
<1>11. FreshInv'
  <2> SUFFICES ASSUME NEW s \in Stream, Subscribed(stream'[s]), ~stream'[s].missed
               PROVE  Latest(stream'[s].unread, Knows(stream'[s]), Told')
    BY DEF FreshInv, Latest, Knows, Subscribed
  <2>1. Gets(s) /\ ~stream[s].missed /\ ~full(s) /\ stream'[s].unread = all(s)
    BY <1>2 DEF Subscribed
  <2>2. Knows(stream'[s]) = Knows(stream[s])
    BY <1>2 DEF Knows
  <2>3. CASE about = "catalog"
    <3>1. new(s).version \in Told'
      BY <1>1, <2>3 DEF new, Told
    <3> QED
      BY <1>3, <1>6, <2>1, <2>3, <3>1, LatestAfterCatalog
  <2>4. CASE about = "task"
    <3>1. Latest(stream[s].unread, Knows(stream[s]), Told) /\ Told' = Told
      BY <2>1, <2>4 DEF StreamsInv, FreshInv, Subscribed, Told
    <3> QED
      BY <1>3, <1>6, <2>1, <2>2, <2>4, <3>1, LatestAfterTask
  <2> QED
    BY <2>3, <2>4
<1> QED
  BY <1>7, <1>8, <1>9, <1>10, <1>11 DEF StreamsInv

LEMMA PublishKeeps ==
  ASSUME StreamsInv, NEW h, h # Nobody, PublishCatalog(h)
  PROVE  StreamsInv'
<1>1. StreamsTypeOK'
  BY EventStreamAssumption DEF PublishCatalog, StreamsInv, StreamsTypeOK, Catalog, Open
<1>2. QueuesInv' /\ LateInv' /\ NothingAfterRevocation'
  BY DEF PublishCatalog, StreamsInv, QueuesInv, LateInv, NothingAfterRevocation
<1>3. FreshInv'
  <2>1. published \in Nat /\ published' = published + 1 /\ announced' = announced
        /\ announced \in 0..published /\ stream' = stream
    BY EventStreamAssumption DEF PublishCatalog, StreamsInv, StreamsTypeOK, Catalog
  <2>2. Told \subseteq Told' /\ published' \in Told'
    BY <2>1 DEF Told
  <2> SUFFICES ASSUME NEW s \in Stream, Subscribed(stream[s]), ~stream[s].missed
               PROVE  Latest(stream[s].unread, Knows(stream[s])', Told')
    BY <2>1 DEF FreshInv, Latest, Knows, Subscribed
  <2>3. Latest(stream[s].unread, Knows(stream[s]), Told)
    BY DEF StreamsInv, FreshInv
  <2>4. Knows(stream[s])' = Knows(stream[s]) \/ Knows(stream[s])' \in Told'
    BY <2>1, <2>2 DEF Knows
  <2> QED
    BY <2>2, <2>3, <2>4 DEF Latest
<1> QED
  BY <1>1, <1>2, <1>3 DEF StreamsInv

LEMMA AbandonKeeps ==
  ASSUME StreamsInv, NEW h, AbandonCatalog(h)
  PROVE  StreamsInv'
BY DEF AbandonCatalog, StreamsInv, StreamsTypeOK, QueuesInv, FreshInv, LateInv,
       NothingAfterRevocation, Open, Subscribed, Knows, Latest, Told

Unsubscribed ==
  [at : {"idle", "upgrading", "closed"}, unread : {<<>>}, missed : {FALSE},
   next : {Nothing}, seen : {0}]

LEMMA EmptyStream ==
  /\ NoStream \in Unsubscribed
  /\ [NoStream EXCEPT !.at = "upgrading"] \in Unsubscribed
  /\ Closed \in Unsubscribed
  /\ \A s \in Stream : \A new \in Unsubscribed : Sound(s, new)
<1>1. Nothing \in Event /\ ~Nothing.late /\ 0 \in Catalog
  BY EventStreamAssumption DEF Nothing, Event, Catalog
<1>2. <<>> \in Seq(Event) /\ Len(<<>>) = 0 /\ DOMAIN <<>> = {}
  OBVIOUS
<1>3. ASSUME NEW s \in Stream, NEW new \in Unsubscribed
      PROVE  Sound(s, new)
  <2>1. new \in StreamState
    BY <1>1, <1>2 DEF StreamState, Unsubscribed
  <2>2. Len(new.unread) <= Capacity
    BY <1>2, EventStreamAssumption DEF Unsubscribed
  <2>3. ~Subscribed(new) /\ new.at # "sending"
    BY DEF Subscribed, Waiting, Unsubscribed
  <2> QED
    BY <1>1, <1>2, <2>1, <2>2, <2>3 DEF Sound, Unsubscribed
<1> QED
  BY <1>3 DEF NoStream, Closed, Unsubscribed

LEMMA StreamStepKeeps ==
  ASSUME StreamsInv, NEW s \in Stream, StreamStep(s)
  PROVE  StreamsInv'
<1> DEFINE old == stream[s]
<1>1. Sound(s, old) /\ old \in StreamState
  BY SoundStreams DEF Sound
<1>2. CASE Upgrade(s)
  <2> DEFINE new == [NoStream EXCEPT !.at = "upgrading"]
  <2>1. Sound(s, new)
    BY EmptyStream
  <2> QED
    BY <1>2, <2>1, BecomesKeeps DEF Upgrade
<1>3. CASE Subscribe(s)
  <2> DEFINE new == [old EXCEPT !.at = "confirming"]
  <2>1. old.at = "upgrading" /\ old.unread = <<>> /\ Becomes(s, new)
    BY <1>1, <1>3 DEF Subscribe, Sound, Subscribed, Waiting
  <2>2. Latest(<<>>, published, Told)
    BY PublishedIsTold DEF Latest
  <2>3. Sound(s, new)
    BY <1>1, <2>1, <2>2 DEF Sound, StreamState, Subscribed, Knows, Waiting
  <2> QED
    BY <2>1, <2>3, BecomesKeeps DEF Idle
<1>4. ASSUME NEW new, Becomes(s, new), new = Closed, old.at \notin Idle
      PROVE  StreamsInv'
  <2>1. Sound(s, new)
    BY <1>4, EmptyStream
  <2> QED
    BY <1>4, <2>1, BecomesKeeps
<1>5. CASE Confirm(s)
  <2>1. old.at = "confirming" /\ old.at \notin Idle
    BY <1>5 DEF Confirm, Idle
  <2>2. CASE ~allowed[s]
    BY <1>4, <1>5, <2>1, <2>2 DEF Confirm
  <2>3. CASE allowed[s]
    <3> DEFINE new == [old EXCEPT !.at = "reading"]
    <3>1. Becomes(s, new)
      BY <1>5, <2>3 DEF Confirm
    <3>2. Sound(s, new)
      BY <1>1, <2>1 DEF Sound, StreamState, Subscribed, Knows, Waiting
    <3> QED
      BY <2>1, <3>1, <3>2, BecomesKeeps
  <2> QED
    BY <2>2, <2>3
<1>6. CASE ReadCatalog(s)
  <2> DEFINE told == [about |-> "snapshot", version |-> published, late |-> ~allowed[s]]
             new == [old EXCEPT !.at = "rechecking", !.next = told]
  <2>1. old.at = "reading" /\ old.at \notin Idle /\ Becomes(s, new)
    BY <1>6 DEF ReadCatalog, Idle
  <2>2. told \in Event
    BY DEF StreamsInv, StreamsTypeOK, Event
  <2>3. /\ new.at = "rechecking" /\ new.unread = old.unread /\ new.missed = old.missed
        /\ new.next = told /\ new.seen = old.seen
    BY <1>1 DEF StreamState
  <2>4. new \in StreamState
    BY <1>1, <2>2 DEF StreamState, Waiting
  <2>5. Knows(new) = published /\ Knows(old) = published
    BY <2>1, <2>3 DEF Knows
  <2>6. allowed[s] => ~new.next.late
    <3>1. told.late = ~allowed[s]
      OBVIOUS
    <3> HIDE DEF new, told
    <3> QED
      BY <2>3, <3>1
  <2> HIDE DEF new, told
  <2>7. Sound(s, new)
    BY <1>1, <2>1, <2>3, <2>4, <2>5, <2>6 DEF Sound, Subscribed, Waiting
  <2> QED
    BY <2>1, <2>7, BecomesKeeps
<1>7. CASE Receive(s)
  <2> DEFINE got == Head(old.unread)
             new == [old EXCEPT !.at = "checking", !.unread = Tail(@), !.next = got]
  <2>1. /\ old.at = "listening" /\ old.at \notin Idle /\ Becomes(s, new)
        /\ old.unread # <<>> /\ old.unread \in Seq(Event)
    BY <1>1, <1>7 DEF Receive, Idle, StreamState
  <2>2. /\ got \in Event /\ got = old.unread[1] /\ 1 \in DOMAIN old.unread
        /\ Tail(old.unread) \in Seq(Event)
        /\ Len(Tail(old.unread)) = Len(old.unread) - 1 /\ Len(old.unread) \in Nat
        /\ \A i \in DOMAIN Tail(old.unread) :
             i + 1 \in DOMAIN old.unread /\ Tail(old.unread)[i] = old.unread[i + 1]
    BY <2>1, TailQueue
  <2>3. /\ new.at = "checking" /\ new.unread = Tail(old.unread) /\ new.missed = old.missed
        /\ new.next = got /\ new.seen = old.seen
    BY <1>1 DEF StreamState
  <2>4. new \in StreamState
    BY <1>1, <2>2 DEF StreamState, Waiting
  <2>5. Knows(old) = old.seen
    BY <2>1 DEF Knows
  <2>6. got.about \in {"catalog", "task"}
    BY <1>1, <2>2 DEF Sound
  <2>7. Knows(new) = IF got.about = "catalog" THEN got.version ELSE Knows(old)
    BY <2>3, <2>5, <2>6 DEF Knows
  <2> HIDE DEF new, got
  <2>8. ASSUME ~new.missed
        PROVE  Latest(new.unread, Knows(new), Told)
    <3>1. Latest(old.unread, Knows(old), Told)
      BY <1>1, <2>1, <2>3, <2>8 DEF Sound, Subscribed, Waiting
    <3> QED
      BY <2>1, <2>3, <2>7, <3>1, LatestAfterReceive DEF got
  <2>9. /\ allowed[s] => ~got.late
        /\ allowed[s] => \A i \in DOMAIN new.unread : ~new.unread[i].late
        /\ \A i \in DOMAIN new.unread : new.unread[i].about \in {"catalog", "task"}
    BY <1>1, <2>2, <2>3 DEF Sound
  <2>10. Len(new.unread) <= Capacity
    BY <1>1, <2>2, <2>3, EventStreamAssumption DEF Sound
  <2>11. Sound(s, new)
    BY <2>3, <2>4, <2>8, <2>9, <2>10 DEF Sound, Subscribed, Waiting
  <2> QED
    BY <2>1, <2>11, BecomesKeeps
<1>8. CASE CheckEvent(s)
  <2>1. old.at \in {"rechecking", "checking"} /\ old.at \notin Idle
    BY <1>8 DEF CheckEvent, Idle
  <2>2. CASE ~allowed[s]
    BY <1>4, <1>8, <2>1, <2>2 DEF CheckEvent
  <2>3. CASE allowed[s] /\ s \notin Activity /\ old.next.about = "task"
    <3> DEFINE new == [old EXCEPT !.at = "listening", !.next = Nothing]
    <3>1. Becomes(s, new)
      BY <1>8, <2>3 DEF CheckEvent
    <3>2. /\ new.at = "listening" /\ new.unread = old.unread /\ new.missed = old.missed
          /\ new.next = Nothing /\ new.seen = old.seen
      BY <1>1 DEF StreamState
    <3>3. Nothing \in Event /\ ~Nothing.late
      BY EventStreamAssumption DEF Nothing, Event, Catalog
    <3>4. new \in StreamState
      BY <1>1, <3>3 DEF StreamState, Waiting
    <3>5. Knows(new) = old.seen /\ Knows(old) = old.seen
      BY <2>1, <2>3, <3>2 DEF Knows
    <3> HIDE DEF new
    <3>6. Sound(s, new)
      BY <1>1, <2>1, <3>2, <3>3, <3>4, <3>5 DEF Sound, Subscribed, Waiting
    <3> QED
      BY <2>1, <3>1, <3>6, BecomesKeeps
  <2>4. CASE allowed[s] /\ ~(s \notin Activity /\ old.next.about = "task")
    <3> DEFINE new == [old EXCEPT !.at = "sending"]
    <3>1. Becomes(s, new)
      BY <1>8, <2>4 DEF CheckEvent
    <3>2. /\ new.at = "sending" /\ new.unread = old.unread /\ new.missed = old.missed
          /\ new.next = old.next /\ new.seen = old.seen
      BY <1>1 DEF StreamState
    <3>3. new \in StreamState
      BY <1>1 DEF StreamState
    <3>4. Knows(new) = Knows(old)
      BY <2>1, <3>2 DEF Knows
    <3> HIDE DEF new
    <3>5. Sound(s, new)
      BY <1>1, <2>1, <2>4, <3>2, <3>3, <3>4 DEF Sound, Subscribed, Waiting
    <3> QED
      BY <2>1, <3>1, <3>5, BecomesKeeps
  <2> QED
    BY <2>2, <2>3, <2>4
<1>9. CASE Tick(s)
  BY <1>4, <1>9 DEF Tick, Idle
<1>10. CASE Send(s)
  <2> DEFINE seen == IF old.next.about = "task" THEN old.seen ELSE old.next.version
             new == [old EXCEPT !.at = "listening", !.next = Nothing, !.seen = seen]
  <2>1. old.at = "sending" /\ old.at \notin Idle /\ Becomes(s, new)
    BY <1>10 DEF Send, Idle
  <2>2. /\ new.at = "listening" /\ new.unread = old.unread /\ new.missed = old.missed
        /\ new.next = Nothing /\ new.seen = seen
    BY <1>1 DEF StreamState
  <2>3. Nothing \in Event /\ ~Nothing.late
    BY EventStreamAssumption DEF Nothing, Event, Catalog
  <2>4. new \in StreamState
    BY <1>1, <2>3 DEF StreamState, Waiting, Event
  <2>5. Knows(new) = Knows(old)
    BY <2>1, <2>2 DEF Knows
  <2> HIDE DEF new
  <2>6. Sound(s, new)
    BY <1>1, <2>1, <2>2, <2>3, <2>4, <2>5 DEF Sound, Subscribed, Waiting
  <2> QED
    BY <2>1, <2>6, BecomesKeeps
<1>11. CASE Disconnect(s)
  BY <1>4, <1>11 DEF Disconnect, Open, Idle
<1>12. CASE StopStream(s)
  BY <1>4, <1>12 DEF StopStream, Waiting, Idle
<1>13. CASE Revoke(s)
  <2>1. StreamsTypeOK'
    BY <1>13 DEF Revoke, StreamsInv, StreamsTypeOK, Open
  <2>2. QueuesInv' /\ NothingAfterRevocation'
    BY <1>13 DEF Revoke, StreamsInv, QueuesInv, NothingAfterRevocation, Subscribed
  <2>3. FreshInv'
    BY <1>13 DEF Revoke, StreamsInv, FreshInv, Latest, Knows, Subscribed, Told
  <2>4. LateInv'
    BY <1>13 DEF Revoke, StreamsInv, StreamsTypeOK, LateInv
  <2> QED
    BY <2>1, <2>2, <2>3, <2>4 DEF StreamsInv
<1> QED
  BY <1>2, <1>3, <1>5, <1>6, <1>7, <1>8, <1>9, <1>10, <1>11, <1>12, <1>13
     DEF StreamStep, Serve

LEMMA StreamsStart ==
  ASSUME InitStreams
  PROVE  StreamsInv
<1>1. /\ NoStream.at = "idle" /\ NoStream.unread = <<>> /\ NoStream.missed = FALSE
      /\ NoStream.next = Nothing
  BY DEF NoStream
<1>2. \A s \in Stream : Sound(s, stream[s]) /\ stream[s] = NoStream
  BY EmptyStream DEF InitStreams
<1>3. Open = {}
  BY <1>1, <1>2 DEF Open
<1>4. StreamsTypeOK
  <2>1. Cardinality(Open) <= WebSocketSlots
    <3>1. Cardinality({}) = 0
      BY FS_EmptySet
    <3> QED
      BY <1>3, <3>1, EventStreamAssumption
  <2>2. stream \in [Stream -> StreamState]
    BY <1>2 DEF InitStreams, Sound
  <2>3. /\ shutdown \in BOOLEAN /\ published \in Catalog /\ announced \in 0..published
        /\ allowed \in [Stream -> BOOLEAN]
    <3>1. published \in Catalog /\ announced \in 0..published
      BY EventStreamAssumption DEF InitStreams, Catalog
    <3>2. shutdown \in BOOLEAN
      BY DEF InitStreams
    <3>3. allowed \in [Stream -> BOOLEAN]
      BY Zenon DEF InitStreams
    <3> QED
      BY <3>1, <3>2, <3>3
  <2>4. \A s \in Stream : Len(stream[s].unread) <= Capacity
    BY <1>2 DEF Sound
  <2> QED
    BY <2>1, <2>2, <2>3, <2>4 DEF StreamsTypeOK
<1> QED
  BY <1>2, <1>4 DEF StreamsInv, Sound, QueuesInv, FreshInv, LateInv, NothingAfterRevocation

\* Whatever else a specification does, the streams stay sound.
LEMMA StreamsKept ==
  ASSUME StreamsInv, StreamMove
  PROVE  StreamsInv'
<1>1. CASE UNCHANGED streamVars
  BY <1>1 DEF streamVars, StreamsInv, StreamsTypeOK, QueuesInv, FreshInv, LateInv,
              NothingAfterRevocation, Open, Subscribed, Knows, Latest, Told
<1>2. CASE Broadcast("task") /\ UNCHANGED <<shutdown, published, announced, gate, allowed>>
  BY <1>2, BroadcastKeeps
<1>3. ASSUME NEW h, h # Nobody,
             PublishCatalog(h) \/ AnnounceCatalog(h) \/ AbandonCatalog(h)
      PROVE  StreamsInv'
  <2>1. CASE PublishCatalog(h)
    BY <1>3, <2>1, PublishKeeps
  <2>2. CASE AnnounceCatalog(h)
    BY <2>2, BroadcastKeeps DEF AnnounceCatalog
  <2>3. CASE AbandonCatalog(h)
    BY <2>3, AbandonKeeps
  <2> QED
    BY <1>3, <2>1, <2>2, <2>3
<1>4. CASE Shutdown
  BY <1>4 DEF Shutdown, StreamsInv, StreamsTypeOK, QueuesInv, FreshInv, LateInv,
              NothingAfterRevocation, Open, Subscribed, Knows, Latest, Told
<1>5. ASSUME NEW s \in Stream, StreamStep(s)
      PROVE  StreamsInv'
  BY <1>5, StreamStepKeeps
<1> QED
  BY <1>1, <1>2, <1>3, <1>4, <1>5 DEF StreamMove

LEMMA StreamsPromise ==
  ASSUME StreamsInv
  PROVE  StreamsTypeOK /\ StreamUpToDate /\ NothingAfterRevocation
<1> SUFFICES ASSUME NEW s \in Stream, stream[s].at = "listening",
                    stream[s].unread = <<>>, ~stream[s].missed
             PROVE  stream[s].seen \in Told
  BY DEF StreamsInv, StreamUpToDate, Told
<1>1. Latest(stream[s].unread, Knows(stream[s]), Told)
  BY DEF StreamsInv, FreshInv, Subscribed, Waiting
<1>2. Knows(stream[s]) = stream[s].seen
  BY DEF Knows
<1> QED
  BY <1>1, <1>2 DEF Latest

-----------------------------------------------------------------------------
(***************************************************************************)
(* The commands, the limits and the stop.                                  *)
(***************************************************************************)
\* Phases of a handler that has no child yet, and those of one that has.
Early == {"away", "waiting", "reading", "admitting", "spawning"}
Finishing == {"refreshing", "publishing", "reporting"}
Busy == {"reading", "admitting", "spawning", "running", "reaped"} \cup Finishing
Slotted == {"spawning", "running", "reaped"} \cup Finishing

NoCommand(r) ==
  /\ r.child = "none" /\ ~r.held /\ ~r.listed /\ ~r.requested /\ ~r.cancelled
  /\ r.told = "nothing"
Over(r) == r.child \in {"succeeded", "failed", "killed"} /\ ~r.held
EndOf(r) ==
  IF r.cancelled THEN "task_cancelled"
  ELSE IF r.child = "succeeded" THEN "completed" ELSE "command_failed"

\* What a connection can be, when a forced stop was asked for or not.
Consistent(r, force) ==
  /\ r.at \in Early => NoCommand(r) /\ r.code = "none"
  /\ r.at = "running" => r.child # "none" /\ r.told = "running" /\ r.code = "none"
  /\ r.at \in {"reaped", "broken"} => Over(r) /\ r.told = "running" /\ r.code = "none"
  /\ r.at \in Finishing =>
       Over(r) /\ ~r.listed /\ r.told = "refreshing" /\ r.code = "none"
  /\ r.at = "closed" =>
       \/ NoCommand(r)
       \/ /\ Over(r) /\ ~r.listed
          /\ r.told = EndOf(r) /\ r.code \in {"none", CodeOf(r.told)}
  /\ r.child = "working" => r.held
  /\ r.child = "killed" => r.cancelled
  /\ r.cancelled => r.requested \/ force

CommandsInv ==
  /\ conn \in [Connection -> Conn]
  /\ accepting \in BOOLEAN /\ ended \in BOOLEAN /\ forced \in BOOLEAN
  /\ \A c \in Connection : Consistent(conn[c], forced)

LimitsInv ==
  /\ Cardinality(Slots) <= MaxCommands
  /\ Cardinality(Handled) <= MaxConnections

\* The accept loop ends before the handlers are awaited, and they before it
\* returns.
StopInv ==
  /\ ~accepting => \A c \in Connection : conn[c].at # "waiting"
  /\ ended => ~accepting /\ Handled = {}

IInv ==
  /\ StreamsInv
  /\ gate \in {Nobody, Others} \cup Connection
  /\ CommandsInv
  /\ LimitsInv
  /\ StopInv
-----------------------------------------------------------------------------
LEMMA Started ==
  Init => IInv
<1> SUFFICES ASSUME Init PROVE IInv
  OBVIOUS
<1>1. StreamsInv /\ gate = Nobody
  BY StreamsStart DEF Init, InitStreams
<1>2. NoConn \in Conn
  BY DEF NoConn, Conn
<1>3. Consistent(NoConn, FALSE)
  BY DEF Consistent, NoConn, NoCommand, Early, Finishing
<1>4. CommandsInv
  BY <1>2, <1>3 DEF Init, CommandsInv
<1>5. Handled = {} /\ Slots = {}
  BY DEF Init, Handled, Slots, NoConn
<1>6. LimitsInv
  <2>1. Cardinality({}) = 0
    BY FS_EmptySet
  <2> QED
    BY <1>5, <2>1, DelegationAssumption DEF LimitsInv
<1>7. StopInv
  BY DEF Init, StopInv
<1> QED
  BY <1>1, <1>4, <1>6, <1>7 DEF IInv

LEMMA StreamsOfStep ==
  ASSUME IInv, Next
  PROVE  StreamMove /\ gate' \in {Nobody, Others} \cup Connection
<1> USE DEF Moves, Quietly
<1>1. Nobody # Others /\ \A c \in Connection : c # Nobody
  BY EventStreamAssumption, DelegationAssumption
<1>2. ASSUME NEW c \in Connection,
             Connect(c) \/ Accept(c) \/ Kill(c) \/ KillZombie(c) \/ ChildEnds(c)
             \/ DescendantsEnd(c) \/ Request(c) \/ Cancel(c) \/ RequestFails(c)
             \/ Refuse(c) \/ Admit(c) \/ SpawnFails(c) \/ Reap(c) \/ WaitFails(c)
             \/ RefreshNothing(c)
      PROVE  UNCHANGED streamVars
  BY <1>2 DEF Connect, Accept, Kill, KillZombie, ChildEnds, DescendantsEnd, Request, Cancel,
     RequestFails, Refuse, Admit, SpawnFails, Reap, WaitFails, RefreshNothing
<1>3. ASSUME NEW c \in Connection, Spawn(c) \/ Unlist(c) \/ Report(c)
      PROVE  Broadcast("task") /\ UNCHANGED <<shutdown, published, announced, gate, allowed>>
  BY <1>3 DEF Spawn, Unlist, Report
<1>4. ASSUME NEW c \in Connection, Refresh(c) \/ Refreshed(c)
      PROVE  (PublishCatalog(c) \/ AnnounceCatalog(c)) /\ gate' \in {Nobody, c}
  BY <1>4 DEF Refresh, Refreshed, PublishCatalog, AnnounceCatalog
<1>5. CASE StopAccepting \/ Return \/ ForceStop
  BY <1>5 DEF StopAccepting, Return, ForceStop, StreamMove, streamVars, IInv
<1>6. CASE Shutdown
  BY <1>6 DEF Shutdown, StreamMove, IInv
<1>7. CASE PublishCatalog(Others) \/ AnnounceCatalog(Others) \/ AbandonCatalog(Others)
  BY <1>1, <1>7 DEF PublishCatalog, AnnounceCatalog, AbandonCatalog, StreamMove
<1>8. ASSUME NEW s \in Stream, StreamStep(s)
      PROVE  StreamMove /\ gate' = gate
  BY <1>8 DEF StreamMove, StreamStep, Serve, Upgrade, Subscribe, Confirm, ReadCatalog, Receive,
     CheckEvent, Tick, Send, Disconnect, StopStream, Revoke, Becomes
<1>9. ASSUME NEW c \in Connection, UNCHANGED streamVars
      PROVE  StreamMove /\ gate' = gate
  BY <1>9 DEF StreamMove, streamVars
<1>10. ASSUME NEW c \in Connection,
              Connect(c) \/ Accept(c) \/ Handle(c) \/ Kill(c) \/ KillZombie(c)
              \/ ChildEnds(c) \/ DescendantsEnd(c)
       PROVE  StreamMove /\ gate' \in {Nobody, Others} \cup Connection
  BY <1>1, <1>2, <1>3, <1>4, <1>9, <1>10 DEF Handle, IInv, StreamMove
<1> QED
  BY <1>5, <1>6, <1>7, <1>8, <1>10 DEF Next, IInv
-----------------------------------------------------------------------------
LEMMA ConnectionsFinite ==
  ASSUME NEW T \in SUBSET Connection
  PROVE  /\ IsFiniteSet(T) /\ Cardinality(T) \in Nat
         /\ \A U \in SUBSET T : Cardinality(U) <= Cardinality(T)
         /\ \A c \in Connection : Cardinality(T \cup {c}) <= Cardinality(T) + 1
<1>1. IsFiniteSet(T)
  BY DelegationAssumption, FS_Subset
<1>2. Cardinality(T) \in Nat
  BY <1>1, FS_CardinalityType
<1>3. \A U \in SUBSET T : Cardinality(U) <= Cardinality(T)
  BY <1>1, FS_Subset
<1>4. ASSUME NEW c \in Connection
      PROVE  Cardinality(T \cup {c}) <= Cardinality(T) + 1
  <2>1. Cardinality(T \cup {c}) = IF c \in T THEN Cardinality(T) ELSE Cardinality(T) + 1
    BY <1>1, FS_AddElement
  <2> QED
    BY <1>2, <2>1
<1> QED
  BY <1>1, <1>2, <1>3, <1>4

\* A set of connections that grows by one at most, and only below its limit.
LEMMA LimitKept ==
  ASSUME NEW T \in SUBSET Connection, NEW U \in SUBSET Connection, NEW limit \in Nat,
         NEW c \in Connection, Cardinality(T) <= limit,
         U \subseteq T \/ (U \subseteq T \cup {c} /\ Cardinality(T) < limit)
  PROVE  Cardinality(U) <= limit
<1>1. Cardinality(T) \in Nat /\ Cardinality(U) \in Nat
  BY ConnectionsFinite
<1>2. CASE U \subseteq T
  <2>1. Cardinality(U) <= Cardinality(T)
    BY <1>2, ConnectionsFinite
  <2> QED
    BY <1>1, <2>1
<1>3. CASE U \subseteq T \cup {c} /\ Cardinality(T) < limit
  <2>1. T \cup {c} \in SUBSET Connection
    OBVIOUS
  <2>2. Cardinality(U) <= Cardinality(T \cup {c}) /\ Cardinality(T \cup {c}) \in Nat
    BY <1>3, <2>1, ConnectionsFinite
  <2>3. Cardinality(T \cup {c}) <= Cardinality(T) + 1
    BY ConnectionsFinite
  <2> QED
    BY <1>1, <1>3, <2>2, <2>3
<1> QED
  BY <1>2, <1>3

LEMMA HandledAreBusy ==
  \A r \in Conn :
    /\ r.at \in Busy <=> r.at \notin {"away", "waiting", "closed", "broken"}
    /\ r.at \in Slotted <=> r.at \in Busy /\ r.at \notin {"reading", "admitting"}
  BY DEF Conn, Busy, Slotted, Finishing

\* One connection goes from one state to another.
LEMMA MoveKeeps ==
  ASSUME CommandsInv, LimitsInv, StopInv, NEW c \in Connection, NEW new \in Conn,
         Moves(c, new), Consistent(new, forced),
         new.at \in Busy => conn[c].at \in Busy
                            \/ (accepting /\ Cardinality(Handled) < MaxConnections),
         new.at \in Slotted => conn[c].at \in Slotted \/ Cardinality(Slots) < MaxCommands,
         new.at = "waiting" => accepting
  PROVE  CommandsInv' /\ LimitsInv' /\ StopInv'
<1> USE DEF Moves
<1>1. conn' \in [Connection -> Conn]
  BY DEF CommandsInv
<1>2. \A d \in Connection : Consistent(conn'[d], forced)
  BY DEF CommandsInv
<1>3. CommandsInv'
  BY <1>1, <1>2 DEF CommandsInv
<1>4. /\ Handled = {d \in Connection : conn[d].at \in Busy}
      /\ Slots = {d \in Connection : conn[d].at \in Slotted}
  BY HandledAreBusy DEF CommandsInv, Handled, Slots
<1>5. /\ Handled' = {d \in Connection : conn'[d].at \in Busy}
      /\ Slots' = {d \in Connection : conn'[d].at \in Slotted}
  BY <1>1, HandledAreBusy DEF Handled, Slots
<1>6. \A d \in Connection : d # c => conn'[d] = conn[d]
  BY DEF CommandsInv
<1>7. conn'[c] = new
  BY DEF CommandsInv
<1>8. Cardinality(Handled') <= MaxConnections
  <2>1. Handled' \subseteq Handled
        \/ (Handled' \subseteq Handled \cup {c} /\ Cardinality(Handled) < MaxConnections)
    BY <1>4, <1>5, <1>6, <1>7
  <2> QED
    BY <1>4, <1>5, <2>1, LimitKept, DelegationAssumption DEF LimitsInv
<1>9. Cardinality(Slots') <= MaxCommands
  <2>1. Slots' \subseteq Slots
        \/ (Slots' \subseteq Slots \cup {c} /\ Cardinality(Slots) < MaxCommands)
    BY <1>4, <1>5, <1>6, <1>7
  <2> QED
    BY <1>4, <1>5, <2>1, LimitKept, DelegationAssumption DEF LimitsInv
<1>10. StopInv'
  BY <1>4, <1>5, <1>6, <1>7 DEF StopInv
<1> QED
  BY <1>3, <1>8, <1>9, <1>10 DEF LimitsInv
-----------------------------------------------------------------------------
(***************************************************************************)
(* Every step of a connection is such a move, but a cancellation.          *)
(***************************************************************************)
\* A child that has been spawned is one more valid state of its connection.
LEMMA SpawnedRecord ==
  ASSUME NEW r \in Conn, NEW listed \in BOOLEAN
  PROVE  [r EXCEPT !.at = "running", !.child = "working", !.held = TRUE,
                   !.listed = listed, !.told = "running"] \in Conn
BY ZenonT(60) DEF Conn

LEMMA ConnRecord ==
  ASSUME NEW r \in Conn
  PROVE  /\ \A at \in {"away", "waiting", "reading", "admitting", "spawning", "running",
                       "reaped", "refreshing", "publishing", "reporting", "closed",
                       "broken"} : [r EXCEPT !.at = at] \in Conn
         /\ \A code \in {"none", "ok", "failure", "cancelled", "refused", "not_found"} :
              [r EXCEPT !.at = "closed", !.code = code] \in Conn
<1>1. ASSUME NEW at \in {"away", "waiting", "reading", "admitting", "spawning", "running",
                         "reaped", "refreshing", "publishing", "reporting", "closed", "broken"}
      PROVE  [r EXCEPT !.at = at] \in Conn
  BY DEF Conn
<1>2. ASSUME NEW code \in {"none", "ok", "failure", "cancelled", "refused", "not_found"}
      PROVE  [r EXCEPT !.at = "closed", !.code = code] \in Conn
  BY ZenonT(60) DEF Conn
<1> QED
  BY <1>1, <1>2

LEMMA ConnectionMoves ==
  ASSUME CommandsInv, LimitsInv, StopInv, NEW c \in Connection,
         Connect(c) \/ Accept(c) \/ RequestFails(c) \/ Request(c) \/ Refuse(c) \/ Admit(c)
         \/ SpawnFails(c) \/ Spawn(c) \/ ChildEnds(c) \/ DescendantsEnd(c) \/ Kill(c)
         \/ KillZombie(c) \/ Reap(c) \/ WaitFails(c) \/ Unlist(c) \/ RefreshNothing(c)
         \/ Refresh(c) \/ Refreshed(c) \/ Report(c)
  PROVE  CommandsInv' /\ LimitsInv' /\ StopInv'
<1> DEFINE old == conn[c]
<1>1. old \in Conn /\ Consistent(old, forced)
  BY DEF CommandsInv
<1> USE DEF Quietly, Consistent, NoCommand, Over, EndOf, Early, Finishing
<1>2. CASE Connect(c)
  <2> DEFINE new == [old EXCEPT !.at = "waiting"]
  <2>1. Moves(c, new) /\ new \in Conn /\ accepting
    BY <1>1, <1>2, ConnRecord DEF Connect
  <2>2. Consistent(new, forced)
    BY <1>1, <1>2 DEF Connect, Conn
  <2>3. new.at \notin Busy /\ new.at \notin Slotted
    BY <1>1 DEF Conn, Busy, Slotted
  <2> QED
    BY <2>1, <2>2, <2>3, MoveKeeps
<1>3. CASE Accept(c)
  <2>1. CASE Cardinality(Handled) >= MaxConnections
    <3> DEFINE new == Closing(c, "none")
    <3>1. Moves(c, new) /\ new \in Conn
      BY <1>1, <1>3, <2>1, ConnRecord DEF Accept, Closing
    <3>2. Consistent(new, forced)
      BY <1>1, <1>3 DEF Accept, Conn, Closing
    <3>3. new.at \notin Busy /\ new.at \notin Slotted /\ new.at # "waiting"
      BY <1>1 DEF Conn, Busy, Slotted, Closing
    <3> QED
      BY <3>1, <3>2, <3>3, MoveKeeps
  <2>2. CASE ~(Cardinality(Handled) >= MaxConnections)
    <3> DEFINE new == [old EXCEPT !.at = "reading"]
    <3>1. Moves(c, new) /\ new \in Conn /\ accepting
      BY <1>1, <1>3, <2>2, ConnRecord DEF Accept
    <3>2. Consistent(new, forced)
      BY <1>1, <1>3 DEF Accept, Conn
    <3>3. new.at \notin Slotted /\ new.at # "waiting"
      BY <1>1 DEF Conn, Slotted
    <3>4. Cardinality(Handled) < MaxConnections
      <4>1. Handled \in SUBSET Connection
        BY DEF Handled
      <4>2. Cardinality(Handled) \in Nat
        BY <4>1, ConnectionsFinite
      <4> QED
        BY <2>2, <4>2, DelegationAssumption
    <3> QED
      BY <3>1, <3>2, <3>3, <3>4, MoveKeeps
  <2> QED
    BY <2>1, <2>2
<1>4. CASE RequestFails(c) \/ Refuse(c) \/ SpawnFails(c)
  <2>1. PICK code \in {"none", "refused"} : Moves(c, Closing(c, code))
    BY <1>4 DEF RequestFails, Refuse, SpawnFails
  <2> DEFINE new == Closing(c, code)
  <2>2. new \in Conn
    BY <1>1, ConnRecord DEF Closing
  <2>3. Consistent(new, forced)
    BY <1>1, <1>4 DEF RequestFails, Refuse, SpawnFails, Conn, Closing
  <2>4. new.at \notin Busy /\ new.at \notin Slotted /\ new.at # "waiting"
    BY <1>1 DEF Conn, Busy, Slotted, Closing
  <2> QED
    BY <2>1, <2>2, <2>3, <2>4, MoveKeeps
<1>5. CASE Request(c)
  <2>1. PICK kind \in {"scan", "command"} :
          Moves(c, [old EXCEPT !.at = "admitting", !.kind = kind])
    BY <1>5 DEF Request
  <2> DEFINE new == [old EXCEPT !.at = "admitting", !.kind = kind]
  <2>2. new \in Conn
    BY <1>1 DEF Conn
  <2>3. Consistent(new, forced)
    BY <1>1, <1>5 DEF Request, Conn
  <2>4. new.at \notin Slotted /\ new.at # "waiting" /\ old.at \in Busy
    BY <1>1, <1>5 DEF Conn, Slotted, Busy, Request
  <2> QED
    BY <2>1, <2>2, <2>3, <2>4, MoveKeeps
<1>6. CASE Admit(c)
  <2> DEFINE new == [old EXCEPT !.at = "spawning"]
  <2>1. Moves(c, new) /\ new \in Conn
    BY <1>1, <1>6, ConnRecord DEF Admit
  <2>2. Consistent(new, forced)
    BY <1>1, <1>6 DEF Admit, Conn
  <2>3. new.at # "waiting" /\ old.at \in Busy /\ Cardinality(Slots) < MaxCommands
    BY <1>1, <1>6 DEF Conn, Busy, Admit
  <2> QED
    BY <2>1, <2>2, <2>3, MoveKeeps
<1>7. CASE Spawn(c)
  <2> DEFINE new == [old EXCEPT !.at = "running", !.child = "working", !.held = TRUE,
                                !.listed = (old.kind = "scan"), !.told = "running"]
  <2>1. Moves(c, new) /\ old.at = "spawning"
    BY <1>7 DEF Spawn
  <2>2. new \in Conn
    <3>1. PICK listed \in BOOLEAN : listed = (old.kind = "scan")
      OBVIOUS
    <3>2. old \in Conn
      BY <1>1
    <3> QED
      BY <3>1, <3>2, SpawnedRecord
  <2>3. Consistent(new, forced)
    BY <1>1, <2>1 DEF Conn
  <2>4. new.at # "waiting" /\ old.at \in Busy /\ old.at \in Slotted
    BY <1>1, <2>1 DEF Conn, Busy, Slotted
  <2> QED
    BY <2>1, <2>2, <2>3, <2>4, MoveKeeps
<1>8. CASE ChildEnds(c)
  <2>1. PICK outcome \in {"succeeded", "failed"}, held \in BOOLEAN :
          Moves(c, [old EXCEPT !.child = outcome, !.held = held])
    BY <1>8 DEF ChildEnds
  <2> DEFINE new == [old EXCEPT !.child = outcome, !.held = held]
  <2>2. new \in Conn
    BY <1>1 DEF Conn
  <2>3. old.at = "running"
    BY <1>1, <1>8 DEF ChildEnds, Conn
  <2>4. new.at = "running" /\ new.child = outcome /\ new.told = old.told
        /\ new.code = old.code /\ new.cancelled = old.cancelled
        /\ new.requested = old.requested
    BY <1>1, <2>3 DEF Conn
  <2>5. Consistent(new, forced)
    BY <1>1, <2>3, <2>4
  <2>6. new.at # "waiting" /\ old.at \in Busy /\ old.at \in Slotted
    BY <2>3, <2>4 DEF Busy, Slotted
  <2> QED
    BY <2>1, <2>2, <2>5, <2>6, MoveKeeps
<1>9. CASE DescendantsEnd(c)
  <2> DEFINE new == [old EXCEPT !.held = FALSE]
  <2>1. Moves(c, new) /\ old.child \in {"succeeded", "failed"}
    BY <1>9 DEF DescendantsEnd
  <2>2. new \in Conn
    BY <1>1 DEF Conn
  <2>3. old.at = "running"
    BY <1>1, <1>9 DEF DescendantsEnd, Conn
  <2>4. Consistent(new, forced)
    BY <1>1, <2>1, <2>3 DEF Conn
  <2>5. new.at # "waiting" /\ old.at \in Busy /\ old.at \in Slotted
    BY <1>1, <2>3 DEF Conn, Busy, Slotted
  <2> QED
    BY <2>1, <2>2, <2>4, <2>5, MoveKeeps
<1>10. CASE Kill(c) \/ KillZombie(c)
  <2>1. /\ old.at = "running" /\ (forced \/ old.requested)
        /\ \/ Moves(c, Killed(c))
           \/ old.child # "working" /\ Moves(c, [old EXCEPT !.cancelled = TRUE])
    BY <1>10 DEF Kill, KillZombie, Wanted
  <2>2. PICK new : /\ Moves(c, new)
                   /\ \/ new = Killed(c)
                      \/ old.child # "working" /\ new = [old EXCEPT !.cancelled = TRUE]
    BY <2>1
  <2>3. /\ new \in Conn /\ new.at = "running" /\ new.cancelled
        /\ new.child \notin {"none", "working"}
        /\ new.told = "running" /\ new.code = "none" /\ new.requested = old.requested
    BY <1>1, <2>1, <2>2, ZenonT(60) DEF Conn, Killed
  <2>4. Consistent(new, forced)
    BY <2>1, <2>3
  <2>5. old.at \in Busy /\ old.at \in Slotted
    BY <2>1 DEF Busy, Slotted
  <2> QED
    BY <2>2, <2>3, <2>4, <2>5, MoveKeeps
<1>11. CASE Reap(c) \/ WaitFails(c)
  <2>1. /\ old.at = "running" /\ old.child # "working" /\ ~old.held
        /\ \E at \in {"reaped", "broken"} : Moves(c, [old EXCEPT !.at = at])
    BY <1>11 DEF Reap, WaitFails
  <2>2. PICK at \in {"reaped", "broken"} : Moves(c, [old EXCEPT !.at = at])
    BY <2>1
  <2> DEFINE new == [old EXCEPT !.at = at]
  <2>3. new \in Conn
    BY <1>1, ConnRecord
  <2>4. Consistent(new, forced)
    BY <1>1, <2>1 DEF Conn
  <2>5. new.at # "waiting" /\ old.at \in Busy /\ old.at \in Slotted
    BY <1>1, <2>1 DEF Conn, Busy, Slotted
  <2> QED
    BY <2>2, <2>3, <2>4, <2>5, MoveKeeps
<1>12. CASE Unlist(c)
  <2> DEFINE new == [old EXCEPT !.at = "refreshing", !.listed = FALSE, !.told = "refreshing"]
  <2>1. Moves(c, new) /\ old.at = "reaped"
    BY <1>12 DEF Unlist
  <2>2. new \in Conn
    BY <1>1 DEF Conn
  <2>3. Consistent(new, forced)
    BY <1>1, <2>1 DEF Conn
  <2>4. new.at # "waiting" /\ old.at \in Busy /\ old.at \in Slotted
    BY <1>1, <2>1 DEF Conn, Busy, Slotted
  <2> QED
    BY <2>1, <2>2, <2>3, <2>4, MoveKeeps
<1>13. CASE RefreshNothing(c) \/ Refresh(c) \/ Refreshed(c)
  <2>1. /\ old.at \in {"refreshing", "publishing"}
        /\ \E at \in {"publishing", "reporting"} : Moves(c, [old EXCEPT !.at = at])
    BY <1>13 DEF RefreshNothing, Refresh, Refreshed
  <2>2. PICK at \in {"publishing", "reporting"} : Moves(c, [old EXCEPT !.at = at])
    BY <2>1
  <2> DEFINE new == [old EXCEPT !.at = at]
  <2>3. new \in Conn
    BY <1>1, ConnRecord
  <2>4. Consistent(new, forced)
    BY <1>1, <2>1 DEF Conn
  <2>5. new.at # "waiting" /\ old.at \in Busy /\ old.at \in Slotted
    BY <1>1, <2>1 DEF Conn, Busy, Slotted
  <2> QED
    BY <2>2, <2>3, <2>4, <2>5, MoveKeeps
<1>14. CASE Report(c)
  <2>1. old.at = "reporting"
    BY <1>14 DEF Report
  <2>2. PICK end \in {"completed", "command_failed", "task_cancelled"},
             code \in {"none", "ok", "failure", "cancelled"} :
          /\ end = EndOf(old) /\ code \in {"none", CodeOf(end)}
          /\ Moves(c, [Closing(c, code) EXCEPT !.told = end])
    BY <1>14 DEF Report, End, CodeOf
  <2>3. PICK new : new = [Closing(c, code) EXCEPT !.told = end]
    OBVIOUS
  <2>4. new \in Conn /\ new.at = "closed" /\ new.told = end /\ new.code = code
    BY <1>1, <2>3, ZenonT(60) DEF Conn, Closing
  <2>5. /\ new.child = old.child /\ new.held = old.held /\ new.listed = old.listed
        /\ new.cancelled = old.cancelled /\ new.requested = old.requested
    BY <1>1, <2>3 DEF Conn, Closing
  <2>6. EndOf(new) = EndOf(old)
    BY <2>5
  <2>7. Consistent(new, forced)
    BY <1>1, <2>1, <2>2, <2>4, <2>5, <2>6
  <2>8. new.at \notin Busy /\ new.at \notin Slotted /\ new.at # "waiting"
    BY <2>4 DEF Busy, Slotted
  <2> QED
    BY <2>2, <2>3, <2>4, <2>7, <2>8, MoveKeeps
<1> QED
  BY <1>2, <1>3, <1>4, <1>5, <1>6, <1>7, <1>8, <1>9, <1>10, <1>11, <1>12, <1>13, <1>14

\* A cancellation closes its own connection and flags the task of another.
LEMMA FlagKeeps ==
  ASSUME NEW r \in Conn, NEW force \in BOOLEAN, NEW flag \in BOOLEAN, Consistent(r, force),
         flag => r.listed
  PROVE  LET q == [r EXCEPT !.requested = @ \/ flag]
         IN  q \in Conn /\ q.at = r.at /\ Consistent(q, force)
<1> DEFINE q == [r EXCEPT !.requested = @ \/ flag]
<1>1. /\ q \in Conn /\ q.at = r.at /\ q.child = r.child /\ q.told = r.told /\ q.code = r.code
  BY DEF Conn
<1>2. q.held = r.held /\ q.listed = r.listed /\ q.cancelled = r.cancelled
  BY DEF Conn
<1>3. q.requested <=> r.requested \/ flag
  BY DEF Conn
<1> HIDE DEF q
<1>4. NoCommand(r) => NoCommand(q)
  BY <1>1, <1>2, <1>3 DEF NoCommand
<1>5. Over(r) => Over(q)
  BY <1>1, <1>2 DEF Over
<1>6. EndOf(q) = EndOf(r)
  BY <1>1, <1>2 DEF EndOf
<1>7. Consistent(q, force)
  BY <1>1, <1>2, <1>3, <1>4, <1>5, <1>6 DEF Consistent
<1> QED
  BY <1>1, <1>7 DEF q

\* The connections change, but none of them holds more than it held before.
LEMMA LimitsAndStopKept ==
  ASSUME CommandsInv, LimitsInv, StopInv, conn' \in [Connection -> Conn],
         \A d \in Connection :
           /\ conn'[d].at \in Busy => conn[d].at \in Busy
           /\ conn'[d].at \in Slotted => conn[d].at \in Slotted
           /\ conn'[d].at = "waiting" => accepting' /\ conn[d].at = "waiting",
         ended' => ~accepting' /\ Handled = {}
  PROVE  LimitsInv' /\ StopInv'
<1>1. /\ Handled = {d \in Connection : conn[d].at \in Busy}
      /\ Slots = {d \in Connection : conn[d].at \in Slotted}
  BY HandledAreBusy DEF CommandsInv, Handled, Slots
<1>2. /\ Handled' = {d \in Connection : conn'[d].at \in Busy}
      /\ Slots' = {d \in Connection : conn'[d].at \in Slotted}
  BY HandledAreBusy DEF Handled, Slots
<1>3. Handled' \subseteq Handled /\ Slots' \subseteq Slots
  BY <1>1, <1>2
<1>4. Handled \in SUBSET Connection /\ Slots \in SUBSET Connection
  BY <1>1
<1>5. /\ Cardinality(Handled') <= Cardinality(Handled)
      /\ Cardinality(Slots') <= Cardinality(Slots)
  BY <1>3, <1>4, ConnectionsFinite
<1>6. /\ Handled' \in SUBSET Connection /\ Slots' \in SUBSET Connection
  BY <1>2
<1>7. /\ Cardinality(Handled') \in Nat /\ Cardinality(Handled) \in Nat
      /\ Cardinality(Slots') \in Nat /\ Cardinality(Slots) \in Nat
  BY <1>4, <1>6, ConnectionsFinite
<1>8. LimitsInv'
  BY <1>5, <1>7, DelegationAssumption DEF LimitsInv
<1>9. StopInv'
  BY <1>3 DEF StopInv
<1> QED
  BY <1>8, <1>9

LEMMA CancelKeeps ==
  ASSUME CommandsInv, LimitsInv, StopInv, NEW c \in Connection, Cancel(c)
  PROVE  CommandsInv' /\ LimitsInv' /\ StopInv'
<1>1. PICK target \in Connection, code \in {"ok", "not_found"} :
        conn' = [d \in Connection |->
          IF d = c THEN Closing(c, code)
          ELSE [conn[d] EXCEPT !.requested = @ \/ (d = target /\ conn[d].listed)]]
  BY ZenonT(60) DEF Cancel
<1>2. /\ conn[c].at = "reading" /\ conn[c] \in Conn /\ Consistent(conn[c], forced)
      /\ UNCHANGED <<accepting, ended, forced>>
  BY DEF Cancel, CommandsInv
<1>3. conn'[c] = [conn[c] EXCEPT !.at = "closed", !.code = code]
  BY <1>1 DEF Closing
<1>4. conn'[c] \in Conn /\ conn'[c].at = "closed" /\ Consistent(conn'[c], forced)
  BY <1>2, <1>3 DEF Conn, Consistent, NoCommand, Early, Finishing
<1>5. ASSUME NEW d \in Connection, d # c
      PROVE  conn'[d] \in Conn /\ conn'[d].at = conn[d].at /\ Consistent(conn'[d], forced)
  <2> DEFINE flag == d = target /\ conn[d].listed
  <2>1. conn'[d] = [conn[d] EXCEPT !.requested = @ \/ flag]
    BY <1>1, <1>5
  <2>2. conn[d] \in Conn /\ Consistent(conn[d], forced) /\ forced \in BOOLEAN
    BY DEF CommandsInv
  <2>3. flag \in BOOLEAN /\ (flag => conn[d].listed)
    OBVIOUS
  <2> HIDE DEF flag
  <2> QED
    BY <2>1, <2>2, <2>3, FlagKeeps
<1>6. conn' \in [Connection -> Conn]
  BY <1>1, <1>4, <1>5
<1>7. CommandsInv'
  BY <1>2, <1>4, <1>5, <1>6 DEF CommandsInv
<1>8. "closed" \notin Busy /\ "closed" \notin Slotted
  BY DEF Busy, Slotted, Finishing
<1>9. \A d \in Connection : conn'[d].at = "closed" \/ conn'[d].at = conn[d].at
  BY <1>4, <1>5
<1>10. LimitsInv' /\ StopInv'
  BY <1>2, <1>6, <1>8, <1>9, LimitsAndStopKept DEF StopInv
<1> QED
  BY <1>7, <1>10

LEMMA StopAcceptingKeeps ==
  ASSUME CommandsInv, LimitsInv, StopInv, StopAccepting
  PROVE  CommandsInv' /\ LimitsInv' /\ StopInv'
<1>1. /\ accepting /\ accepting' = FALSE /\ UNCHANGED <<ended, forced>>
      /\ conn' = [d \in Connection |->
                    IF conn[d].at = "waiting" THEN Closing(d, "none") ELSE conn[d]]
  BY DEF StopAccepting
<1>2. ASSUME NEW d \in Connection
      PROVE  /\ conn'[d] \in Conn /\ Consistent(conn'[d], forced)
             /\ IF conn[d].at = "waiting" THEN conn'[d].at = "closed"
                ELSE conn'[d].at = conn[d].at
  <2>1. conn[d] \in Conn /\ Consistent(conn[d], forced)
    BY DEF CommandsInv
  <2>2. CASE conn[d].at = "waiting"
    <3>1. conn'[d] = [conn[d] EXCEPT !.at = "closed", !.code = "none"]
      BY <1>1, <2>2 DEF Closing
    <3> QED
      BY <2>1, <2>2, <3>1 DEF Conn, Consistent, NoCommand, Early, Finishing
  <2>3. CASE conn[d].at # "waiting"
    BY <1>1, <2>1, <2>3
  <2> QED
    BY <2>2, <2>3
<1>3. conn' \in [Connection -> Conn]
  BY <1>1, <1>2
<1>4. CommandsInv'
  BY <1>1, <1>2, <1>3 DEF CommandsInv
<1>5. "closed" \notin Busy /\ "closed" \notin Slotted
  BY DEF Busy, Slotted, Finishing
<1>6. LimitsInv' /\ StopInv'
  BY <1>1, <1>2, <1>3, <1>5, LimitsAndStopKept DEF StopInv
<1> QED
  BY <1>4, <1>6

LEMMA ConnectionsUnchanged ==
  ASSUME CommandsInv, LimitsInv, StopInv,
         Return \/ ForceStop \/ UNCHANGED commandVars
  PROVE  CommandsInv' /\ LimitsInv' /\ StopInv'
<1>1. /\ UNCHANGED <<conn, accepting>> /\ forced' \in BOOLEAN /\ ended' \in BOOLEAN
      /\ forced => forced'
      /\ ended' => ~accepting /\ Handled = {}
  <2>1. CASE Return
    BY <2>1 DEF Return, CommandsInv, StopInv
  <2>2. CASE ForceStop
    BY <2>2 DEF ForceStop, CommandsInv, StopInv
  <2>3. CASE UNCHANGED commandVars
    BY <2>3 DEF commandVars, CommandsInv, StopInv
  <2> QED
    BY <2>1, <2>2, <2>3
<1>2. \A d \in Connection : Consistent(conn[d], forced')
  BY <1>1 DEF CommandsInv, Consistent
<1>3. CommandsInv'
  BY <1>1, <1>2 DEF CommandsInv
<1>4. LimitsInv' /\ StopInv'
  BY <1>1 DEF LimitsInv, StopInv, Handled, Slots
<1> QED
  BY <1>3, <1>4
-----------------------------------------------------------------------------
LEMMA NextKeeps ==
  ASSUME IInv, Next
  PROVE  IInv'
<1>1. StreamsInv' /\ (gate \in {Nobody, Others} \cup Connection)'
  BY StreamsOfStep, StreamsKept DEF IInv
<1>2. CommandsInv /\ LimitsInv /\ StopInv
  BY DEF IInv
<1>3. ASSUME NEW c \in Connection,
             Connect(c) \/ Accept(c) \/ Handle(c) \/ Kill(c) \/ KillZombie(c)
             \/ ChildEnds(c) \/ DescendantsEnd(c)
      PROVE  CommandsInv' /\ LimitsInv' /\ StopInv'
  BY <1>2, <1>3, ConnectionMoves, CancelKeeps DEF Handle
<1>4. CommandsInv' /\ LimitsInv' /\ StopInv'
  BY <1>2, <1>3, StopAcceptingKeeps, ConnectionsUnchanged DEF Next
<1> QED
  BY <1>1, <1>4 DEF IInv

\* The invariant is inductive, and so it holds for every number of
\* connections and streams and every limit: handlers, processes and streams
\* of delegation.rs, owned_process.rs and events.rs together.
THEOREM DelegationInvariant == Spec => []IInv
<1>1. Init => IInv
  BY Started
<1>2. IInv /\ [Next]_vars => IInv'
  <2>1. IInv /\ UNCHANGED vars => IInv'
    <3> SUFFICES ASSUME IInv, UNCHANGED vars PROVE IInv'
      OBVIOUS
    <3>1. UNCHANGED streamVars /\ UNCHANGED commandVars
      BY DEF vars
    <3>2. CommandsInv' /\ LimitsInv' /\ StopInv'
      BY <3>1, ConnectionsUnchanged DEF IInv
    <3>3. StreamsInv'
      BY <3>1, StreamsKept DEF IInv, StreamMove
    <3> QED
      BY <3>1, <3>2, <3>3 DEF IInv, streamVars
  <2> QED
    BY <2>1, NextKeeps
<1> QED
  BY <1>1, <1>2, PTL DEF Spec

\* Handlers, commands and receivers keep within their types, and the server
\* within its limits: connections, commands, WebSockets, unread events.
THEOREM TypeCorrect == Spec => []TypeOK
<1>1. IInv => TypeOK
  BY StreamsPromise DEF IInv, CommandsInv, LimitsInv, TypeOK
<1> QED
  BY <1>1, DelegationInvariant, PTL

\* handle_connection tells every stream and its client the truth about the
\* command: whether it ended well, failed, or was cancelled on request.
THEOREM ReportsTrue == Spec => []ReportsAreTrue
<1>1. IInv => ReportsAreTrue
  <2> SUFFICES ASSUME IInv, NEW c \in Connection
               PROVE  /\ conn[c].told = "completed" =>
                           conn[c].child = "succeeded" /\ ~conn[c].cancelled
                      /\ conn[c].told = "command_failed" => conn[c].child = "failed"
                      /\ conn[c].told = "task_cancelled" => conn[c].requested \/ forced
                      /\ conn[c].listed => conn[c].told = "running"
                      /\ conn[c].child # "none" /\ conn[c].code # "none" =>
                           /\ conn[c].told \in Ends
                           /\ conn[c].code = CodeOf(conn[c].told)
    BY DEF ReportsAreTrue
  <2> DEFINE r == conn[c]
  <2>1. r \in Conn /\ Consistent(r, forced)
    BY DEF IInv, CommandsInv
  <2> HIDE DEF r
  <2>2. \/ r.at \in Early \/ r.at \in {"running", "reaped", "broken"} \/ r.at \in Finishing
        \/ r.at = "closed"
    BY <2>1 DEF Conn, Early, Finishing
  <2>3. CASE r.at # "closed"
    BY <2>1, <2>2, <2>3 DEF Consistent, NoCommand, Over, r
  <2>4. CASE r.at = "closed" /\ NoCommand(r)
    BY <2>4 DEF NoCommand, r
  <2>5. CASE r.at = "closed" /\ Over(r) /\ ~r.listed /\ r.told = EndOf(r)
             /\ r.code \in {"none", CodeOf(r.told)}
    <3>1. r.told \in Ends
      BY <2>5 DEF EndOf, Ends
    <3>2. r.told = "completed" => r.child = "succeeded" /\ ~r.cancelled
      BY <2>5 DEF EndOf
    <3>3. r.told = "command_failed" => r.child = "failed"
      BY <2>1, <2>5 DEF EndOf, Over, Consistent
    <3>4. r.told = "task_cancelled" => r.requested \/ forced
      BY <2>1, <2>5 DEF EndOf, Consistent
    <3> QED
      BY <2>5, <3>1, <3>2, <3>3, <3>4 DEF r
  <2> QED
    BY <2>1, <2>3, <2>4, <2>5 DEF Consistent
<1> QED
  BY <1>1, DelegationInvariant, PTL

\* When accept_commands returns, no command and no descendant of one is left,
\* and the end of each was told, unless the wait for it had failed.
THEOREM StopIsComplete == Spec => []StopLeavesNothing
<1>1. IInv => StopLeavesNothing
  <2> SUFFICES ASSUME IInv, ended, NEW c \in Connection
               PROVE  /\ conn[c].at \in {"away", "closed", "broken"}
                      /\ conn[c].child # "working" /\ ~conn[c].held
                      /\ conn[c].child # "none" /\ conn[c].at # "broken" =>
                           conn[c].told \in Ends
    BY DEF StopLeavesNothing
  <2>1. conn[c] \in Conn /\ Consistent(conn[c], forced)
    BY DEF IInv, CommandsInv
  <2>2. conn[c].at \in {"away", "closed", "broken"}
    BY DEF IInv, StopInv, Handled
  <2>3. conn[c].child # "working" /\ ~conn[c].held
    BY <2>1, <2>2 DEF Consistent, NoCommand, Over, Early
  <2>4. ASSUME conn[c].child # "none", conn[c].at # "broken"
        PROVE  conn[c].told \in Ends
    <3>1. conn[c].at = "closed"
      BY <2>1, <2>2, <2>4 DEF Consistent, NoCommand, Early
    <3>2. conn[c].told = EndOf(conn[c])
      BY <2>1, <2>4, <3>1 DEF Consistent, NoCommand
    <3> QED
      BY <3>2 DEF EndOf, Ends
  <2> QED
    BY <2>2, <2>3, <2>4
<1> QED
  BY <1>1, DelegationInvariant, PTL

\* A notification stream that never fell behind ends on the catalog that was
\* announced last or a newer one, in any interleaving of publications, the
\* dropped ones included, with the start of the stream and its reading.
THEOREM StreamsStayUpToDate == Spec => []StreamUpToDate
<1>1. IInv => StreamUpToDate
  BY StreamsPromise DEF IInv
<1> QED
  BY <1>1, DelegationInvariant, PTL

\* serve_notifications sends nothing that is newer than a revocation.
THEOREM RevokedIsSilent == Spec => []NothingAfterRevocation
<1>1. IInv => NothingAfterRevocation
  BY StreamsPromise DEF IInv
<1> QED
  BY <1>1, DelegationInvariant, PTL

-----------------------------------------------------------------------------
(***************************************************************************)
(* The way to the end: what a stop still waits for.                        *)
(***************************************************************************)
\* The stages of a connection, counted from its end.
Stage ==
  [away |-> 10, waiting |-> 9, reading |-> 8, admitting |-> 7, spawning |-> 6, running |-> 5,
   reaped |-> 4, refreshing |-> 3, publishing |-> 2, reporting |-> 1, closed |-> 0, broken |-> 0]
Lives(r) == r.child = "working" \/ r.held

\* Half a stage is left of a running command once its group is gone.
Left(r) == 2 * Stage[r.at] + (IF Lives(r) THEN 1 ELSE 0)
MovesOn(c) ==
  /\ Left(conn'[c]) <= Left(conn[c])
  /\ Connect(c) \/ Accept(c) \/ Handle(c) \/ Kill(c) => Left(conn'[c]) < Left(conn[c])

Later(r, q) == Stage[q.at] < Stage[r.at]
NotRevived(r, q) == q.at = r.at /\ (Lives(q) => Lives(r))

LEMMA LeftIs ==
  ASSUME NEW r \in Conn, NEW q \in Conn
  PROVE  /\ Left(r) \in Nat
         /\ Later(r, q) => Left(q) < Left(r)
         /\ NotRevived(r, q) => Left(q) <= Left(r)
         /\ NotRevived(r, q) /\ Lives(r) /\ ~Lives(q) => Left(q) < Left(r)
<1>1. Stage[r.at] \in Nat /\ Stage[q.at] \in Nat
  BY DEF Conn, Stage
<1>2. PICK m \in Nat, n \in Nat : m = Stage[r.at] /\ n = Stage[q.at]
  BY <1>1
<1>3. PICK a \in {0, 1}, b \in {0, 1} :
        a = (IF Lives(r) THEN 1 ELSE 0) /\ b = (IF Lives(q) THEN 1 ELSE 0)
  OBVIOUS
<1>4. Left(r) = 2 * m + a /\ Left(q) = 2 * n + b
  BY <1>2, <1>3 DEF Left
<1>5. Later(r, q) => 2 * n + b < 2 * m + a
  BY <1>2, <1>3 DEF Later
<1>6. NotRevived(r, q) => m = n /\ b <= a /\ (Lives(r) /\ ~Lives(q) => b < a)
  BY <1>2, <1>3 DEF NotRevived
<1> QED
  BY <1>2, <1>3, <1>4, <1>5, <1>6

\* What one connection does to itself.
LEMMA StageMoves ==
  ASSUME CommandsInv, NEW c \in Connection, NEW state, Moves(c, state)
  PROVE  conn'[c] = state /\ \A d \in Connection : d # c => conn'[d] = conn[d]
BY DEF CommandsInv, Moves

LEMMA HandlerMovesOn ==
  ASSUME CommandsInv, NEW c \in Connection, Connect(c) \/ Accept(c) \/ Handle(c)
  PROVE  /\ Later(conn[c], conn'[c]) /\ (conn'[c].at = "publishing" => Refresh(c))
         /\ \A d \in Connection : d # c => NotRevived(conn[d], conn'[d])
<1>1. conn[c] \in Conn
  BY DEF CommandsInv
<1>2. CASE Cancel(c)
  <2>1. PICK target \in Connection :
          conn' = [d \in Connection |->
            IF d = c THEN Closing(c, IF conn[target].listed THEN "ok" ELSE "not_found")
            ELSE [conn[d] EXCEPT !.requested = @ \/ (d = target /\ conn[d].listed)]]
    BY <1>2 DEF Cancel
  <2>2. conn[c].at = "reading" /\ conn'[c].at = "closed"
    BY <1>1, <1>2, <2>1 DEF Cancel, Closing, Conn
  <2>3. ASSUME NEW d \in Connection, d # c PROVE NotRevived(conn[d], conn'[d])
    <3>1. PICK flag : conn'[d] = [conn[d] EXCEPT !.requested = flag]
      BY <2>1, <2>3
    <3>2. conn[d] \in Conn
      BY DEF CommandsInv
    <3> QED BY <3>1, <3>2 DEF Conn, NotRevived, Lives
  <2> QED BY <2>2, <2>3 DEF Later, Stage
<1>3. CASE ~Cancel(c)
  <2>1. PICK state : /\ Moves(c, state) /\ Later(conn[c], state)
                     /\ state.at = "publishing" => Refresh(c)
    <3>1. CASE Connect(c)
      BY <1>1, <3>1 DEF Connect, Quietly, Later, Stage, Conn
    <3>2. CASE Accept(c)
      <4>1. PICK state : /\ Moves(c, state) /\ conn[c].at = "waiting"
                         /\ state = Closing(c, "none") \/ state = [conn[c] EXCEPT !.at = "reading"]
        BY <3>2 DEF Accept, Quietly
      <4>2. conn[c].at = "waiting" /\ (state.at = "closed" \/ state.at = "reading")
        BY <1>1, <4>1 DEF Closing, Conn
      <4>3. Later(conn[c], state) /\ state.at # "publishing"
        BY <4>2 DEF Later, Stage
      <4> QED BY <4>1, <4>3
    <3>3. CASE RequestFails(c) \/ Refuse(c) \/ SpawnFails(c)
      <4>1. PICK state : Moves(c, state) /\ \E code : state = Closing(c, code)
        BY <3>3 DEF RequestFails, Refuse, SpawnFails, Quietly
      <4>2. conn[c].at \in {"reading", "admitting", "spawning"} /\ state.at = "closed"
        BY <1>1, <3>3, <4>1 DEF RequestFails, Refuse, SpawnFails, Quietly, Closing, Conn
      <4>3. Later(conn[c], state) /\ state.at # "publishing"
        BY <4>2 DEF Later, Stage
      <4> QED BY <4>1, <4>3
    <3>4. CASE Request(c)
      <4>1. PICK state : Moves(c, state) /\ \E kind : state = [conn[c] EXCEPT !.at = "admitting", !.kind = kind]
        BY <3>4 DEF Request, Quietly
      <4>2. conn[c].at = "reading" /\ state.at = "admitting"
        BY <1>1, <3>4, <4>1 DEF Request, Quietly, Closing, Conn
      <4>3. Later(conn[c], state) /\ state.at # "publishing"
        BY <4>2 DEF Later, Stage
      <4> QED BY <4>1, <4>3
    <3>5. CASE Admit(c) \/ Reap(c) \/ WaitFails(c) \/ RefreshNothing(c)
      BY <1>1, <3>5 DEF Admit, Reap, WaitFails, RefreshNothing, Quietly, Later, Stage, Conn
    <3>6. CASE Refresh(c) \/ Refreshed(c)
      BY <1>1, <3>6 DEF Refresh, Refreshed, Later, Stage, Conn
    <3>7. CASE Spawn(c)
      <4>1. PICK state : Moves(c, state) /\ state = [conn[c] EXCEPT !.at = "running", !.child = "working", !.held = TRUE,
                                                  !.listed = (conn[c].kind = "scan"), !.told = "running"]
        BY <3>7 DEF Spawn
      <4>2. conn[c].at = "spawning" /\ state.at = "running"
        BY <1>1, <3>7, <4>1 DEF Spawn, Closing, Conn
      <4>3. Later(conn[c], state) /\ state.at # "publishing"
        BY <4>2 DEF Later, Stage
      <4> QED BY <4>1, <4>3
    <3>8. CASE Report(c)
      <4>1. PICK state : Moves(c, state) /\ \E code : state = [Closing(c, code) EXCEPT !.told = End(c)]
        BY <3>8 DEF Report
      <4>2. conn[c].at = "reporting" /\ state.at = "closed"
        BY <1>1, <3>8, <4>1 DEF Report, Closing, Conn
      <4>3. Later(conn[c], state) /\ state.at # "publishing"
        BY <4>2 DEF Later, Stage
      <4> QED BY <4>1, <4>3
    <3>9. CASE Unlist(c)
      <4>1. PICK state : Moves(c, state) /\ state = [conn[c] EXCEPT !.at = "refreshing", !.listed = FALSE, !.told = "refreshing"]
        BY <3>9 DEF Unlist
      <4>2. conn[c].at = "reaped" /\ state.at = "refreshing"
        BY <1>1, <3>9, <4>1 DEF Unlist, Closing, Conn
      <4>3. Later(conn[c], state) /\ state.at # "publishing"
        BY <4>2 DEF Later, Stage
      <4> QED BY <4>1, <4>3
    <3> QED
      BY <1>3, <3>1, <3>2, <3>3, <3>4, <3>5, <3>6, <3>7, <3>8, <3>9 DEF Handle
  <2>2. conn'[c] = state /\ \A d \in Connection : d # c => conn'[d] = conn[d]
    BY <2>1, StageMoves
  <2> QED BY <2>1, <2>2 DEF NotRevived
<1> QED BY <1>2, <1>3

LEMMA ProcessMovesOn ==
  ASSUME CommandsInv, NEW c \in Connection,
         Kill(c) \/ KillZombie(c) \/ ChildEnds(c) \/ DescendantsEnd(c)
  PROVE  /\ NotRevived(conn[c], conn'[c])
         /\ Kill(c) => Lives(conn[c]) /\ ~Lives(conn'[c])
         /\ \A d \in Connection : d # c => NotRevived(conn[d], conn'[d])
<1>1. conn[c] \in Conn /\ Consistent(conn[c], forced)
  BY DEF CommandsInv
<1>2. PICK state : /\ Moves(c, state) /\ NotRevived(conn[c], state)
                   /\ Kill(c) => Lives(conn[c]) /\ ~Lives(state)
  <2>1. CASE Kill(c)
    <3>1. PICK state : Moves(c, state) /\ state = Killed(c)
      BY <2>1 DEF Kill, Quietly
    <3>2. Lives(conn[c]) /\ ~Lives(state) /\ state.at = conn[c].at
      BY <1>1, <2>1, <3>1 DEF Kill, Killed, Lives, Conn
    <3>3. NotRevived(conn[c], state)
      BY <3>2 DEF NotRevived
    <3> QED BY <3>1, <3>2, <3>3
  <2>2. CASE KillZombie(c)
    <3>1. PICK state : Moves(c, state) /\ state = [conn[c] EXCEPT !.cancelled = TRUE]
      BY <2>2 DEF KillZombie, Quietly
    <3>2. NotRevived(conn[c], state) /\ ~Kill(c)
      BY <1>1, <2>2, <3>1 DEF KillZombie, Kill, Lives, NotRevived, Conn
    <3> QED BY <3>1, <3>2
  <2>3. CASE ChildEnds(c) /\ ~Kill(c)
    <3>1. PICK state, outcome, held :
             Moves(c, state) /\ state = [conn[c] EXCEPT !.child = outcome, !.held = held]
      BY <2>3 DEF ChildEnds, Quietly
    <3>2. Lives(conn[c]) /\ state.at = conn[c].at
      BY <1>1, <2>3, <3>1 DEF ChildEnds, Lives, Conn
    <3>3. NotRevived(conn[c], state)
      BY <3>2 DEF NotRevived
    <3> QED BY <2>3, <3>1, <3>3
  <2>4. CASE DescendantsEnd(c) /\ ~Kill(c)
    <3>1. PICK state : Moves(c, state) /\ state = [conn[c] EXCEPT !.held = FALSE]
      BY <2>4 DEF DescendantsEnd, Quietly
    <3>2. Lives(conn[c]) /\ state.at = conn[c].at
      BY <1>1, <2>4, <3>1 DEF DescendantsEnd, Lives, Conn
    <3>3. NotRevived(conn[c], state)
      BY <3>2 DEF NotRevived
    <3> QED BY <2>4, <3>1, <3>3
  <2> QED BY <2>1, <2>2, <2>3, <2>4
<1>3. conn'[c] = state /\ \A d \in Connection : d # c => conn'[d] = conn[d]
  BY <1>2, StageMoves
<1> QED BY <1>2, <1>3 DEF NotRevived

LEMMA OthersDoNotRevive ==
  ASSUME CommandsInv, NEW c \in Connection,
         StopAccepting \/ Return \/ ForceStop \/ UNCHANGED commandVars
  PROVE  Later(conn[c], conn'[c]) \/ NotRevived(conn[c], conn'[c])
<1>1. CASE StopAccepting
  <2>1. conn'[c] = IF conn[c].at = "waiting" THEN Closing(c, "none") ELSE conn[c]
    BY <1>1 DEF StopAccepting
  <2>2. CASE conn[c].at = "waiting"
    <3>1. conn[c] \in Conn
      BY DEF CommandsInv
    <3>2. conn'[c].at = "closed"
      BY <2>1, <2>2, <3>1 DEF Closing, Conn
    <3> QED BY <2>2, <3>2 DEF Later, Stage
  <2>3. CASE conn[c].at # "waiting"
    BY <2>1, <2>3 DEF NotRevived
  <2> QED BY <2>2, <2>3
<1>2. CASE Return \/ ForceStop \/ UNCHANGED commandVars
  BY <1>2 DEF Return, ForceStop, commandVars, NotRevived
<1> QED BY <1>1, <1>2

\* No connection starts again, and none does without end: whatever the others
\* do, each step of its handler and each kill brings it nearer to its end.
EveryoneMovesOn == \A c \in Connection : MovesOn(c)
THEOREM HandlersMoveOn == Spec => [][EveryoneMovesOn]_vars
<1>1. ASSUME IInv, IInv', [Next]_vars, NEW c \in Connection
      PROVE  MovesOn(c)
  <2>1. CommandsInv /\ conn[c] \in Conn /\ conn'[c] \in Conn
    BY <1>1 DEF IInv, CommandsInv
  <2>2. Connect(c) \/ Accept(c) \/ Handle(c) => Left(conn'[c]) < Left(conn[c])
    BY <2>1, HandlerMovesOn, LeftIs
  <2>3. Kill(c) => Left(conn'[c]) < Left(conn[c])
    BY <2>1, ProcessMovesOn, LeftIs
  <2>4. Later(conn[c], conn'[c]) \/ NotRevived(conn[c], conn'[c])
    <3>1. ASSUME NEW d \in Connection, Connect(d) \/ Accept(d) \/ Handle(d)
          PROVE  Later(conn[c], conn'[c]) \/ NotRevived(conn[c], conn'[c])
      BY <2>1, <3>1, HandlerMovesOn
    <3>2. ASSUME NEW d \in Connection,
                 Kill(d) \/ KillZombie(d) \/ ChildEnds(d) \/ DescendantsEnd(d)
          PROVE  Later(conn[c], conn'[c]) \/ NotRevived(conn[c], conn'[c])
      BY <2>1, <3>2, ProcessMovesOn
    <3>3. ASSUME StopAccepting \/ Return \/ ForceStop \/ UNCHANGED commandVars
          PROVE  Later(conn[c], conn'[c]) \/ NotRevived(conn[c], conn'[c])
      BY <2>1, <3>3, OthersDoNotRevive
    <3> QED BY <1>1, <3>1, <3>2, <3>3 DEF Next, vars
  <2>5. Left(conn[c]) \in Nat /\ Left(conn'[c]) \in Nat
        /\ (Later(conn[c], conn'[c]) => Left(conn'[c]) < Left(conn[c]))
        /\ (NotRevived(conn[c], conn'[c]) => Left(conn'[c]) <= Left(conn[c]))
    BY <2>1, LeftIs
  <2>6. Left(conn'[c]) <= Left(conn[c])
    <3>1. PICK m \in Nat, n \in Nat : m = Left(conn'[c]) /\ n = Left(conn[c])
      BY <2>5
    <3> QED BY <2>4, <2>5, <3>1
  <2> QED BY <2>2, <2>3, <2>6 DEF MovesOn
<1>2. IInv /\ IInv' /\ [Next]_vars => EveryoneMovesOn
  BY <1>1 DEF EveryoneMovesOn
<1> QED
  BY <1>2, DelegationInvariant, PTL DEF Spec

\* The reload gate is held by a handler that publishes, and only by that one.
GateInv == \A c \in Connection : conn[c].at = "publishing" <=> gate = c

LEMMA StreamsLeaveGate ==
  ASSUME NEW s \in Stream, StreamStep(s)
  PROVE  gate' = gate
BY DEF StreamStep, Serve, Upgrade, Subscribe, Confirm, ReadCatalog, Receive, CheckEvent, Tick,
       Send, Disconnect, StopStream, Revoke, Becomes

LEMMA GateKept ==
  ASSUME IInv, GateInv, [Next]_vars
  PROVE  GateInv'
<1>0. CommandsInv /\ Nobody \notin Connection /\ Others \notin Connection
  BY DelegationAssumption DEF IInv
<1>1. ASSUME NEW c \in Connection, Connect(c) \/ Accept(c) \/ Handle(c)
      PROVE  GateInv'
  <2>1. conn[c] \in Conn
    BY <1>0 DEF CommandsInv
  <2>2. \A d \in Connection : d # c => conn'[d].at = conn[d].at
    BY <1>0, <1>1, HandlerMovesOn DEF NotRevived
  <2>3. CASE Refresh(c)
    <3>1. gate = Nobody /\ gate' = c /\ Moves(c, [conn[c] EXCEPT !.at = "publishing"])
      BY <2>3 DEF Refresh, PublishCatalog
    <3>2. conn'[c].at = "publishing"
      BY <1>0, <2>1, <3>1, StageMoves DEF Conn
    <3> QED BY <1>0, <2>2, <3>1, <3>2 DEF GateInv
  <2>4. CASE Refreshed(c)
    <3>1. gate = c /\ gate' = Nobody /\ Moves(c, [conn[c] EXCEPT !.at = "reporting"])
      BY <2>4 DEF Refreshed, AnnounceCatalog
    <3>2. conn'[c].at = "reporting"
      BY <1>0, <2>1, <3>1, StageMoves DEF Conn
    <3> QED BY <1>0, <2>2, <3>1, <3>2 DEF GateInv
  <2>5. CASE ~Refresh(c) /\ ~Refreshed(c)
    <3>1. gate' = gate
      BY <1>1, <2>5 DEF Connect, Accept, Handle, Request, Cancel, RequestFails, Refuse, Admit,
            SpawnFails, Spawn, Reap, WaitFails, Unlist, RefreshNothing, Report, Quietly,
            streamVars
    <3>2. conn[c].at # "publishing"
      BY <1>1, <2>5 DEF Connect, Accept, Handle, Request, Cancel, RequestFails, Refuse, Admit,
            SpawnFails, Spawn, Reap, WaitFails, Unlist, RefreshNothing, Report
    <3>3. conn'[c].at # "publishing"
      BY <1>0, <1>1, <2>5, HandlerMovesOn
    <3> QED BY <2>2, <3>1, <3>2, <3>3 DEF GateInv
  <2> QED BY <2>3, <2>4, <2>5
<1>2. ASSUME NEW c \in Connection,
             Kill(c) \/ KillZombie(c) \/ ChildEnds(c) \/ DescendantsEnd(c)
      PROVE  GateInv'
  <2>1. gate' = gate
    BY <1>2 DEF Kill, KillZombie, ChildEnds, DescendantsEnd, Quietly, streamVars
  <2>2. \A d \in Connection : conn'[d].at = conn[d].at
    BY <1>0, <1>2, ProcessMovesOn DEF NotRevived
  <2> QED BY <2>1, <2>2 DEF GateInv
<1>3. CASE StopAccepting
  <2>1. ASSUME NEW c \in Connection
        PROVE  conn'[c].at = "publishing" <=> conn[c].at = "publishing"
    <3>1. conn[c] \in Conn /\ conn'[c] = IF conn[c].at = "waiting" THEN Closing(c, "none") ELSE conn[c]
      BY <1>0, <1>3 DEF StopAccepting, CommandsInv
    <3> QED BY <3>1 DEF Closing, Conn
  <2> QED BY <1>3, <2>1 DEF GateInv, StopAccepting, streamVars
<1>4. CASE Return \/ ForceStop \/ UNCHANGED vars
  BY <1>4 DEF GateInv, Return, ForceStop, vars, streamVars, commandVars
<1>5. CASE /\ Shutdown \/ \E s \in Stream : StreamStep(s)
           /\ UNCHANGED commandVars
  BY <1>5, StreamsLeaveGate DEF GateInv, Shutdown, commandVars
<1>6. CASE /\ PublishCatalog(Others) \/ AnnounceCatalog(Others) \/ AbandonCatalog(Others)
           /\ UNCHANGED commandVars
  BY <1>0, <1>6 DEF GateInv, PublishCatalog, AnnounceCatalog, AbandonCatalog, commandVars
<1> QED
  BY <1>1, <1>2, <1>3, <1>4, <1>5, <1>6 DEF Next

\* A handler that need not wait for anybody: for a request there is a time limit
\* and the shutdown, for a command that is to be stopped the kill.
Free(c) ==
  \/ conn[c].at \in {"reading", "admitting", "spawning", "reaped", "publishing", "reporting"}
  \/ conn[c].at = "running" /\ (Alive(c) => Wanted(c))
  \/ conn[c].at = "refreshing" /\ gate = Nobody
Undisturbed(c) == conn[c].at = "running" /\ Alive(c) /\ ~Wanted(c)

\* accept_commands never waits in a circle: until it has ended, something left
\* of it can go on by itself, or the gate is held by somebody else's refresh, or
\* what is left of it is a command that nobody has asked to end.
StopGoesOn ==
  ended \/ accepting \/ Handled = {} \/ gate = Others
    \/ \E c \in Connection : Free(c) \/ Undisturbed(c)
THEOREM StopNeverStuck == Spec => []StopGoesOn
<1>1. Init => GateInv
  BY DelegationAssumption DEF Init, InitStreams, GateInv, NoConn
<1>2. ASSUME IInv, GateInv, NEW c \in Handled, gate # Others
      PROVE  \E d \in Connection : Free(d) \/ Undisturbed(d)
  <2>1. c \in Connection /\ conn[c].at \in Busy
    BY <1>2, HandledAreBusy DEF IInv, CommandsInv, Handled
  <2>2. CASE conn[c].at = "refreshing" /\ gate # Nobody
    <3>1. gate \in Connection
      BY <1>2, <2>2 DEF IInv
    <3>2. conn[gate].at = "publishing"
      BY <1>2, <3>1 DEF GateInv
    <3> QED BY <3>1, <3>2 DEF Free
  <2>3. CASE conn[c].at # "refreshing" \/ gate = Nobody
    BY <2>1, <2>3 DEF Busy, Finishing, Free, Undisturbed
  <2> QED BY <2>2, <2>3
<1>3. IInv /\ GateInv => StopGoesOn
  BY <1>2 DEF StopGoesOn
<1> QED
  BY <1>1, <1>3, GateKept, DelegationInvariant, PTL DEF Spec
===============================================================================
