----------------------------- MODULE EventStream -----------------------------
(***************************************************************************)
(* The notification streams of aede-server (events.rs): a bounded          *)
(* broadcast of catalog and task events, the WebSockets that follow it,    *)
(* the check of each identity before anything is sent, and the shutdown    *)
(* that closes them.  Catalogs are published by whoever holds the reload   *)
(* gate (runtime.rs, admin.rs); CatalogReload models what they publish.    *)
(*                                                                         *)
(* A receiver of the broadcast that falls behind loses the oldest events;  *)
(* each stream therefore has a sequence of its own.                        *)
(***************************************************************************)
EXTENDS Naturals, Sequences, FiniteSets

CONSTANTS
  Stream,          \* notification connections
  Activity,        \* those that asked for task events too
  WebSocketSlots,  \* connections at once
  Capacity,        \* events that the broadcast channel keeps
  Nobody,          \* no holder of the reload gate
  Others,          \* the watcher and the scans, as holders of the reload gate
  MaxCatalog       \* bound: catalogs published

ASSUME EventStreamAssumption ==
  /\ Activity \subseteq Stream
  /\ IsFiniteSet(Stream)
  /\ WebSocketSlots \in Nat
  /\ Capacity \in Nat \ {0}
  /\ Nobody # Others
  /\ MaxCatalog \in Nat

VARIABLES
  shutdown,   \* the server was told to stop
  published,  \* ApiState.catalog, as a version
  announced,  \* history: the version of the last catalog that was announced
  gate,       \* who publishes a catalog that is not yet announced
  allowed,    \* per stream, whether its identity is still good
  stream      \* per stream, its task and its receiver

streamVars == <<shutdown, published, announced, gate, allowed, stream>>

Catalog == 0..MaxCatalog

\* late: it was broadcast, or read, after the identity was revoked.
Event == [about : {"snapshot", "catalog", "task"}, version : Catalog, late : BOOLEAN]
Nothing == [about |-> "task", version |-> 0, late |-> FALSE]

\* Where the task of a connection is.  In the phases of Waiting the shutdown
\* and the client are looked at; a send is only bounded in time.
Waiting == {"confirming", "reading", "rechecking", "listening", "checking"}
StreamState ==
  [at : Waiting \cup {"idle", "upgrading", "sending", "closed"}, unread : Seq(Event),
   missed : BOOLEAN, next : Event, seen : Catalog]
NoStream == [at |-> "idle", unread |-> <<>>, missed |-> FALSE,
             next |-> Nothing, seen |-> 0]
Closed == [NoStream EXCEPT !.at = "closed"]

InitStreams ==
  /\ shutdown = FALSE
  /\ published = 0
  /\ announced = 0
  /\ gate = Nobody
  /\ allowed = [s \in Stream |-> TRUE]
  /\ stream = [s \in Stream |-> NoStream]
-----------------------------------------------------------------------------
\* One event reaches every receiver; a full one forgets its oldest.
Received(s, about) ==
  LET held == stream[s].unread
      new == [about |-> about, version |-> IF about = "catalog" THEN published ELSE 0,
              late |-> ~allowed[s]]
      all == Append(held, new)
      full == Len(held) = Capacity
  IN [stream[s] EXCEPT !.unread = IF full THEN Tail(all) ELSE all,
                       !.missed = @ \/ full]

\* Mutated form: a stream subscribes once it has sent its snapshot.
Broadcast_AfterSnapshot(about) ==
  stream' = [s \in Stream |->
    IF stream[s].at \in {"listening", "checking", "sending"} THEN Received(s, about)
    ELSE stream[s]]

Broadcast(about) ==
  stream' = [s \in Stream |->
    IF stream[s].at \in Waiting \cup {"sending"} THEN Received(s, about) ELSE stream[s]]

\* Under the reload gate: the catalog is replaced, then announced, unless the
\* publisher is dropped between the two.
PublishCatalog(h) ==
  /\ gate = Nobody
  /\ published < MaxCatalog
  /\ gate' = h
  /\ published' = published + 1
  /\ UNCHANGED <<shutdown, announced, allowed, stream>>

AnnounceCatalog(h) ==
  /\ gate = h
  /\ gate' = Nobody
  /\ announced' = published
  /\ Broadcast("catalog")
  /\ UNCHANGED <<shutdown, published, allowed>>

\* The client of a scan leaves, or the watcher is aborted, while it waits to
\* record the stamp of what it has published: nobody is told.  The stamp is
\* not recorded either, so the watcher loads and announces the catalog again.
AbandonCatalog(h) ==
  /\ gate = h
  /\ gate' = Nobody
  /\ UNCHANGED <<shutdown, published, announced, allowed, stream>>

\* The session of a stream ends, or its policy changes.
Revoke(s) ==
  /\ allowed[s]
  /\ allowed' = [allowed EXCEPT ![s] = FALSE]
  /\ UNCHANGED <<shutdown, published, announced, gate, stream>>

Shutdown ==
  /\ ~shutdown
  /\ shutdown' = TRUE
  /\ UNCHANGED <<published, announced, gate, allowed, stream>>
-----------------------------------------------------------------------------
Becomes(s, state) ==
  /\ stream' = [stream EXCEPT ![s] = state]
  /\ UNCHANGED <<shutdown, published, announced, gate, allowed>>

Open == {s \in Stream : stream[s].at \notin {"idle", "closed"}}

\* The upgrade takes a slot; the stream subscribes before it reads anything.
Upgrade(s) ==
  /\ stream[s].at = "idle"
  /\ Cardinality(Open) < WebSocketSlots
  /\ Becomes(s, [NoStream EXCEPT !.at = "upgrading"])

Subscribe(s) ==
  /\ stream[s].at = "upgrading"
  /\ Becomes(s, [stream[s] EXCEPT !.at = "confirming"])

\* notification_live: a check reads the accounts, and its answer is used later.
Confirm(s) ==
  /\ stream[s].at = "confirming"
  /\ Becomes(s, IF allowed[s] THEN [stream[s] EXCEPT !.at = "reading"] ELSE Closed)

ReadCatalog(s) ==
  /\ stream[s].at = "reading"
  /\ Becomes(s, [stream[s] EXCEPT !.at = "rechecking",
       !.next = [about |-> "snapshot", version |-> published, late |-> ~allowed[s]]])

Receive(s) ==
  /\ stream[s].at = "listening"
  /\ stream[s].unread # <<>>
  /\ Becomes(s, [stream[s] EXCEPT !.at = "checking", !.unread = Tail(@),
                                  !.next = Head(stream[s].unread)])

\* Mutated form: an event is sent as soon as it is received.
CheckEvent_Unchecked(s) ==
  /\ stream[s].at \in {"rechecking", "checking"}
  /\ Becomes(s, IF s \notin Activity /\ stream[s].next.about = "task"
                THEN [stream[s] EXCEPT !.at = "listening", !.next = Nothing]
                ELSE [stream[s] EXCEPT !.at = "sending"])

\* What is sent was checked after it was received; a plain stream has no
\* task events.
CheckEvent(s) ==
  /\ stream[s].at \in {"rechecking", "checking"}
  /\ Becomes(s, IF ~allowed[s] THEN Closed
                ELSE IF s \notin Activity /\ stream[s].next.about = "task"
                THEN [stream[s] EXCEPT !.at = "listening", !.next = Nothing]
                ELSE [stream[s] EXCEPT !.at = "sending"])

\* Every second the identity is checked while the stream waits.
Tick(s) ==
  /\ stream[s].at \in {"reading", "listening"}
  /\ ~allowed[s]
  /\ Becomes(s, Closed)

Send(s) ==
  /\ stream[s].at = "sending"
  /\ Becomes(s, [stream[s] EXCEPT !.at = "listening", !.next = Nothing,
       !.seen = IF stream[s].next.about = "task" THEN @ ELSE stream[s].next.version])

\* A check that times out, a client that leaves or speaks, a send that fails.
Disconnect(s) ==
  /\ s \in Open
  /\ Becomes(s, Closed)

\* Mutated form: a stream that waits for events does not look at the shutdown.
StopStream_Listening(s) ==
  /\ shutdown
  /\ stream[s].at \in Waiting \ {"listening"}
  /\ Becomes(s, Closed)

\* The shutdown comes first in every wait.
StopStream(s) ==
  /\ shutdown
  /\ stream[s].at \in Waiting
  /\ Becomes(s, Closed)

Serve(s) ==
  \/ Subscribe(s) \/ Confirm(s) \/ ReadCatalog(s) \/ Receive(s) \/ CheckEvent(s)
  \/ Tick(s) \/ Send(s)

StreamStep(s) ==
  \/ Upgrade(s) \/ Serve(s) \/ Disconnect(s) \/ StopStream(s) \/ Revoke(s)
-----------------------------------------------------------------------------
StreamsTypeOK ==
  /\ shutdown \in BOOLEAN
  /\ published \in Catalog
  /\ announced \in 0..published
  /\ allowed \in [Stream -> BOOLEAN]
  /\ stream \in [Stream -> StreamState]
  /\ \A s \in Stream : Len(stream[s].unread) <= Capacity
  /\ Cardinality(Open) <= WebSocketSlots

(* A stream that has sent all it received and never fell behind has told   *)
(* its client last of the catalog that was announced last, or of a newer   *)
(* one: no change is lost between the subscription and the snapshot, and   *)
(* no older one is told after it.  Where no publication is under way or    *)
(* was abandoned, announced = published, and the client knows the catalog. *)
StreamUpToDate ==
  \A s \in Stream :
    stream[s].at = "listening" /\ stream[s].unread = <<>> /\ ~stream[s].missed
      => stream[s].seen \in announced..published

(* Nothing that happened after an identity was revoked is sent to it, even *)
(* if the check that let the stream begin is older.                        *)
NothingAfterRevocation ==
  \A s \in Stream : stream[s].at = "sending" => ~stream[s].next.late
=============================================================================
