------------------------------ MODULE Delegation ------------------------------
(***************************************************************************)
(* Commands that the command line delegates to a running server            *)
(* (aede-server/src/delegation.rs, owned_process.rs): connections to the   *)
(* private socket, the child process of each command, its cancellation     *)
(* from another connection, and the stop of the server.  Commands publish  *)
(* on the broadcast of EventStream and refresh the catalog at their end.   *)
(*                                                                         *)
(* A connection runs at most one command, so a connection is also the id   *)
(* of its task.  A scan stands for every command that can be cancelled     *)
(* (scan, fetch), a command for every other one.                           *)
(***************************************************************************)
EXTENDS EventStream

CONSTANTS
  Connection,      \* connections to the command socket
  MaxConnections,  \* MAX_CONNECTIONS
  MaxCommands,     \* MAX_COMMANDS
  MayForce         \* the server was started with a DesktopControl

ASSUME DelegationAssumption ==
  /\ IsFiniteSet(Connection)
  /\ MaxConnections \in Nat \ {0}
  /\ MaxCommands \in Nat \ {0}
  /\ Nobody \notin Connection /\ Others \notin Connection
  /\ MayForce \in BOOLEAN

VARIABLES
  conn,       \* per connection: its handler, its command and its answer
  accepting,  \* the accept loop and its listener
  ended,      \* accept_commands has returned, and the server can exit
  forced      \* TaskRegistry.forced

commandVars == <<conn, accepting, ended, forced>>
vars == <<streamVars, commandVars>>
-----------------------------------------------------------------------------
\* requested and listed are the flag and the entry in TaskRegistry.running;
\* held: some process still has the pipes of the command; told: what was
\* broadcast of the task, after started and running; code: the X frame.
NoConn == [at |-> "away", kind |-> "none", child |-> "none", held |-> FALSE,
           listed |-> FALSE, requested |-> FALSE, cancelled |-> FALSE,
           told |-> "nothing", code |-> "none"]

Conn ==
  [at : {"away", "waiting", "reading", "admitting", "spawning", "running", "reaped",
         "refreshing", "publishing", "reporting", "closed", "broken"},
   kind : {"none", "scan", "command"},
   child : {"none", "working", "succeeded", "failed", "killed"},
   held : BOOLEAN, listed : BOOLEAN, requested : BOOLEAN, cancelled : BOOLEAN,
   told : {"nothing", "running", "refreshing", "completed", "command_failed",
           "task_cancelled"},
   code : {"none", "ok", "failure", "cancelled", "refused", "not_found"}]

Init ==
  /\ InitStreams
  /\ conn = [c \in Connection |-> NoConn]
  /\ accepting = TRUE
  /\ ended = FALSE
  /\ forced = FALSE

Handled == {c \in Connection : conn[c].at \notin {"away", "waiting", "closed", "broken"}}
Slots == {c \in Handled : conn[c].at \notin {"reading", "admitting"}}

Moves(c, state) ==
  /\ conn' = [conn EXCEPT ![c] = state]
  /\ UNCHANGED <<accepting, ended, forced>>
Quietly(c, state) == Moves(c, state) /\ UNCHANGED streamVars
Closing(c, code) == [conn[c] EXCEPT !.at = "closed", !.code = code]
-----------------------------------------------------------------------------
(***************************************************************************)
(* The accept loop.                                                        *)
(***************************************************************************)
Connect(c) ==
  /\ conn[c].at = "away"
  /\ accepting
  /\ Quietly(c, [conn[c] EXCEPT !.at = "waiting"])

\* At the limit a connection is dropped before anything is allocated for it.
Accept(c) ==
  /\ conn[c].at = "waiting"
  /\ accepting
  /\ Quietly(c, IF Cardinality(Handled) >= MaxConnections THEN Closing(c, "none")
                ELSE [conn[c] EXCEPT !.at = "reading"])

\* The shutdown ends the loop; the listener goes, with what it had not accepted.
StopAccepting ==
  /\ shutdown /\ accepting
  /\ accepting' = FALSE
  /\ conn' = [c \in Connection |->
                IF conn[c].at = "waiting" THEN Closing(c, "none") ELSE conn[c]]
  /\ UNCHANGED <<ended, forced, streamVars>>

\* Mutated form: the handlers are not awaited once the loop has ended.
Return_AtOnce ==
  /\ ~accepting /\ ~ended
  /\ ended' = TRUE
  /\ UNCHANGED <<conn, accepting, forced, streamVars>>

\* Every accepted handler is awaited.
Return ==
  /\ ~accepting /\ ~ended
  /\ Handled = {}
  /\ ended' = TRUE
  /\ UNCHANGED <<conn, accepting, forced, streamVars>>

\* The monitor of a desktop owner.
ForceStop ==
  /\ MayForce /\ ~forced
  /\ forced' = TRUE
  /\ UNCHANGED <<conn, accepting, ended, streamVars>>
-----------------------------------------------------------------------------
(***************************************************************************)
(* A handler: its request, its command, its answer.                        *)
(***************************************************************************)

\* The request is incomplete in time, cut off by the shutdown, or unreadable.
RequestFails(c) ==
  /\ conn[c].at = "reading"
  /\ Quietly(c, Closing(c, "none"))

Request(c) ==
  /\ conn[c].at = "reading"
  /\ \E kind \in {"scan", "command"} :
       Quietly(c, [conn[c] EXCEPT !.at = "admitting", !.kind = kind])

\* TaskRegistry.request_cancel: only an entry of the registry can be flagged.
Cancel(c) ==
  /\ conn[c].at = "reading"
  /\ \E target \in Connection :
       conn' = [d \in Connection |->
         IF d = c THEN Closing(c, IF conn[target].listed THEN "ok" ELSE "not_found")
         ELSE [conn[d] EXCEPT !.requested = @ \/ (d = target /\ conn[d].listed)]]
  /\ UNCHANGED <<accepting, ended, forced, streamVars>>

\* A command that is not allowed, no free slot, or the shutdown.
Refuse(c) ==
  /\ conn[c].at = "admitting"
  /\ Quietly(c, Closing(c, "refused"))

\* Mutated form: a command starts without a free slot.
Admit_NoSlot(c) ==
  /\ conn[c].at = "admitting"
  /\ ~shutdown
  /\ Quietly(c, [conn[c] EXCEPT !.at = "spawning"])

Admit(c) ==
  /\ conn[c].at = "admitting"
  /\ Cardinality(Slots) < MaxCommands
  /\ ~shutdown
  /\ Quietly(c, [conn[c] EXCEPT !.at = "spawning"])

SpawnFails(c) ==
  /\ conn[c].at = "spawning"
  /\ Quietly(c, Closing(c, "refused"))

\* The child runs in a group of its own, and its task is registered before
\* anybody is told its id.
Spawn(c) ==
  /\ conn[c].at = "spawning"
  /\ Moves(c, [conn[c] EXCEPT !.at = "running", !.child = "working", !.held = TRUE,
                              !.listed = (conn[c].kind = "scan"), !.told = "running"])
  /\ Broadcast("task")
  /\ UNCHANGED <<shutdown, published, announced, gate, allowed>>

\* The child ends by itself, and may leave descendants with its pipes.
ChildEnds(c) ==
  /\ conn[c].child = "working"
  /\ \E outcome \in {"succeeded", "failed"}, held \in BOOLEAN :
       Quietly(c, [conn[c] EXCEPT !.child = outcome, !.held = held])

DescendantsEnd(c) ==
  /\ conn[c].child \in {"succeeded", "failed"} /\ conn[c].held
  /\ Quietly(c, [conn[c] EXCEPT !.held = FALSE])

\* wait_for_command_until looks every 50 ms: a group that is to be stopped is
\* killed.  A leader that has ended but was not waited for keeps its group.
Wanted(c) == conn[c].at = "running" /\ (forced \/ conn[c].requested)
Killed(c) ==
  [conn[c] EXCEPT !.child = IF @ = "working" THEN "killed" ELSE @, !.held = FALSE,
                  !.cancelled = TRUE]

Kill(c) ==
  /\ Wanted(c)
  /\ conn[c].child = "working" \/ conn[c].held
  /\ Quietly(c, Killed(c))

\* Mutated form: what counts is the last attempt, that of an empty group.
KillZombie_LastAttempt(c) ==
  /\ Wanted(c)
  /\ conn[c].child # "working" /\ ~conn[c].held
  /\ \E cancelled \in BOOLEAN : Quietly(c, [conn[c] EXCEPT !.cancelled = cancelled])

\* Whether a group of which only the leader is left, ended and not yet waited
\* for, can be signalled depends on the platform.
KillZombie(c) ==
  /\ Wanted(c)
  /\ conn[c].child # "working" /\ ~conn[c].held
  /\ Quietly(c, [conn[c] EXCEPT !.cancelled = TRUE])

\* The pipes are closed and the leader has ended.
Reap(c) ==
  /\ conn[c].at = "running"
  /\ conn[c].child # "working" /\ ~conn[c].held
  /\ Quietly(c, [conn[c] EXCEPT !.at = "reaped"])

\* An error of the wait ends the handler: the entry stays, and no end is told.
WaitFails(c) ==
  /\ conn[c].at = "running"
  /\ ~conn[c].held /\ conn[c].child # "working"
  /\ Quietly(c, [conn[c] EXCEPT !.at = "broken"])

Unlist(c) ==
  /\ conn[c].at = "reaped"
  /\ Moves(c, [conn[c] EXCEPT !.at = "refreshing", !.listed = FALSE,
                              !.told = "refreshing"])
  /\ Broadcast("task")
  /\ UNCHANGED <<shutdown, published, announced, gate, allowed>>

\* refresh_catalog: what the command has saved is published, if nobody else
\* has published it, holds the store lock, or has written it unreadably.
RefreshNothing(c) ==
  /\ conn[c].at = "refreshing"
  /\ gate = Nobody
  /\ Quietly(c, [conn[c] EXCEPT !.at = "reporting"])

Refresh(c) ==
  /\ conn[c].at = "refreshing"
  /\ PublishCatalog(c)
  /\ Moves(c, [conn[c] EXCEPT !.at = "publishing"])

Refreshed(c) ==
  /\ conn[c].at = "publishing"
  /\ AnnounceCatalog(c)
  /\ Moves(c, [conn[c] EXCEPT !.at = "reporting"])

\* The last event of the task.
End(c) ==
  IF conn[c].cancelled THEN "task_cancelled"
  ELSE IF conn[c].child = "succeeded" THEN "completed" ELSE "command_failed"
CodeOf(end) ==
  CASE end = "task_cancelled" -> "cancelled"
    [] end = "completed" -> "ok"
    [] end = "command_failed" -> "failure"

\* The end is told, and the client gets its code if it is still there.
Report(c) ==
  /\ conn[c].at = "reporting"
  /\ \E reached \in BOOLEAN :
       Moves(c, [Closing(c, IF reached THEN CodeOf(End(c)) ELSE "none")
                   EXCEPT !.told = End(c)])
  /\ Broadcast("task")
  /\ UNCHANGED <<shutdown, published, announced, gate, allowed>>

Handle(c) ==
  \/ Request(c) \/ Cancel(c) \/ RequestFails(c) \/ Refuse(c) \/ Admit(c)
  \/ SpawnFails(c) \/ Spawn(c) \/ Reap(c) \/ WaitFails(c) \/ Unlist(c)
  \/ RefreshNothing(c) \/ Refresh(c) \/ Refreshed(c) \/ Report(c)

Next ==
  \/ \E c \in Connection :
       Connect(c) \/ Accept(c) \/ Handle(c) \/ Kill(c) \/ KillZombie(c)
       \/ ChildEnds(c) \/ DescendantsEnd(c)
  \/ StopAccepting \/ Return \/ ForceStop
  \/ /\ \/ Shutdown
        \/ PublishCatalog(Others) \/ AnnounceCatalog(Others) \/ AbandonCatalog(Others)
        \/ \E s \in Stream : StreamStep(s)
     /\ UNCHANGED commandVars
Spec == Init /\ [][Next]_vars

\* The accept loop, the handlers and the streams are scheduled; a kill of a
\* living group succeeds in the end; a publisher goes on or is dropped.
\* Nothing makes a command end by itself,
\* a client send its request, or the owner stop or force the server.
FairSpec ==
  /\ Spec
  /\ WF_vars(StopAccepting) /\ WF_vars(Return)
  /\ WF_vars((AnnounceCatalog(Others) \/ AbandonCatalog(Others)) /\ UNCHANGED commandVars)
  /\ \A c \in Connection : WF_vars(Handle(c)) /\ WF_vars(Kill(c))
  /\ \A s \in Stream :
       /\ WF_vars(Serve(s) /\ UNCHANGED commandVars)
       /\ WF_vars(StopStream(s) /\ UNCHANGED commandVars)
-----------------------------------------------------------------------------
TypeOK ==
  /\ StreamsTypeOK
  /\ gate \in {Nobody, Others} \cup Connection
  /\ conn \in [Connection -> Conn]
  /\ accepting \in BOOLEAN /\ ended \in BOOLEAN /\ forced \in BOOLEAN
  /\ Cardinality(Slots) <= MaxCommands
  /\ Cardinality(Handled) <= MaxConnections

(* What is told of a command, to every stream and to its own client, is    *)
(* what happened to it: a completed command ended well and no kill of it   *)
(* succeeded; a command that was killed is never reported as one that      *)
(* failed; a cancelled one was asked to stop; the exit code that the       *)
(* client gets agrees with the event; and a cancellation can be accepted   *)
(* only until the end begins to be told, unless the wait has failed.       *)
Ends == {"completed", "command_failed", "task_cancelled"}
ReportsAreTrue ==
  \A c \in Connection :
    /\ conn[c].told = "completed" => conn[c].child = "succeeded" /\ ~conn[c].cancelled
    /\ conn[c].told = "command_failed" => conn[c].child = "failed"
    /\ conn[c].told = "task_cancelled" => conn[c].requested \/ forced
    /\ conn[c].listed => conn[c].told = "running"
    /\ conn[c].child # "none" /\ conn[c].code # "none" =>
         conn[c].told \in Ends /\ conn[c].code = CodeOf(conn[c].told)

(* When accept_commands has returned, and the process can exit, no command *)
(* and no descendant of one is left, and none will be started: the end of  *)
(* each was told, unless the wait for it had failed.                       *)
StopLeavesNothing ==
  ended => \A c \in Connection :
    /\ conn[c].at \in {"away", "closed", "broken"}
    /\ conn[c].child # "working" /\ ~conn[c].held
    /\ conn[c].child # "none" /\ conn[c].at # "broken" => conn[c].told \in Ends

(* Once the server is told to stop, every stream ends; a forced stop also  *)
(* ends every command and closes the command socket down, and so does an   *)
(* unforced one if no command runs for ever.                               *)
Alive(c) == conn[c].child = "working" \/ conn[c].held
StopEnds ==
  /\ \A s \in Stream : shutdown ~> stream[s].at \in {"idle", "closed"}
  /\ shutdown /\ forced ~> ended
  /\ (\A c \in Connection : []<>~Alive(c)) => (shutdown ~> ended)
=============================================================================
