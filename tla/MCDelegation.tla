---------------------------- MODULE MCDelegation ----------------------------
(* Two connections to the command socket, which may also cancel each       *)
(* other's command; or one of them, a notification stream and a catalog;   *)
(* or the stream alone and two catalogs.                                   *)
EXTENDS Delegation

\* Bound of this model.  A stream is told the same of a scan as of any other
\* command, and connections are interchangeable: one is first.
First == CHOOSE c \in Connection : TRUE
Used == {c \in Connection : conn[c].at # "away"}
Quiet == published = 0 /\ \A s \in Stream : stream[s].at = "idle" /\ allowed[s]
Bounded ==
  \/ Used = {}
  \/ Used = {First} /\ conn[First].kind # "command" /\ published <= 1
  \/ First \in Used /\ Quiet
=============================================================================
