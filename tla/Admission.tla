------------------------------ MODULE Admission ------------------------------
(***************************************************************************)
(* What the administrative registry of aede-server promises about          *)
(* admission, without saying how: a bounded number of pieces of work hold  *)
(* an admission at once, whole-library generation holds it alone, and at   *)
(* most one acoustic extraction holds it.  Module Jobs implements this.    *)
(***************************************************************************)
EXTENDS Naturals, FiniteSets

CONSTANTS
  Owner,        \* whatever can be admitted
  WorkKind,     \* the kinds of work
  Exclusive,    \* the kinds that tolerate no other admitted work
  Singleton,    \* the kinds of which at most one may be admitted
  Capacity      \* admissions held at once

VARIABLE held   \* held[o] is the kind o was admitted for, for the admitted o

Held == DOMAIN held

Allowed(kind) ==
  /\ Cardinality(Held) < Capacity
  /\ \A o \in Held : held[o] \notin Exclusive
  /\ kind \in Exclusive => Held = {}
  /\ kind \in Singleton => \A o \in Held : held[o] # kind

Init == held = [o \in {} |-> {}]

Enter(o, kind) ==
  /\ o \notin Held
  /\ Allowed(kind)
  /\ held' = [p \in Held \cup {o} |-> IF p = o THEN kind ELSE held[p]]

Leave(o) ==
  /\ o \in Held
  /\ held' = [p \in Held \ {o} |-> held[p]]

Next == \E o \in Owner : Leave(o) \/ \E kind \in WorkKind : Enter(o, kind)

Spec == Init /\ [][Next]_held
-----------------------------------------------------------------------------
\* What the exclusion of jobs.rs is for: seen at any time, and not only when
\* somebody enters, exclusive work is alone, singletons are unique and the
\* capacity is kept.
Compatible ==
  /\ IsFiniteSet(Held) /\ Cardinality(Held) <= Capacity
  /\ \A o, p \in Held : o # p =>
       /\ held[o] \notin Exclusive
       /\ held[o] \in Singleton => held[o] # held[p]
=============================================================================
