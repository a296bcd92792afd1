--------------------------- MODULE AdmissionProofs ---------------------------
(***************************************************************************)
(* Proofs about module Admission, for every set of owners and every        *)
(* capacity that is a number.                                              *)
(***************************************************************************)
EXTENDS Admission, FiniteSetTheorems, TLAPS

\* Checking compatibility only when work enters keeps it at all times.
THEOREM AlwaysCompatible ==
  ASSUME Capacity \in Nat
  PROVE  Spec => []Compatible
<1>1. Init => Compatible
  <2> SUFFICES ASSUME Init PROVE Compatible
    OBVIOUS
  <2>1. Held = {}
    BY DEF Init, Held
  <2> QED BY <2>1, FS_EmptySet DEF Compatible
<1>2. Compatible /\ [Next]_held => Compatible'
  <2> SUFFICES ASSUME Compatible, [Next]_held PROVE Compatible'
    OBVIOUS
  <2>0. IsFiniteSet(Held) /\ Cardinality(Held) \in Nat /\ Capacity \in Nat
    BY FS_CardinalityType DEF Compatible
  <2>1. ASSUME NEW o \in Owner, Leave(o) PROVE Compatible'
    <3>1. /\ Held' = Held \ {o} /\ o \in Held
          /\ \A p \in Held' : held'[p] = held[p]
      BY <2>1 DEF Leave, Held
    <3>2. IsFiniteSet(Held') /\ Cardinality(Held') = Cardinality(Held) - 1
      BY <2>0, <3>1, FS_RemoveElement
    <3> QED BY <2>0, <3>1, <3>2 DEF Compatible
  <2>2. ASSUME NEW o \in Owner, NEW kind \in WorkKind, Enter(o, kind) PROVE Compatible'
    <3>1. /\ Held' = Held \cup {o} /\ o \notin Held
          /\ \A p \in Held' : held'[p] = IF p = o THEN kind ELSE held[p]
      BY <2>2 DEF Enter, Held
    <3>2. IsFiniteSet(Held') /\ Cardinality(Held') = Cardinality(Held) + 1
      BY <2>0, <3>1, FS_AddElement
    <3>3. Cardinality(Held') <= Capacity
      BY <2>0, <2>2, <3>2 DEF Enter, Allowed
    <3>4. \A p, q \in Held' : p # q =>
            /\ held'[p] \notin Exclusive
            /\ held'[p] \in Singleton => held'[p] # held'[q]
      BY <2>2, <3>1 DEF Compatible, Enter, Allowed
    <3> QED BY <3>2, <3>3, <3>4 DEF Compatible
  <2>3. CASE UNCHANGED held
    BY <2>3 DEF Compatible, Held
  <2> QED BY <2>1, <2>2, <2>3 DEF Next
<1> QED
  BY <1>1, <1>2, PTL DEF Spec
=============================================================================
