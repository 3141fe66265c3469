------------------------------- MODULE Version -------------------------------
(***************************************************************************)
(* Version numbers as lists of components and their order                  *)
(* (cqasm-version.cpp, Version).                                           *)
(***************************************************************************)
EXTENDS Integers, Sequences

Version == Seq(Nat)

(* A component that is not there counts as 0.                              *)
Component(v, i) == IF i \in DOMAIN v THEN v[i] ELSE 0

(* The loop of compare runs over the components of either version.         *)
Positions(v, w) == DOMAIN v \cup DOMAIN w

(* The first component that differs decides.                               *)
NewerAt(v, w, i) ==
  /\ Component(v, i) > Component(w, i)
  /\ \A j \in 1 .. i - 1 : Component(v, j) = Component(w, j)

Newer(v, w) == \E i \in Positions(v, w) : NewerAt(v, w, i)

Compare(v, w) == IF Newer(v, w) THEN 1 ELSE IF Newer(w, v) THEN -1 ELSE 0

(* operator> of Version.                                                   *)
Exceeds(v, w) == Compare(v, w) = 1
=============================================================================
