------------------------------ MODULE CallOrder ------------------------------
(***************************************************************************)
(* What the functions of a cQASM 3 program may call, seen from outside the *)
(* analyzer: functions are defined one at a time, for good, and each calls *)
(* only functions defined before it.  A program of that shape cannot       *)
(* recurse, whatever its functions do.                                     *)
(***************************************************************************)
EXTENDS Naturals, Sequences

VARIABLE calls  (* calls[k]: the functions that the k-th function calls *)

Init == calls = <<>>

Define(callees) == calls' = Append(calls, callees)

Next == \E callees \in SUBSET (1 .. Len(calls)) : Define(callees)

Spec == Init /\ [][Next]_calls
=============================================================================
