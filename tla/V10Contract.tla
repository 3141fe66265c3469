----------------------------- MODULE V10Contract -----------------------------
(***************************************************************************)
(* What a libQasm object promises: a call returns, and either the object   *)
(* now stands for the circuit that was written, all of it, or the call     *)
(* throws and the object stands for what it stood for before.  Texts whose *)
(* circuit the old classes have no room for leave it open which circuit    *)
(* that is, and those that are not defined whether the call returns.       *)
(***************************************************************************)
EXTENDS Naturals

CONSTANTS
  Texts,       \* what calls are made with
  Expressible, \* the texts whose circuit the old classes have room for
  Defined,     \* the texts that meet no undefined behaviour of the code
  Valid,       \* those of them that parse, analyze and pass the checks
  Circuits,    \* text of Valid -> its circuit
  Initial,     \* the circuit of a new object
  NoText       \* no call is going on

VARIABLES circuit, text, thrown, handles

vars == <<circuit, text, thrown, handles>>

Call ==
  /\ text = NoText /\ text' \in Texts
  /\ handles' \in {handles, handles + 1}
  /\ UNCHANGED <<circuit, thrown>>

(* A file that is not there is refused without being opened.               *)
NotFound == text = NoText /\ thrown' = TRUE /\ UNCHANGED <<circuit, text, handles>>

Accept ==
  /\ thrown' = FALSE
  /\ text \in Expressible => text \in Valid /\ circuit' = Circuits[text]

Refuse ==
  /\ thrown' = TRUE
  /\ text \in Expressible => text \notin Valid
  /\ UNCHANGED circuit

End == text # NoText /\ text' = NoText

Return == End /\ (Accept \/ Refuse) /\ UNCHANGED handles

Next == Call \/ NotFound \/ Return

Init == circuit = Initial /\ text = NoText /\ thrown = FALSE /\ handles = 0

Safety == Init /\ [][Next]_vars

(* A call that is defined ends, one way or the other.                      *)
Spec == Safety /\ WF_text(text \in Defined /\ End)
=============================================================================
