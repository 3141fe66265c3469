------------------------------- MODULE V1xRuns -------------------------------
(***************************************************************************)
(* The runs of a cQASM 1 program, put together from those of its parts:    *)
(* the sequences of operations it can go through, and where they end.  A   *)
(* condition decided at run time is an event of the run, so that it is     *)
(* asked for in the same places.  Loops are followed for Unroll passes.    *)
(***************************************************************************)
EXTENDS V1xNames

Unroll == 2

-----------------------------------------------------------------------------
(* Runs: the operations in order, and where they end.                      *)
Exit(kind)     == [kind |-> kind, target |-> ""]
Run(ops, exit) == [ops |-> ops, exit |-> exit]
Done == {Run(<<>>, Exit("end"))}
Cut  == {Run(<<>>, Exit("cut"))}
Does(op) == {Run(<<op>>, Exit("end"))}

(* The runs of first, those that reach its end being continued by second.  *)
Then(first, second) ==
  {r \in first : r.exit.kind # "end"} \cup
  {Run(r.ops \o s.ops, s.exit) : r \in {t \in first : t.exit.kind = "end"}, s \in second}

Guarded(condition, yes, no) ==
  IF IsTrue(condition) THEN yes
  ELSE IF IsFalse(condition) THEN no
  ELSE Then(Does([node |-> "holds", condition |-> condition]), yes) \cup
       Then(Does([node |-> "fails", condition |-> condition]), no)

(* One pass of a loop, then what comes after the pass.                     *)
Pass(body, after) ==
  {Run(r.ops, Exit("end")) : r \in {t \in body : t.exit.kind = "break"}} \cup
  {r \in body : r.exit.kind \in {"goto", "cut"}} \cup
  {Run(r.ops \o s.ops, s.exit) :
     r \in {t \in body : t.exit.kind \in {"end", "continue"}}, s \in after}

(* A loop followed for some passes.                                        *)
WhileRuns(condition, body, update, passes) ==
  LET runs[n \in 0 .. passes] ==
        IF n = 0 THEN Cut
        ELSE Guarded(condition, Pass(body, Then(update, runs[n - 1])), Done)
  IN  runs[passes]

RepeatRuns(condition, body, passes) ==
  LET runs[n \in 0 .. passes] ==
        IF n = 0 THEN Cut ELSE Pass(body, Guarded(condition, Done, runs[n - 1]))
  IN  runs[passes]

RunsOfAssignment(s) == IF s = Absent THEN Done ELSE Does(s)

(* The items of a bundle act together; a goto among them takes effect when *)
(* all have acted.                                                         *)
RunsOfItem(item) ==
  CASE item.node = "skip" -> Done
    [] item.node = "goto" ->
         Guarded(item.condition,
                 {Run(<<>>, [kind |-> "goto", target |-> item.target])}, Done)
    [] OTHER -> Guarded(item.condition, Does([item EXCEPT !.condition = Bool(TRUE)]), Done)

Together(first, second) ==
  {Run(r.ops \o s.ops, IF s.exit.kind = "goto" THEN s.exit ELSE r.exit) :
     r \in first, s \in second}

(* An if-else chain, from the runs of its branches and of its else: those  *)
(* of the last n branches, for each n.                                     *)
ChainRuns(branches, bodies, rest) ==
  LET runs[n \in 0 .. Len(branches)] ==
        LET i == Len(branches) - n + 1
        IN  IF n = 0 THEN rest ELSE Guarded(branches[i].condition, bodies[i], runs[n - 1])
  IN  runs[Len(branches)]
=============================================================================
