------------------------------ MODULE V1xMeaning ------------------------------
(***************************************************************************)
(* What a cQASM 1 program means, to compare what was written with the tree *)
(* the analyzer returns for it.  The analyzer moves statements out of      *)
(* blocks, drops those that are never reached, and replaces names by what  *)
(* they stand for where they are used; none of this may change the runs of *)
(* a program.                                                              *)
(*                                                                         *)
(* Elaborated gives the tree of the written program with nothing left out  *)
(* and names bound by the block structure alone.  RunsOf gives the runs    *)
(* of a tree.                                                              *)
(***************************************************************************)
EXTENDS V1xRuns

RECURSIVE Elaborate(_, _), RunsOf(_), RunsOfStatement(_)

-----------------------------------------------------------------------------
DenotesBoolean(m, e) == IF e = NoExpression THEN Bool(TRUE) ELSE Denotes(m, e)

(* An instruction of a bundle, its condition kept even if it is constant.  *)
Kept(node, condition) ==
  IF IsFalse(condition) THEN [node |-> "skip", condition |-> condition]
  ELSE [node EXCEPT !.condition = condition]

Plainly(m, insn) ==
  [insn EXCEPT !.condition = NoExpression,
               !.operands  = [i \in DOMAIN @ |->
                 IF IsGoto(insn) THEN @[i]
                 ELSE [node |-> "literal", value |-> Denotes(m, @[i])]]]

Item(m, insn) == Kept(AnalyzeItem(m, Plainly(m, insn)), DenotesBoolean(m, insn.condition))

AssignmentOf(m, assignment) ==
  IF assignment = NoExpression THEN Absent ELSE Assignment(m, assignment[1], assignment[2])

(* The trees of the statements that hold blocks.                           *)
BranchesOf(m, branches) ==
  [i \in DOMAIN branches |->
     [condition |-> Denotes(m, branches[i].condition), body |-> Elaborate(m, branches[i].body)]]

ElseOf(m, otherwise) ==
  IF otherwise = Absent THEN Absent ELSE [body |-> Elaborate(m, otherwise.body)]

LoopOf(m, s, body) ==
  CASE s.node = "while" ->
         [node |-> "while", condition |-> Denotes(m, s.header.condition), body |-> body]
    [] s.node = "repeat_until" ->
         [node |-> "repeat_until", condition |-> Denotes(m, s.condition), body |-> body]
    [] s.node = "foreach" ->
         [node |-> "foreach", lhs |-> Denotes(m, s.header.lhs),
          frm |-> Denotes(m, s.header.frm).value, to |-> Denotes(m, s.header.to).value,
          body |-> body]
    [] s.node = "for" ->
         [node |-> "for", initialize |-> AssignmentOf(m, s.header.initialize),
          condition |-> Denotes(m, s.header.condition),
          update |-> AssignmentOf(m, s.header.update), body |-> body]

Loops == {"for", "foreach", "while", "repeat_until"}

(* The tree of a statement; none for those that leave nothing in a block.  *)
Elaboration(m, s) ==
  CASE s.node = "bundle" ->
         <<[node |-> "bundle", items |-> [i \in DOMAIN s.items |-> Item(m, s.items[i])]]>>
    [] s.node \in {"break", "continue"} -> <<s>>
    [] s.node = "if_else"  ->
         <<[node |-> "if_else", branches |-> BranchesOf(m, s.branches),
            otherwise |-> ElseOf(m, s.otherwise)]>>
    [] s.node \in Loops -> <<LoopOf(m, s, Elaborate(m, s.body))>>
    [] OTHER -> <<>>

(* A statement behind those of acc, in the scope they leave.               *)
Behind(acc, s) ==
  [names      |-> Bind(acc.names, s),
   statements |-> acc.statements \o Elaboration(acc.names, s)]

Elaborate(m, block) ==
  FoldLeft(Behind, [names |-> m, statements |-> <<>>], block).statements

-----------------------------------------------------------------------------
(* The program as its subcircuits; statements before the first header      *)
(* belong to a subcircuit without a name.                                  *)
Iterations(m, e) == IF e = NoExpression THEN 1 ELSE Denotes(m, e).value

WithStatement(subcircuits, m, s) ==
  IF s.node = "subcircuit" THEN Append(subcircuits, Subcircuit(s.name, Iterations(m, s.iterations)))
  ELSE [subcircuits EXCEPT ![Len(subcircuits)].body = @ \o Elaboration(m, s)]

ElaborateTop(acc, s) ==
  [names |-> Bind(acc.names, s), subcircuits |-> WithStatement(acc.subcircuits, acc.names, s)]

Elaborated ==
  FoldLeft(ElaborateTop, [names |-> InitialNames, subcircuits |-> <<Subcircuit("", 1)>>],
           written[1]).subcircuits

-----------------------------------------------------------------------------
(* The runs of a tree.                                                     *)
RunsOfStatement(s) ==
  CASE s.node = "bundle" ->
         FoldLeft(LAMBDA acc, item : Together(acc, RunsOfItem(item)), Done, s.items)
    [] s.node \in {"break", "continue"} -> {Run(<<>>, Exit(s.node))}
    [] s.node = "if_else" -> 
         ChainRuns(s.branches, [i \in DOMAIN s.branches |-> RunsOf(s.branches[i].body)],
                   IF s.otherwise = Absent THEN Done ELSE RunsOf(s.otherwise.body))
    [] s.node = "while"   -> WhileRuns(s.condition, RunsOf(s.body), Done, Unroll)
    [] s.node = "repeat_until" -> RepeatRuns(s.condition, RunsOf(s.body), Unroll)
    [] s.node = "for" ->
         Then(RunsOfAssignment(s.initialize),
              WhileRuns(s.condition, RunsOf(s.body), RunsOfAssignment(s.update), Unroll))
    [] s.node = "foreach" ->
         Then(Does([s EXCEPT !.body = <<>>]), Pass(RunsOf(s.body), Done))

RunsOf(block) ==
  FoldLeft(LAMBDA acc, s : Then(acc, RunsOfStatement(s)), Done, block)

-----------------------------------------------------------------------------
(* The subcircuits with their runs, without one that has neither name nor  *)
(* effect.                                                                 *)
Meaning(subcircuits) ==
  LET meanings == [i \in DOMAIN subcircuits |->
                     [name |-> subcircuits[i].name, iterations |-> subcircuits[i].iterations,
                      runs |-> RunsOf(subcircuits[i].body)]]
  IN  SelectSeq(meanings, LAMBDA s : s.name # "" \/ s.runs # Done)

(* A break or continue of a repeat-until loop that is always left after    *)
(* its first pass: the analyzer takes it out of its loop.                  *)
LosesLoop(subcircuits) ==
  LET statements == Statements(Reached({sub.body : sub \in Range(subcircuits)}, LAMBDA s : TRUE))
  IN  \E s \in statements :
        /\ s.node = "repeat_until" /\ IsTrue(s.condition)
        /\ \E t \in Statements(Reached({s.body}, LAMBDA u : u.node = "if_else")) :
             t.node \in {"break", "continue"}

Means(subcircuits) ==
  ~LosesLoop(subcircuits) => Meaning(root.subcircuits) = Meaning(subcircuits)

(* A program analyzed without an error has the runs of the tree returned,  *)
(* subcircuit by subcircuit: conditions, branches and loops optimized      *)
(* away, statements moved to the block around them, names replaced by      *)
(* values, arguments folded and promoted all included.  Left out is the    *)
(* case LosesLoop, on which JumpsInsideLoops fails.                        *)
MeaningPreserved == phase = "returned" /\ errors = 0 => Means(Elaborated)
=============================================================================
