--------------------------------- MODULE Checks ---------------------------------
(***************************************************************************)
(* The two visitors that verify a function, as far as they judge its       *)
(* control flow: the first marks blocks with a return and reports what     *)
(* follows it as dead, the second marks the blocks that always return and  *)
(* reports functions whose end is reached.  Marks are kept in the blocks   *)
(* while they are visited; a node is a record as in module Codegen.        *)
(***************************************************************************)
EXTENDS Naturals, SequencesExt, FiniteSets

Loops      == {"for", "foreach", "while", "do"}
Conditional(s) == s.n \in Loops \cup {"if", "switch"}

\* HasVisitedReturn: a mark goes from a block to the one it is directly in.
RECURSIVE Marks(_)
Marks(s) == \/ s.n = "return"
            \/ s.n = "block" /\ \E i \in DOMAIN s.in[1] : Marks(s.in[1][i])

\* DEAD_CODE: the statements that are reported; a block is not a statement.
RECURSIVE DeadIn(_)
DeadBelow(s) == UNION {DeadIn(s.in[i]) : i \in DOMAIN s.in}
DeadIn(block) ==
  UNION {DeadBelow(block[i]) : i \in DOMAIN block}
  \cup {block[i] : i \in {j \in DOMAIN block :
          block[j].n # "block" /\ (\E k \in 1..(j - 1) : Marks(block[k]))}}

\* MISSING_BREAK_TARGET, MISSING_CONTINUE_TARGET
RECURSIVE Strays(_, _)
Strays(block, in_loop) ==
  UNION {IF block[i].n \in {"break", "continue"} /\ ~in_loop THEN {block[i]}
         ELSE UNION {Strays(block[i].in[k], in_loop \/ block[i].n \in Loops) :
                       k \in DOMAIN block[i].in} : i \in DOMAIN block}

\* AlwaysReturns: branches that are not there are not asked for.
RECURSIVE AlwaysReturns(_)
SomeBranchReturns(s) == \E i \in DOMAIN s.in : AlwaysReturns(s.in[i]) \* mutant
BranchesReturn(s) == \A i \in DOMAIN s.in : AlwaysReturns(s.in[i])
AlwaysReturns(block) ==
  \E i \in DOMAIN block :
    \/ block[i].n = "return"
    \/ block[i].n # "expression" /\ (block[i].n = "block" \/ Conditional(block[i]))
       /\ BranchesReturn(block[i])

\* MISSING_RETURN
RECURSIVE HasReturn(_)
HasReturn(block) ==
  \E i \in DOMAIN block : \/ block[i].n = "return"
                          \/ \E k \in DOMAIN block[i].in : HasReturn(block[i].in[k])

\* What the second visitor reports of a function that returns a value.
Reports(block) ==
  CASE ~HasReturn(block)     -> {"MISSING_RETURN"}
    [] ~AlwaysReturns(block) -> {"CONTROL_REACHES_END"}
    [] OTHER                 -> {}
===============================================================================
