------------------------------- MODULE Semantics -------------------------------
(***************************************************************************)
(* What a function means, and what its code does: the sets of what can be  *)
(* seen of their runs, which are the calls, the returned values and the    *)
(* outcomes of conditions, the first Longest of them.  A condition may     *)
(* come out either way.                                                    *)
(***************************************************************************)
EXTENDS Codegen

CONSTANT Longest \* what is seen of a run

ASSUME LongestAssumption == Longest \in Nat

\* A run: what has been seen, and how it ends.  A run that is cut is longer.
Run(seen, end) == IF Len(seen) > Longest
                  THEN [seen |-> SubSeq(seen, 1, Longest), end |-> "cut"]
                  ELSE [seen |-> seen, end |-> end]
Quiet     == {Run(<< >>, "next")}
Sees(name) == {Run(<<name>>, "next")}

\* One after the other: the second where the first goes on.
Goes(r, ends, second) ==
  IF r.end \in ends THEN {Run(r.seen \o q.seen, q.end) : q \in second} ELSE {r}
Then(first, second) == UNION {Goes(r, {"next"}, second) : r \in first}

RECURSIVE RunsOf(_), Loop(_, _, _, _)
RunsOfAll(nodes) ==
  FoldLeft(LAMBDA runs, node : Then(runs, RunsOf(node)), Quiet, nodes)
Decides(cond, yes, no) ==
  Then(RunsOf(cond), Then(Sees("T"), yes) \cup Then(Sees("F"), no))

\* A loop from its condition, and what a body may end with.
Loop(cond, body, step, left) ==
  IF left = 0 THEN {[seen |-> << >>, end |-> "cut"]}
  ELSE LET once == UNION {Goes(r, {"next", "continue"},
                            Then(step, Loop(cond, body, step, left - 1))) : r \in body}
           over == {IF r.end = "break" THEN Run(r.seen, "next") ELSE r : r \in once}
       IN Decides(cond, over, Quiet)
Broken(runs) == {IF r.end = "break" THEN Run(r.seen, "next") ELSE r : r \in runs}

RECURSIVE Branches(_, _)
Branches(conds, blocks) ==
  IF conds = << >> THEN IF blocks = << >> THEN Quiet ELSE RunsOfAll(blocks[1])
  ELSE Decides(conds[1], RunsOfAll(blocks[1]), Branches(Tail(conds), Tail(blocks)))

RunsOf(x) ==
  CASE x.n = "ternary" -> Decides(x.of[1], RunsOf(x.of[2]), RunsOf(x.of[3]))
    [] x.n = "assign"  -> RunsOfAll(Reverse(x.of))
    [] x.n = "call"    -> Then(RunsOfAll(x.of), Sees(x.is))
    [] x.n = "block"   -> RunsOfAll(x.in[1])
    [] x.n = "return"  ->
         Then(Then(RunsOfAll(x.of), IF x.of = << >> THEN Quiet ELSE Sees("return")),
              {[seen |-> << >>, end |-> "return"]})
    [] x.n \in {"break", "continue"} -> {[seen |-> << >>, end |-> x.n]}
    [] x.n = "if"      -> Branches(x.of, x.in)
    [] x.n = "while"   -> Loop(x.of[1], RunsOfAll(x.in[1]), Quiet, Longest + 1)
    [] x.n = "do"      ->
         LET body == RunsOfAll(x.in[1]) IN
         Broken(UNION {Goes(r, {"next", "continue"},
                            Loop(x.of[1], body, Quiet, Longest + 1)) : r \in body})
    [] x.n = "for"     ->
         Then(RunsOf(x.of[1]),
              Loop(x.of[2], RunsOfAll(x.in[1]), RunsOf(x.of[3]), Longest + 1))
    [] x.n = "switch"  -> \* one case, the default, or neither
         Then(RunsOf(x.of[1]),
              UNION {RunsOfAll(x.in[i]) : i \in DOMAIN x.in}
              \cup IF Len(x.in) = Len(x.of) THEN {} ELSE Quiet)
    [] x.n = "foreach" -> Quiet \cup Broken(RunsOfAll(x.in[1]))
    [] OTHER           -> RunsOfAll(x.of)

\* A run that falls off the end returns too.
Ends(runs) == {[r EXCEPT !.end = IF @ = "cut" THEN @ ELSE "return"] : r \in runs}

-------------------------------------------------------------------------------
(* The code *)

\* What is seen in a block, and the terminator that leaves it.
Seen(block) == LET events == SelectSeq(block, LAMBDA i : i.op = "event")
               IN [i \in DOMAIN events |-> events[i].name]
Terminator(block) == block[SelectInSeq(block, IsTerminator)]

RECURSIVE RunsFrom(_, _, _)
RunsFrom(code, b, before) ==
  LET seen == before \o Seen(code[b])
      t    == Terminator(code[b])
  IN IF Len(seen) > Longest THEN {Run(seen, "cut")}
     ELSE CASE t.op = "ret" -> {Run(seen, "return")}
            [] t.op = "br"  -> RunsFrom(code, t.to, seen)
            [] t.op = "condbr" ->
                 RunsFrom(code, t.yes, Append(seen, "T"))
                 \cup RunsFrom(code, t.no, Append(seen, "F"))
RunsOfCode(code) == RunsFrom(code, Entry, << >>)

\* What LLVM demands of the blocks of a function.
Targets(block) == IF block = << >> THEN {}
                  ELSE LET t == Last(block) IN
                       CASE t.op = "br" -> {t.to} [] t.op = "condbr" -> {t.yes, t.no}
                         [] OTHER -> {}
Preds(code, b) == {p \in DOMAIN code : b \in Targets(code[p])}
EndsOnce(block) ==
  /\ block # << >> /\ IsTerminator(Last(block))
  /\ \A i \in 1..(Len(block) - 1) : ~IsTerminator(block[i])
OnTruth(block) == \A i \in DOMAIN block : block[i].op = "condbr" => block[i].on = "value"
PhisFit(code, b) ==
  \A i \in {j \in DOMAIN code[b] : code[b][j].op = "phi"} :
    LET in == code[b][i].in IN
    /\ \A j \in 1..(i - 1) : code[b][j].op = "phi"
    /\ {in[k].from : k \in DOMAIN in} = Preds(code, b)
    /\ \A k \in DOMAIN in : in[k].val = in[1].val /\ in[k].val # "store"
IsWellFormed(code) ==
  \A b \in DOMAIN code :
    EndsOnce(code[b]) /\ OnTruth(code[b]) /\ PhisFit(code, b)
===============================================================================
