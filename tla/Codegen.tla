-------------------------------- MODULE Codegen --------------------------------
(***************************************************************************)
(* The visitor that generates the code of a function: basic blocks of      *)
(* instructions, made in the order of the visit, with the block it is in,  *)
(* the mask that keeps what follows a return from being generated, and     *)
(* the value of the expression it has come from.  Instructions matter by   *)
(* what they do to the control flow; calls and returned values stand for   *)
(* all that a program can be seen to do.                                   *)
(*                                                                         *)
(* A node is a record: n, its kind; is, a name or an operator; of, the     *)
(* expressions below it; in, the blocks below it, which are sequences of   *)
(* statements.                                                             *)
(***************************************************************************)
EXTENDS Naturals, SequencesExt, FiniteSets, TLC

\* A value is an address where the LLVM type is a pointer, a store where an
\* assignment has left its instruction, and nothing where none was generated.

Event(name)           == [op |-> "event", name |-> name]
Load                  == [op |-> "load"]
Br(to)                == [op |-> "br", to |-> to]
CondBr(on, yes, no)   == [op |-> "condbr", on |-> on, yes |-> yes, no |-> no]
Phi(in)               == [op |-> "phi", in |-> in]
Ret                   == [op |-> "ret"]
IsTerminator(i)       == i.op \in {"br", "condbr", "ret"}

\* The block that startFunction makes for all returns.
Entry == 1
Return == 2

Emit(g, i) == [g EXCEPT !.blocks[g.at] = Append(@, i)]
Crash(g)   == [g EXCEPT !.crashed = TRUE]
Gives(g, value) == [g EXCEPT !.val = value]

\* createBasicBlock: n blocks, numbered from New.
New(g)    == Len(g.blocks) + 1
Blocks(g, n) == [g EXCEPT !.blocks = @ \o [i \in 1..n |-> << >>]]

Terminated(g, b) == g.blocks[b] # << >> /\ IsTerminator(Last(g.blocks[b]))
Masked(g)        == g.masked \/ Terminated(g, g.at)

\* enterBasicBlock
EnterMasked(g, b, emit_branch) == \* mutant: the mask stays
  LET h == IF emit_branch /\ ~Terminated(g, g.at) THEN Emit(g, Br(b)) ELSE g
  IN [h EXCEPT !.at = b]
EnterAlways(g, b, emit_branch) == \* mutant: a branch after a return
  LET h == IF emit_branch THEN Emit(g, Br(b)) ELSE g
  IN [h EXCEPT !.at = b, !.masked = FALSE]
Enter(g, b, emit_branch) ==
  LET h == IF emit_branch /\ ~Terminated(g, g.at) THEN Emit(g, Br(b)) ELSE g
  IN [h EXCEPT !.at = b, !.masked = FALSE]

\* CreateCondBr: without a condition a null pointer is followed.
Branch(g, on, yes, no) ==
  IF on = "nothing" THEN Crash(g) ELSE Emit(g, CondBr(on, yes, no))

\* getValue: what is read is loaded, what is written must have an address; for
\* an assignment, which has left a store, both are those of the variable that
\* was assigned.
Read(g, value) ==
  CASE value = "value"                -> g
    [] value \in {"address", "store"} -> Emit(g, Load)
    [] value = "nothing"              -> Crash(g)
Write(g, value) == IF value \in {"address", "store"} THEN g ELSE Crash(g)

\* Expression::isRValue
RECURSIVE IsRValue(_)
IsRValue(e) ==
  CASE e.n \in {"variable", "global", "assign"} -> FALSE
    [] e.n = "unary"   -> e.is # "++x"
    [] e.n = "ternary" -> IsRValue(e.of[2]) \/ IsRValue(e.of[3])
    [] e.n = "cast"    -> IsRValue(e.of[1])
    [] OTHER           -> TRUE

-------------------------------------------------------------------------------
RECURSIVE Gen(_, _)

\* A visit of nodes in turn; the operands of an expression, and their values.
GenAll(g, nodes) == FoldLeft(Gen, g, nodes)
RECURSIVE Operands(_, _)
Operands(g, nodes) ==
  IF nodes = << >> THEN [g |-> g, vals |-> << >>]
  ELSE LET h    == Gen(g, Head(nodes))
           rest == Operands(h, Tail(nodes))
       IN [g |-> rest.g, vals |-> <<h.val>> \o rest.vals]
ReadAll(o) == FoldLeft(Read, o.g, o.vals)

GenUnary(g, e) ==
  LET o == Operands(g, e.of)
      h == ReadAll(o)
  IN CASE e.is \in {"x++", "++x"} -> Gives(Write(h, o.vals[1]), "value")
       [] e.is \in {"!", "new"}   -> Crash(h) \* not implemented, no value
       [] OTHER                   -> Gives(h, "value")

\* A number is converted to another kind or size, and an object is taken as it
\* is.  A number of the same kind and size gives no value, nor does an object
\* that is cast to a number.
GenCast(g, e) ==
  LET h == ReadAll(Operands(g, e.of)) IN
  IF e.is = "converts" THEN Gives(h, "value") ELSE Crash(h)

\* The right side is visited first.
GenAssign(g, e) ==
  LET o == Operands(g, Reverse(e.of)) IN
  Gives(Read(Write(o.g, o.vals[2]), o.vals[1]), "store")

GenBinary(g, e) ==
  LET h == ReadAll(Operands(g, e.of)) IN
  IF e.is \in {"<<", "instanceof", "...", "[]"} THEN Crash(h) ELSE Gives(h, "value")

\* Both values are those of the block that was made for them, whatever
\* blocks have been made since.
GenTernary(g, e) ==
  LET cond  == New(g)
      yes   == cond + 1  no == cond + 2  final == cond + 3
      c     == Gen(Enter(Blocks(g, 4), cond, TRUE), e.of[1])
      t     == Gen(Enter(Branch(c, c.val, yes, no), yes, TRUE), e.of[2])
      f     == Gen(Enter(Emit(t, Br(final)), no, TRUE), e.of[3])
      h     == Enter(Emit(f, Br(final)), final, TRUE)
      loads(v) == IsRValue(e) /\ v = "address"
      l1    == IF loads(t.val) THEN Emit(h, Load) ELSE h
      l2    == IF loads(f.val) THEN Emit(l1, Load) ELSE l1
      value(v) == IF loads(v) THEN "value" ELSE v
  IN IF "nothing" \in {c.val, t.val, f.val} THEN Crash(h)
     ELSE Gives(Emit(l2, Phi(<<[from |-> yes, val |-> value(t.val)],
                               [from |-> no,  val |-> value(f.val)]>>)),
                value(t.val))

GenCall(g, e) ==
  Gives(Emit(ReadAll(Operands(g, e.of)), Event(e.is)), "value")

GenExpr(g, e) ==
  IF Masked(g) THEN Gives(g, "nothing")
  ELSE CASE e.n = "literal"  -> Gives(g, "value")
         [] e.n = "variable" -> Gives(g, "address")
         [] e.n \in {"global", "member"} -> Gives(g, "nothing")
         [] e.n = "lambda"   -> Crash(g) \* startFunction in a function
         [] e.n = "unary"    -> GenUnary(g, e)
         [] e.n = "cast"     -> GenCast(g, e)
         [] e.n = "assign"   -> GenAssign(g, e)
         [] e.n = "binary"   -> GenBinary(g, e)
         [] e.n = "ternary"  -> GenTernary(g, e)
         [] e.n = "call"     -> GenCall(g, e)

-------------------------------------------------------------------------------
GenReturnUnmasked(g, s) == \* mutant: what follows is generated
  LET h == IF s.of = << >> THEN g
           ELSE Emit(ReadAll(Operands(g, s.of)), Event("return"))
  IN Enter(Blocks(Emit(h, Br(Return)), 1), New(h), FALSE)

\* BranchStmt: break and continue are not implemented.
GenReturn(g, s) ==
  LET h == IF s.of = << >> THEN g
           ELSE Emit(ReadAll(Operands(g, s.of)), Event("return"))
  IN [Emit(h, Br(Return)) EXCEPT !.masked = TRUE]
\* A branch of an if is its condition's block, the first and the last block of
\* what it does, and the condition's value.
GenBranch(g, cond, block, is_if) ==
  LET eval == New(g)
      c    == Gen(Enter(Blocks(g, 1), eval, is_if), cond)
      then == New(c)
      b    == GenAll(Enter(Blocks(c, 1), then, FALSE), block)
  IN [g |-> b, eval |-> eval, first |-> then, last |-> b.at, on |-> c.val]

At(g, from) == [g EXCEPT !.at = from]
LinkTo(g, from, to) == IF Terminated(g, from) THEN g ELSE Emit(At(g, from), Br(to))

\* The blocks are linked when all of them are there.
GenIfElse(g, s) ==
  LET n == Len(s.of)
      branch[i \in 0..n] ==
        IF i = 0 THEN <<[g |-> g]>>
        ELSE Append(branch[i - 1], GenBranch(Last(branch[i - 1]).g, s.of[i], s.in[i], i = 1))
      branches == Tail(branch[n])
      has_else == Len(s.in) > n
      h     == Last(branch[n]).g
      other == New(h)
      e     == IF has_else
               THEN GenAll(Enter(Blocks(h, 1), other, FALSE), s.in[n + 1]) ELSE h
      final == New(e)
      after(i) == IF i < n THEN branches[i + 1].eval
                  ELSE IF has_else THEN other ELSE final
      link(k, i) ==
        LET b == branches[i]
            c == IF Terminated(k, b.eval) THEN k
                 ELSE Branch(At(k, b.eval), b.on, b.first, after(i))
        IN LinkTo(LinkTo(c, b.first, final), b.last, final)
      linked == FoldLeft(link, Blocks(e, 1), [i \in 1..n |-> i])
      joined == IF has_else THEN LinkTo(linked, e.at, final) ELSE linked
  IN Enter(joined, final, FALSE)

GenFor(g, s) ==
  LET init == New(g) cond == init + 1 step == init + 2 action == init + 3 final == init + 4
      i == Gen(Enter(Blocks(g, 5), init, TRUE), s.of[1])
      c == Gen(Enter(i, cond, TRUE), s.of[2])
      a == GenAll(Enter(Branch(c, c.val, action, final), action, TRUE), s.in[1])
      t == Gen(Enter(a, step, TRUE), s.of[3])
  IN Enter(Emit(t, Br(cond)), final, TRUE)

\* The branch back is emitted whatever the body ends with.
GenWhile(g, s) ==
  LET cond == New(g) action == cond + 1 final == cond + 2
      c == Gen(Enter(Blocks(g, 3), cond, TRUE), s.of[1])
      a == GenAll(Enter(Branch(c, c.val, action, final), action, TRUE), s.in[1])
  IN Enter(Emit(a, Br(cond)), final, TRUE)

GenDoWhile(g, s) ==
  LET action == New(g) cond == action + 1 final == action + 2
      a == GenAll(Enter(Blocks(g, 3), action, TRUE), s.in[1])
      c == Gen(Enter(a, cond, TRUE), s.of[1])
  IN Enter(Branch(c, c.val, action, final), final, TRUE)

\* The cases of a switch are visited one after the other.
GenSwitch(g, s) ==
  LET n == Len(s.of) - 1
      one(h, i) == GenAll(Gen(h, s.of[i + 1]), s.in[i])
      cases == FoldLeft(one, Gen(g, s.of[1]), [i \in 1..n |-> i])
  IN IF Len(s.in) > n THEN GenAll(cases, s.in[n + 1]) ELSE cases

GenControl(g, s) ==
  CASE s.n \in {"declaration", "foreach"} -> g \* foreach is not implemented
    [] s.n = "return"   -> GenReturn(g, s)
    [] s.n \in {"break", "continue"} -> Crash(g) \* nor are these
    [] s.n = "if"       -> GenIfElse(g, s)
    [] s.n = "for"      -> GenFor(g, s)
    [] s.n = "while"    -> GenWhile(g, s)
    [] s.n = "do"       -> GenDoWhile(g, s)
    [] s.n = "switch"   -> GenSwitch(g, s)

GenStatement(g, s) ==
  CASE s.n = "block"      -> GenAll(g, s.in[1])
    [] s.n = "expression" -> Gen(g, s.of[1])
    [] OTHER              -> IF Masked(g) THEN g ELSE GenControl(g, s)

Statements == {"block", "expression", "declaration", "return", "break", "continue",
               "if", "for", "foreach", "while", "do", "switch"}

Gen(g, node) ==
  IF g.crashed THEN g
  ELSE IF node.n \in Statements THEN GenStatement(g, node) ELSE GenExpr(g, node)
===============================================================================
