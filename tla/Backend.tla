-------------------------------- MODULE Backend --------------------------------
(***************************************************************************)
(* A program on its way to code: the first verification, the names that    *)
(* are resolved one after the other, the second verification, the symbols  *)
(* of the declarations, and the generator, which goes through the          *)
(* functions one statement after the other with one context.               *)
(***************************************************************************)
EXTENDS Semantics, Checks, Meaning

\* A program is a tree of declarations, the uses of names in it, and the
\* blocks of its functions.
CONSTANT Programs

VARIABLES
  program,
  pc,
  bound,    \* the outcomes of the uses
  symbols,  \* of the declarations
  at,       \* the function that is generated
  next,     \* its next statement
  g,        \* the builder and the function's context
  code,     \* the functions that are finished
  dead,     \* statements that are reported as dead
  reports   \* of the functions, by the second verification

vars == <<program, pc, bound, symbols, at, next, g, code, dead, reports>>

Empty == [blocks |-> << >>, at |-> 0, masked |-> FALSE, val |-> "nothing",
          crashed |-> FALSE]

Init ==
  /\ program \in Programs /\ pc = "verify0"
  /\ bound = << >> /\ symbols = << >>
  /\ at = 1 /\ next = 1 /\ g = Empty /\ code = << >>
  /\ dead = {} /\ reports = << >>

Verify0 ==
  /\ pc = "verify0"
  /\ dead' = UNION {DeadIn(program.functions[f]) : f \in DOMAIN program.functions}
  /\ pc' = "resolve"
  /\ UNCHANGED <<program, bound, symbols, at, next, g, code, reports>>

\* A use on the left of a dot is known by its number; a call stands for what
\* it returns.
Outcomes(use) ==
  LET left(i) == IF program.uses[i].call /\ bound[i].symbol # 0
                 THEN [bound[i] EXCEPT !.symbol = 0,
                                       !.type = Unique(program.tree, program.tree[bound[i].symbol].type)]
                 ELSE bound[i]
  IN [use EXCEPT !.left = IF @ = << >> THEN @ ELSE <<left(@[1])>>]
ResolveName ==
  /\ pc = "resolve" /\ Len(bound) < Len(program.uses)
  /\ bound' = Append(bound, Resolve(program.tree, Outcomes(program.uses[Len(bound) + 1])))
  /\ pc' = CASE Last(bound').how = "abort" -> "aborted"
             [] Last(bound').how = "crash" -> "crashed"
             [] OTHER -> pc
  /\ UNCHANGED <<program, symbols, at, next, g, code, dead, reports>>
Resolved ==
  /\ pc = "resolve" /\ Len(bound) = Len(program.uses)
  /\ pc' = IF \E i \in DOMAIN bound : bound[i].how = "missed" THEN "rejected" ELSE "verify1"
  /\ UNCHANGED <<program, bound, symbols, at, next, g, code, dead, reports>>

Verify1 ==
  /\ pc = "verify1"
  /\ reports' = [f \in DOMAIN program.functions |-> Reports(program.functions[f])]
  /\ pc' = "mangle"
  /\ UNCHANGED <<program, bound, symbols, at, next, g, code, dead>>

Mangle ==
  /\ pc = "mangle"
  /\ LET with(m, n)  == [out |-> Append(m.out, n.out), slots |-> n.slots]
         next1(m, d) == with(m, Mangled(program.tree, m.slots, d))
     IN symbols' = FoldLeft(next1, [out |-> << >>, slots |-> << >>],
                            [d \in DOMAIN program.tree |-> d]).out
  /\ pc' = IF Unreachable \in UNION {Range(s) : s \in Range(symbols')} THEN "aborted" ELSE "start"
  /\ UNCHANGED <<program, bound, at, next, g, code, dead, reports>>

\* startFunction: the entry and the return block; the mask is left as it is.
StartFunction ==
  /\ pc = "start" /\ at <= Len(program.functions)
  /\ g' = [Blocks(g, 2) EXCEPT !.at = Entry]
  /\ pc' = "body" /\ next' = 1
  /\ UNCHANGED <<program, bound, symbols, at, code, dead, reports>>

GenerateStatement ==
  /\ pc = "body" /\ next <= Len(program.functions[at])
  /\ g' = Gen(g, program.functions[at][next])
  /\ next' = next + 1
  /\ pc' = IF g'.crashed THEN "crashed" ELSE pc
  /\ UNCHANGED <<program, bound, symbols, at, code, dead, reports>>

\* finishFunction
FinishFunction ==
  /\ pc = "body" /\ next > Len(program.functions[at])
  /\ LET h == Emit(Enter(g, Return, TRUE), Ret) IN
     /\ code' = Append(code, h.blocks)
     /\ g' = [h EXCEPT !.blocks = << >>, !.at = 0]
  /\ at' = at + 1 /\ pc' = "start"
  /\ UNCHANGED <<program, bound, symbols, next, dead, reports>>

Finish ==
  /\ pc = "start" /\ at > Len(program.functions)
  /\ pc' = "done"
  /\ UNCHANGED <<program, bound, symbols, at, next, g, code, dead, reports>>

Next == Verify0 \/ ResolveName \/ Resolved \/ Verify1 \/ Mangle
        \/ StartFunction \/ GenerateStatement \/ FinishFunction \/ Finish

Spec == Init /\ [][Next]_vars

-------------------------------------------------------------------------------
(* Properties *)

\* Nodes below a node, itself included.
RECURSIVE Below(_)
BelowAll(nodes) == UNION {Below(nodes[i]) : i \in DOMAIN nodes}
Below(x) == {x} \cup BelowAll(x.of) \cup UNION {BelowAll(x.in[i]) : i \in DOMAIN x.in}
Kinds(x) == {y.n : y \in Below(x)}

\* Statements of the same control flow: blocks and cases are inlined.
RECURSIVE Inlined(_)
Inlined(block) ==
  FlattenSeq([i \in DOMAIN block |->
    CASE block[i].n = "block"  -> Inlined(block[i].in[1])
      [] block[i].n = "switch" -> FlattenSeq([k \in DOMAIN block[i].in |-> Inlined(block[i].in[k])])
      [] OTHER -> <<block[i]>>])
Live(block) ==
  LET all == Inlined(block)
      return == SelectInSeq(all, LAMBDA s : s.n = "return")
  IN IF return = 0 THEN all ELSE SubSeq(all, 1, return)
ReturnsHere(block) == \E i \in DOMAIN Inlined(block) : Inlined(block)[i].n = "return"
\* Everything that code is generated for.
RECURSIVE Generated(_)
Generated(block) ==
  UNION {{s} \cup IF s.n = "foreach" THEN {} ELSE UNION {Generated(s.in[k]) : k \in DOMAIN s.in}
          : s \in Range(Live(block))}
Exprs(block) == UNION {BelowAll(s.of) : s \in Generated(block)}

\* The code of a function is what LLVM takes for one, unless a while loop's
\* body ends in a return, a ternary is in a condition of an if, or in another,
\* or loads its values, or a variable or an assignment is a condition.
Bare(e) == e.n \in {"variable", "assign"} \/ (e.n = "ternary" /\ ~IsRValue(e))
IllFormed(block) ==
  \/ \E s \in Generated(block) :
       \/ s.n = "while" /\ ReturnsHere(s.in[1])
       \/ s.n = "if" /\ \E i \in DOMAIN s.of : "ternary" \in Kinds(s.of[i])
       \/ /\ s.n \in Loops \cup {"if"}
          /\ \E i \in (IF s.n = "for" THEN {2} ELSE DOMAIN s.of) : Bare(s.of[i])
  \/ \E e \in Exprs(block) :
       /\ e.n = "ternary"
       /\ \/ \E i \in {2, 3} : "ternary" \in Kinds(e.of[i])
          \/ IsRValue(e) /\ \E i \in {2, 3} : e.of[i].n = "variable"
          \/ \E i \in {2, 3} : e.of[i].n = "assign"
          \/ Bare(e.of[1])
WellFormed ==
  pc \in {"done", "crashed"} => \A f \in DOMAIN code : IsWellFormed(code[f]) <=> ~IllFormed(program.functions[f])

\* Code that is well formed does what the function means, but for switch and
\* foreach, which are not implemented.
Unimplemented(block) == \E x \in BelowAll(block) : x.n \in {"switch", "foreach"}
SameTraces ==
  pc \in {"done", "crashed"} => \A f \in DOMAIN code :
    IsWellFormed(code[f]) /\ ~Unimplemented(program.functions[f]) =>
      RunsOfCode(code[f]) = Ends(RunsOfAll(program.functions[f]))

\* A function without a report never reaches its end, unless the branches
\* that return are those of an if without an else, of a switch without a
\* default, or of a loop; one with a report does.
Excused(block) ==
  \E s \in BelowAll(block) :
    \/ s.n = "if" /\ Len(s.of) = Len(s.in)
    \/ s.n \in Loops \cup {"break", "continue"}
    \/ s.n = "switch" /\ Len(s.in) < Len(s.of)
ReachesEnd(block) == \E r \in RunsOfAll(block) : r.end = "next"
EndIsReported ==
  pc = "done" =>
    \A f \in DOMAIN program.functions :
      /\ reports[f] = {} /\ ~Excused(program.functions[f]) => ~ReachesEnd(program.functions[f])
      /\ reports[f] # {} => ReachesEnd(program.functions[f])

\* What is reported as dead is not executed, and no code is generated for it.
CallsIn(s) == {x.is : x \in {y \in Below(s) : y.n = "call"}}
DeadIsDead ==
  pc = "done" =>
    \A s \in dead : \A f \in DOMAIN program.functions :
      /\ \A r \in RunsOfAll(program.functions[f]) : Range(r.seen) \cap CallsIn(s) = {}
      /\ CallsIn(s) \cap UNION {Range(Seen(code[f][b])) : b \in DOMAIN code[f]} = {}

\* A name that is not called is resolved to the nearest declaration of it, or
\* to an object of any package if there is none.  If it is not resolved though
\* one declaration is the nearest, another one has the name: an inner
\* declaration does not hide an outer one.
LastUse == program.uses[Len(bound)]
Target(o) == IF o.symbol # 0 THEN o.symbol ELSE o.type.is
NameIsLexical ==
  pc \in {"resolve", "aborted", "crashed"} /\ bound # << >> =>
    LET w == program.tree
        use == Outcomes(LastUse)
        o == Last(bound)
        near == Nearest(w, use)
    IN ~use.call /\ ~IsTemplate(Last(use.path)) /\ o.package = 0 =>
         /\ o.how = "bound" =>
              \/ near = {Target(o)} \/ (near = {} /\ Target(o) \in Leaks(w, use))
              \/ Len(use.path) > 1 /\ Target(o) \in near
         /\ o.how # "bound" /\ Cardinality(near) = 1 /\ Len(use.path) = 1 =>
              Cardinality(UNION Range(Meanings(w, use)) \cup Leaks(w, use)) > 1

\* A call is resolved to the function that is preferred to all others that can
\* be called.  If methods of one class need the same, each drops the other, and
\* what is resolved to is one of the least need.  An assertion fails only if a
\* template has a parameter of a class, or a typename that no argument tells;
\* what is called and is no function is a null pointer.
CalleeIsBest ==
  pc \in {"resolve", "aborted", "crashed"} /\ bound # << >> /\ LastUse.call =>
    LET w == program.tree
        o == Last(bound)
        able  == Able(w, LastUse)
        least == {a \in able : \A b \in able : ~NeedsLess(Needs(w, b), Needs(w, a))}
        callee == {e.f : e \in BestCallees(w, able)}
        rivals == \E a, b \in least : a # b /\ w[a.f].up = w[b.f].up /\ IsMember(w, a.f)
        meant == UNION Range(Meanings(w, LastUse))
    IN /\ o.how \in {"bound", "instance", "missed"} =>
            IF rivals THEN o.how = "missed" \/ o.symbol \in {e.f : e \in least}
            ELSE callee = {o.symbol} \ {0}
       /\ o.how = "abort" => \E f \in meant : IsTemplate(w[f]) /\ Untold(w, f) # {}
       /\ o.how = "crash" => \E d \in meant : w[d].n # "function"

\* A template that is chosen for a type fits it, and all types that it fits are
\* fit by all other templates that fit the type.  An assertion fails if
\* arguments are left out of a template that has defaults for them, and if a
\* class and a primitive type for one typename are compared.
TemplateIsBest ==
  pc \in {"resolve", "aborted"} /\ bound # << >> /\ IsTemplate(Last(LastUse.path)) =>
    LET w == program.tree
        o == Last(bound)
        name == Last(LastUse.path)
        types == {w[d].type : d \in {e \in DOMAIN w : w[e].n = "typename"}} \ {None}
        given == [i \in 1..2 |-> IF i <= Len(name.args) THEN w[name.args[i]].type ELSE Prim(8)]
        fit == {d \in DOMAIN w : /\ w[d].n = "class" /\ w[d].name = name.name
                                 /\ Len(name.args) = 2 \/ w[w[d].args[2]].in # << >>
                                 /\ given \in FitsTypes(w, d, types)}
        best == {d \in fit : \A e \in fit : FitsTypes(w, d, types) \subseteq FitsTypes(w, e, types)}
        both(a, b) == a.type # None /\ b.type # None /\ Named(a.type) # Named(b.type)
    IN ~LastUse.call =>
         IF o.how = "abort"
         THEN \/ Len(name.args) < 2 /\ fit # {}
              \/ \E d, e \in fit : \E i \in DOMAIN w[d].args : both(w[w[d].args[i]], w[w[e].args[i]])
         ELSE best = {o.type.is} \ {0}

\* Functions with one symbol have one signature: the same scope, the same
\* parameters, and names that are encoded alike.  Templates have no symbol.
DistinctNames ==
  pc = "start" /\ at = 1 =>
    LET w == program.tree
        named == {d \in DOMAIN w : /\ w[d].n = "function" /\ ~IsOpen(w, d)
                                   /\ ~(HasThis(w, d) /\ IsOpen(w, w[d].up))}
    IN Cardinality({<<symbols[d], Signature(w, d)>> : d \in named})
         = Cardinality({symbols[d] : d \in named})
===============================================================================
