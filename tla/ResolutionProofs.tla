--------------------------- MODULE ResolutionProofs ---------------------------
(***************************************************************************)
(* Proofs about Resolution, for every well-formed program.                 *)
(*                                                                         *)
(* The stage decides by counting, and three things escape the count: the   *)
(* nodes that a pass adds to the tree, a variable whose type is not known  *)
(* yet, and an expression that is silent because its operand has no type.  *)
(* The invariant therefore says what the counts are worth: what a pass has *)
(* seen when nothing is counted (SpecsInv for types, SymbolsInv for        *)
(* symbols), and, for what was bound in an earlier pass, who is to blame   *)
(* if it has no type (KnownInv).                                           *)
(***************************************************************************)
EXTENDS Resolution, Measures

InClass(n)   == program[n].of \in ClassInstances
Undefined(n) == program[n].outcome = "undefined"

TypeInv ==
  /\ program \in Programs
  /\ pc \in {"types", "symbols", "visit", "settle", "done"}
  /\ pass \in Targets
  /\ at \in Nat \ {0} /\ count \in Nat
  /\ complete \subseteq Targets
  /\ pc = "visit" =>
       \A n \in requests :
         /\ n \in Tree
         /\ program[n].outcome = "template"
         /\ program[n].kind = IF pass = "type" THEN "spec" ELSE "callee"

\* A round begins with both targets complete or none, and a pass is made only
\* for what is not.
StageInv ==
  /\ pc = "types" \/ summary => complete \in {{}, Targets}
  /\ pc = "visit" /\ pass = "type" => complete = {}
  /\ pc = "symbols" => complete \in {{}, {"type"}, Targets}
  /\ pc = "visit" /\ pass = "symbol" => complete \in {{}, {"type"}}
  /\ result = "ok" => complete = Targets
  /\ result # "none" => pc = "done"

\* What has a type or a symbol.
KnownInv ==
  \A n \in Nodes :
    /\ program[n].kind = "spec" /\ n \in typed => ~Undefined(n)
    /\ program[n].kind = "callee" /\ n \in bound => n \in typed
    /\ program[n].kind = "name" /\ n \in bound =>
         \/ n \in typed
         \/ \E u \in program[n].uses : Undefined(u) \/ InClass(u)

\* The specifiers in the tree, as passes over types go by.
SpecsInv ==
  \A n \in Tree : program[n].kind = "spec" =>
    /\ pc = "visit" /\ pass = "type" /\ n < at =>
         n \in typed \cup requests \/ (Undefined(n) /\ count > 0)
    /\ pc = "symbols" \/ (pc = "visit" /\ pass = "symbol") =>
         n \in typed \/ Undefined(n) \/ InClass(n)
    /\ "type" \in complete => n \in typed \/ InClass(n)

\* All nodes, in a pass over symbols that has nothing to count and nothing to
\* ask for, after one over types that was complete.
SymbolsInv ==
  \A n \in Tree :
    /\ /\ pc = "visit" /\ pass = "symbol" /\ "type" \in complete
       /\ count = 0 /\ requests = {} /\ n < at
       => InClass(n) \/ (Resolved(n) /\ (program[n].kind # "condition" => n \in typed))
    /\ complete = Targets => InClass(n) \/ Resolved(n)

IInv == TypeInv /\ StageInv /\ KnownInv /\ SpecsInv /\ SymbolsInv /\ AbortHasCulprit

\* What a shallow program owes its success to: the first pass over symbols
\* resolves all of its text but for the calls, and that is enough for no later
\* pass to count anything.
Ready(n) ==
  /\ program[n].kind \in {"literal", "name", "assign"} => n \in typed
  /\ program[n].kind \in {"name", "assign"} => n \in bound

\* The first pass over types counts less than `total' begins with.
Early ==
  /\ total = 2 * Len(program) + 1
  /\ complete = {} /\ progress = {} /\ ~summary
  /\ \/ pc = "types"
     \/ /\ pc = "visit" /\ pass = "type"
        /\ at <= Len(program) + 1 /\ count <= 2 * (at - 1)

FirstSymbols ==
  /\ "type" \in progress /\ ~summary /\ complete \subseteq {"type"}
  /\ \/ pc = "symbols"
     \/ /\ pc = "visit" /\ pass = "symbol"
        /\ \A n \in Nodes : n < at /\ program[n].of = Text => Ready(n)

Later ==
  /\ \A n \in Nodes : program[n].of = Text => Ready(n)
  /\ summary => complete = Targets
  /\ pc = "visit" => count = 0
  /\ pc = "symbols" \/ (pc = "visit" /\ pass = "symbol") => "type" \in complete
  /\ pc = "settle" => progress # {} \/ complete = Targets

ShallowInv ==
  /\ result # "failed"
  /\ result = "aborted" \/ Early \/ FirstSymbols \/ Later

-------------------------------------------------------------------------------
(* Lemmas *)

\* What the assumption says of the nodes of the program at hand.
LEMMA Shape ==
  ASSUME TypeInv
  PROVE  /\ Len(program) \in Nat
         /\ Nodes = 1..Len(program)
         /\ \A n \in Nodes :
              /\ program[n].kind \in Kinds
              /\ program[n].uses \subseteq Nodes
              /\ program[n].outcome = "template" => program[n].makes # Text
              /\ \A u \in program[n].uses :
                   /\ program[n].kind = "name" => program[u].kind = "spec"
                   /\ program[n].kind = "name" =>
                        program[u].of \in {Text, program[n].of}
                   /\ program[n].kind # "name" => program[u].kind # "condition"
                   /\ program[n].kind # "name" => program[u].of = program[n].of
                   /\ program[n].kind \notin {"name", "callee"} => u < n
PROOF
  <1>1. program \in Seq(NodeOf(Len(program))) /\ WellFormed(program)
    BY ProgramAssumption DEF ProgramAssumption, TypeInv
  <1>2. /\ Len(program) \in Nat
        /\ Nodes = 1..Len(program)
        /\ \A n \in Nodes : program[n] \in NodeOf(Len(program))
    BY <1>1 DEF Nodes
  <1>3. \A n \in Nodes : program[n].kind \in Kinds
                         /\ program[n].uses \subseteq Nodes
    BY <1>2 DEF NodeOf
  <1> QED
    BY <1>1, <1>2, <1>3 DEF WellFormed, Nodes

\* The parser's text is not an instance of a class.
LEMMA TextIsNoInstance ==
  ASSUME TypeInv
  PROVE  Text \notin ClassInstances
PROOF
  BY Shape DEF ClassInstances, Tree

\* While the program stays and the tree does not shrink, nothing leaves the
\* tree or the instances of classes.
LEMMA TreeGrows ==
  ASSUME program' = program, made \subseteq made'
  PROVE  /\ Tree \subseteq Tree'
         /\ ClassInstances \subseteq ClassInstances'
         /\ \A n : InClass(n) => InClass(n)'
PROOF
  <1>1. Tree \subseteq Tree'
    BY DEF Tree, Nodes
  <1>2. ClassInstances \subseteq ClassInstances'
    BY <1>1 DEF ClassInstances
  <1> QED
    BY <1>1, <1>2 DEF InClass

LEMMA TreeStays ==
  ASSUME program' = program, made' = made
  PROVE  /\ Tree' = Tree
         /\ ClassInstances' = ClassInstances
         /\ \A n : InClass(n)' = InClass(n)
PROOF
  <1>1. Tree' = Tree
    BY DEF Tree, Nodes
  <1>2. ClassInstances' = ClassInstances
    BY <1>1 DEF ClassInstances
  <1> QED
    BY <1>1, <1>2 DEF InClass

\* What is counted of an expression is a number, and zero only of one that
\* has operands of the right types.
LEMMA WrongCounts ==
  ASSUME TypeInv, at \in Nodes
  PROVE  /\ Cardinality(Wrong) \in Nat
         /\ Cardinality(Wrong) = 0 <=> Wrong = {}
PROOF
  <1>1. Wrong \subseteq 1..Len(program) /\ Len(program) \in Nat
    BY Shape DEF Wrong, Strangers, Node
  <1>2. IsFiniteSet(1..Len(program))
    BY <1>1, FS_Interval
  <1>3. IsFiniteSet(Wrong)
    BY <1>1, <1>2, FS_Subset
  <1> QED
    BY <1>3, FS_CardinalityType, FS_EmptySet

\* A step of the visitor.
Visit ==
  \/ ResolveSpec \/ ResolveName \/ ResolveCallee \/ ResolveLiteral
  \/ ResolveCall \/ ResolveUnary \/ ResolveArith \/ ResolveComparison
  \/ ResolveAssign \/ ResolveCondition \/ PassBy

\* A step of the visitor goes on to the next node or stops the program; it
\* adds at most the node it is at, and never lowers the count.
LEMMA VisitFacts ==
  ASSUME TypeInv, Visit
  PROVE  /\ pc = "visit" /\ at \in Nodes
         /\ UNCHANGED <<program, made, pass, complete, summary>>
         /\ typed \subseteq typed' /\ typed' \subseteq typed \cup {at}
         /\ bound \subseteq bound' /\ bound' \subseteq bound \cup {at}
         /\ requests \subseteq requests' /\ requests' \subseteq requests \cup {at}
         /\ count' \in Nat /\ count' >= count
         /\ \/ pc' = "visit" /\ at' = at + 1 /\ UNCHANGED stage
            \/ /\ ResolveName \/ ResolveCallee \/ ResolveAssign
               /\ pc' = "done" /\ at' = at /\ result' = "aborted"
PROOF
  <1> count \in Nat
    BY DEF TypeInv
  <1>1. CASE ResolveSpec
    BY <1>1 DEF ResolveSpec, At, NoEffect, Silent, Miss, Request, Advance, Tree,
                tree, stage
  <1>2. CASE ResolveName
    BY <1>2 DEF ResolveName, At, NoEffect, Silent, Miss, Abort, Advance, Tree,
                tree, stage
  <1>3. CASE ResolveCallee
    BY <1>3 DEF ResolveCallee, At, NoEffect, Silent, Miss, Request, Abort,
                Advance, Tree, tree, stage
  <1>4. CASE ResolveLiteral
    BY <1>4 DEF ResolveLiteral, At, Silent, Advance, Tree, tree, stage
  <1>5. CASE ResolveCall
    BY <1>5 DEF ResolveCall, At, Miss, Advance, Tree, tree, stage
  <1>6. CASE ResolveUnary \/ ResolveComparison
    BY <1>6 DEF ResolveUnary, ResolveComparison, At, Miss, Silent,
                Advance, Tree, tree, stage
  <1>10. CASE ResolveArith
    <2>1. at \in Nodes
      BY <1>10 DEF ResolveArith, At, Tree
    <2>2. Cardinality(Wrong) \in Nat
      BY <2>1, WrongCounts
    <2> QED
      BY <1>10, <2>2 DEF ResolveArith, At, Advance, Tree, tree, stage
  <1>7. CASE ResolveAssign
    BY <1>7 DEF ResolveAssign, At, NoEffect, Silent, Miss, Abort, Advance, Tree,
                tree, stage
  <1>8. CASE ResolveCondition
    BY <1>8 DEF ResolveCondition, At, Silent, Advance, Tree, tree, stage
  <1>9. CASE PassBy
    BY <1>9 DEF PassBy, NoEffect, Silent, Advance, tree, stage
  <1> QED
    BY <1>1, <1>2, <1>3, <1>4, <1>5, <1>6, <1>7, <1>8, <1>9, <1>10 DEF Visit

\* A node of the tree that its target has something to resolve in is not
\* passed by.
LEMMA ActionOfKind ==
  ASSUME TypeInv, Visit, at \in Tree
  PROVE  /\ Node.kind = "spec" /\ pass = "type" => ResolveSpec
         /\ Node.kind = "name" /\ pass = "symbol" => ResolveName
         /\ Node.kind = "literal" /\ pass = "symbol" => ResolveLiteral
         /\ Node.kind = "callee" /\ pass = "symbol" => ResolveCallee
         /\ Node.kind = "call" => ResolveCall
         /\ Node.kind = "unary" => ResolveUnary
         /\ Node.kind = "arith" => ResolveArith
         /\ Node.kind \in {"comparison", "logical"} => ResolveComparison
         /\ Node.kind = "assign" => ResolveAssign
PROOF
  BY DEF Visit, ResolveSpec, ResolveName, ResolveCallee, ResolveLiteral,
     ResolveCall, ResolveUnary, ResolveArith, ResolveComparison, ResolveAssign,
     ResolveCondition, PassBy, At

\* Whatever the visitor gives a type or a symbol to: a specifier is defined, a
\* callee gets both, and a variable without a type has a specifier without one.
LEMMA VisitKnows ==
  ASSUME TypeInv, Visit
  PROVE  /\ Node.kind = "spec" /\ at \in typed' /\ at \notin typed =>
              ~Undefined(at)
         /\ Node.kind = "callee" /\ at \in bound' /\ at \notin bound =>
              at \in typed'
         /\ Node.kind = "name" /\ at \in bound' /\ at \notin bound =>
              pass = "symbol" /\ at \in Tree
         /\ Node.kind = "name" /\ at \in bound' /\ at \notin bound =>
              at \in typed' \/ ~(Node.uses \subseteq typed)
PROOF
  <1>1. CASE ResolveSpec
    BY <1>1 DEF ResolveSpec, At, NoEffect, Request, Undefined, Node
  <1>2. CASE ResolveName
    BY <1>2 DEF ResolveName, At, NoEffect, Abort
  <1>3. CASE ResolveCallee
    BY <1>3 DEF ResolveCallee, At, NoEffect, Abort, Request
  <1>4. CASE ResolveLiteral
    BY <1>4 DEF ResolveLiteral, At
  <1>5. CASE ResolveCall
    BY <1>5 DEF ResolveCall, At
  <1>6. CASE ResolveUnary \/ ResolveArith \/ ResolveComparison
    BY <1>6 DEF ResolveUnary, ResolveArith, ResolveComparison, At
  <1>7. CASE ResolveAssign
    BY <1>7 DEF ResolveAssign, At, NoEffect, Abort
  <1>8. CASE ResolveCondition
    BY <1>8 DEF ResolveCondition, At
  <1>9. CASE PassBy
    BY <1>9 DEF PassBy, NoEffect
  <1> QED
    BY <1>1, <1>2, <1>3, <1>4, <1>5, <1>6, <1>7, <1>8, <1>9 DEF Visit

\* What the visitor asks for.
LEMMA VisitAsks ==
  ASSUME TypeInv, Visit, at \in requests', at \notin requests
  PROVE  /\ at \in Tree /\ pc' = "visit"
         /\ Node.outcome = "template"
         /\ Node.kind = IF pass = "type" THEN "spec" ELSE "callee"
PROOF
  <1>1. CASE ResolveSpec
    BY <1>1 DEF ResolveSpec, At, NoEffect, MustInstantiate, Advance
  <1>2. CASE ResolveName
    BY <1>2 DEF ResolveName, At, NoEffect, Abort
  <1>3. CASE ResolveCallee
    BY <1>3 DEF ResolveCallee, At, NoEffect, MustInstantiate, Request, Abort,
                Advance
  <1>4. CASE ResolveLiteral
    BY <1>4 DEF ResolveLiteral
  <1>5. CASE ResolveCall
    BY <1>5 DEF ResolveCall
  <1>6. CASE ResolveUnary \/ ResolveArith \/ ResolveComparison
    BY <1>6 DEF ResolveUnary, ResolveArith, ResolveComparison
  <1>7. CASE ResolveAssign
    BY <1>7 DEF ResolveAssign, NoEffect, Abort
  <1>8. CASE ResolveCondition
    BY <1>8 DEF ResolveCondition
  <1>9. CASE PassBy
    BY <1>9 DEF PassBy, NoEffect
  <1> QED
    BY <1>1, <1>2, <1>3, <1>4, <1>5, <1>6, <1>7, <1>8, <1>9 DEF Visit

\* A pass over types leaves no specifier behind that it has neither resolved
\* nor asked for nor counted.
LEMMA SpecIsSeen ==
  ASSUME TypeInv, Visit, pass = "type", at \in Tree, Node.kind = "spec"
  PROVE  at \in typed' \cup requests' \/ (Undefined(at) /\ count' > 0)
PROOF
  <1>1. ResolveSpec
    BY ActionOfKind
  <1> QED
    BY <1>1 DEF ResolveSpec, NoEffect, Miss, Request, Undefined, Node, TypeInv

\* The visitor stops at a variable that is declared, whose specifier has no
\* type; at a call of what is no function; and at an assignment that does not
\* fit.
LEMMA AbortHasPlace ==
  ASSUME TypeInv, Visit, pc' = "done"
  PROVE  \/ /\ pass = "symbol" /\ at \in Tree /\ Node.kind = "name"
            /\ ~(Node.uses \subseteq typed)
         \/ Node.kind = "callee" /\ Node.type # "function" /\ Node.uses \subseteq typed
         \/ /\ Node.kind = "assign" /\ Node.uses \subseteq typed
            /\ NotImplemented(at) \/ NoSpecifier(at)
PROOF
  <1>1. ResolveName \/ ResolveCallee \/ ResolveAssign
    BY VisitFacts
  <1>2. pc = "visit"
    BY VisitFacts
  <1>3. CASE ResolveName
    BY <1>2, <1>3 DEF ResolveName, At, Advance
  <1>4. CASE ResolveCallee
    BY <1>2, <1>4 DEF ResolveCallee, At, Advance
  <1>5. CASE ResolveAssign
    BY <1>2, <1>5 DEF ResolveAssign, At, Advance
  <1> QED
    BY <1>1, <1>3, <1>4, <1>5

\* In a pass over symbols a variable has a specifier in the tree, and when
\* that has no type a pass over types has seen that it is undefined, or it is
\* in an instance of a class.
LEMMA NameHasSpec ==
  ASSUME TypeInv, SpecsInv, pc = "visit", pass = "symbol",
         at \in Tree, Node.kind = "name",
         NEW u \in Node.uses
  PROVE  /\ u \in Tree /\ program[u].kind = "spec"
         /\ u \in typed \/ Undefined(u) \/ InClass(u)
         /\ InClass(u) => InClass(at)
PROOF
  <1>1. /\ u \in Nodes /\ at \in Nodes
        /\ program[u].kind = "spec" /\ program[u].of \in {Text, program[at].of}
    BY Shape DEF Tree, Node
  <1>2. u \in Tree
    BY <1>1 DEF Tree
  <1>3. InClass(u) => InClass(at)
    BY <1>1, TextIsNoInstance DEF InClass
  <1> QED
    BY <1>1, <1>2, <1>3 DEF SpecsInv

\* Where nothing has been counted or asked for, an expression finds its
\* operands with their types.
LEMMA OperandsAreTyped ==
  ASSUME TypeInv, SymbolsInv, pc = "visit", pass = "symbol", "type" \in complete,
         count = 0, requests = {},
         at \in Tree, Node.kind \in {"call", "arith", "condition"}
  PROVE  InClass(at) \/ Node.uses \subseteq typed
PROOF
  <1> SUFFICES ASSUME NEW u \in Node.uses, ~InClass(at)
               PROVE  u \in typed
    OBVIOUS
  <1>1. /\ u \in Nodes /\ u < at
        /\ program[u].kind # "condition" /\ program[u].of = program[at].of
    BY Shape DEF Tree, Node
  <1>2. u \in Tree /\ ~InClass(u)
    BY <1>1 DEF Tree, InClass
  <1> QED
    BY <1>1, <1>2 DEF SymbolsInv

\* A pass over symbols that counts nothing and asks for nothing, after one over
\* types that was complete, leaves no node unresolved behind, but in instances
\* of classes.
LEMMA NodeIsResolved ==
  ASSUME TypeInv, KnownInv, SpecsInv, SymbolsInv, Visit,
         pass = "symbol", "type" \in complete, at \in Tree,
         pc' = "visit", count' = 0, requests' = {},
         NEW n \in Nodes, n = at
  PROVE  \/ InClass(n)
         \/ Resolved(n)' /\ (Node.kind # "condition" => n \in typed')
PROOF
  <1>1. /\ pc = "visit" /\ count = 0 /\ requests = {}
        /\ program' = program /\ typed \subseteq typed' /\ bound \subseteq bound'
        /\ at \in Nodes
    BY VisitFacts DEF TypeInv
  <1>2. ASSUME Node.kind = "spec"
        PROVE  InClass(at) \/ at \in typed'
    BY <1>1, <1>2 DEF SpecsInv, Node
  <1>3. ASSUME Node.kind = "name"
        PROVE  InClass(at) \/ (at \in bound' /\ at \in typed')
    <2>1. ResolveName
      BY <1>1, <1>3, ActionOfKind
    <2>2. at \in bound'
      BY <2>1, <1>1 DEF ResolveName, Miss, Abort, NoEffect, TypeInv
    <2>3. \/ at \in typed'
          \/ \E u \in Node.uses : Undefined(u) \/ InClass(u) \/ u \notin typed
      BY <1>1, <1>3, <2>2, VisitKnows DEF KnownInv, Node
    <2>4. \A u \in Node.uses :
            /\ u \in Nodes /\ InClass(u) => InClass(at)
            /\ u \in typed => ~Undefined(u)
            /\ u \in typed \/ InClass(u)
      <3> TAKE u \in Node.uses
      <3>1. u \in Tree /\ program[u].kind = "spec" /\ (InClass(u) => InClass(at))
        BY <1>1, <1>3, NameHasSpec
      <3> QED
        BY <3>1, <1>1 DEF SpecsInv, KnownInv, Tree
    <2> QED
      BY <2>2, <2>3, <2>4, NameHasSpec, <1>1, <1>3
  <1>4. ASSUME Node.kind = "callee"
        PROVE  at \in typed'
    <2>1. ResolveCallee
      BY <1>1, <1>4, ActionOfKind
    <2>2. at \in bound'
      BY <2>1, <1>1 DEF ResolveCallee, Miss, Request, Abort, NoEffect, TypeInv
    <2> QED
      BY <2>2, <1>1, <1>4, VisitKnows DEF KnownInv, Node
  <1>5. ASSUME Node.kind = "literal"
        PROVE  at \in typed'
    BY <1>1, <1>5, ActionOfKind DEF ResolveLiteral
  <1>6. ASSUME Node.kind \in {"call", "unary", "arith", "comparison", "logical"}
        PROVE  InClass(at) \/ at \in typed'
    <2>1. CASE Node.kind = "call"
      BY <2>1, <1>1, ActionOfKind, OperandsAreTyped DEF ResolveCall, Miss
    <2>4. CASE Node.kind = "arith"
      <3>1. ResolveArith
        BY <2>4, <1>1, ActionOfKind
      <3>2. Wrong = {}
        BY <3>1, <1>1, WrongCounts DEF ResolveArith
      <3> QED
        BY <2>4, <1>1, <3>1, <3>2, OperandsAreTyped DEF ResolveArith
    <2>2. CASE Node.kind = "unary"
      BY <2>2, <1>1, ActionOfKind DEF ResolveUnary, Miss
    <2>3. CASE Node.kind \in {"comparison", "logical"}
      BY <2>3, ActionOfKind DEF ResolveComparison
    <2> QED
      BY <1>6, <2>1, <2>2, <2>3, <2>4
  <1>7. ASSUME Node.kind = "condition"
        PROVE  InClass(at) \/ Node.uses \subseteq typed'
    BY <1>1, <1>7, OperandsAreTyped
  <1>8. ASSUME Node.kind = "assign"
        PROVE  at \in bound' /\ at \in typed'
    <2>1. ResolveAssign
      BY <1>1, <1>8, ActionOfKind
    <2>2. Has(bound) /\ Has(typed)
      BY <2>1, <1>1 DEF ResolveAssign, Abort, Miss
    <2> QED
      BY <2>1, <2>2, <1>1 DEF ResolveAssign, Abort
  <1>9. Node.kind \in Kinds
    BY <1>1, Shape DEF Node
  <1>10. /\ Node.kind = "name" /\ n \in bound' => Resolved(n)'
         /\ Node.kind = "assign" /\ n \in typed' /\ n \in bound' => Resolved(n)'
         /\ Node.kind = "condition" /\ Node.uses \subseteq typed' => Resolved(n)'
         /\ Node.kind \in {"spec", "callee", "literal", "call", "unary", "arith",
                          "comparison", "logical"} =>
              (n \in typed' => Resolved(n)')
    BY <1>1 DEF Resolved, Node
  <1> QED
    BY <1>2, <1>3, <1>4, <1>5, <1>6, <1>7, <1>8, <1>9, <1>10 DEF Kinds

-------------------------------------------------------------------------------
(* The invariant *)

\* A step of the stage that ends no pass leaves the tree and what is known.
Move ==
  \/ ResolveTypes \/ ResolveSymbols \/ Settle \/ Finish \/ UNCHANGED vars

LEMMA MoveFacts ==
  ASSUME Move
  PROVE  /\ UNCHANGED <<program, made, typed, bound>>
         /\ pc' = pc \/ pc # "visit"
         /\ pc' = "visit" /\ pc # "visit" => at' = 1 /\ requests' = {} /\ count' = 0
PROOF
  BY DEF Move, ResolveTypes, ResolveSymbols, Round, Settle, Finish, vars, tree,
         visit, stage

LEMMA NextCases ==
  ASSUME [Next]_vars
  PROVE  Visit \/ EndPass \/ Move
PROOF
  BY DEF Next, Visit, Move

\* What the end of a pass asks for is in the tree and of the kind of the pass.
LEMMA EndFacts ==
  ASSUME TypeInv, EndPass
  PROVE  /\ pc = "visit" /\ pc' \in {"symbols", "settle"}
         /\ \A n \in Nodes : n < at
         /\ program' = program /\ made \subseteq made'
         /\ requests = {} => made' = made
         /\ requests \subseteq Tree
PROOF
  <1>1. at > Len(program) /\ at \in Nat
    BY DEF EndPass, TypeInv
  <1>2. \A n \in Nodes : n < at
    BY <1>1, Shape
  <1>3. requests = {} => Instances = {}
    BY DEF Instances
  <1> QED
    BY <1>2, <1>3 DEF EndPass, TypeInv

LEMMA InitHolds ==
  ASSUME Init
  PROVE  IInv
PROOF
  <1>1. TypeInv
    BY DEF Init, TypeInv, Targets
  <1>2. StageInv
    BY DEF Init, StageInv, Targets
  <1>3. KnownInv /\ SpecsInv /\ SymbolsInv
    BY DEF Init, KnownInv, SpecsInv, SymbolsInv, Targets
  <1>4. AbortHasCulprit
    BY DEF Init, AbortHasCulprit
  <1> QED
    BY <1>1, <1>2, <1>3, <1>4 DEF IInv

LEMMA TypeStep ==
  ASSUME TypeInv, [Next]_vars
  PROVE  TypeInv'
PROOF
  <1>1. CASE Visit
    <2>1. /\ pc = "visit" /\ program' = program /\ made' = made /\ pass' = pass
          /\ complete' = complete /\ count' \in Nat
          /\ requests' \subseteq requests \cup {at}
          /\ pc' \in {"visit", "done"} /\ at' \in {at, at + 1}
      BY <1>1, VisitFacts
    <2>2. \A n \in requests' :
            /\ n \in Tree
            /\ program[n].outcome = "template"
            /\ program[n].kind = IF pass = "type" THEN "spec" ELSE "callee"
      BY <1>1, <2>1, VisitAsks DEF TypeInv, Node
    <2> QED
      BY <2>1, <2>2, TreeStays DEF TypeInv
  <1>2. CASE EndPass
    <2>1. UNCHANGED <<program, pass, at, count>> /\ pc' \in {"symbols", "settle"}
      BY <1>2 DEF EndPass
    <2>2. complete' \subseteq Targets
      BY <1>2 DEF EndPass, TypeInv
    <2> QED
      BY <2>1, <2>2 DEF TypeInv
  <1>3. CASE Move
    <2>1. UNCHANGED <<program, made>>
      BY <1>3, MoveFacts
    <2>2. /\ pc' \in {"types", "symbols", "visit", "settle", "done"}
          /\ at' \in Nat \ {0} /\ count' \in Nat
      BY <1>3 DEF Move, ResolveTypes, ResolveSymbols, Round, Settle, Finish,
         vars, visit, TypeInv
    <2>3. pass' \in Targets /\ complete' \subseteq Targets
      BY <1>3 DEF Move, ResolveTypes, ResolveSymbols, Round, Settle, Finish,
         Coupled, vars, visit, stage, TypeInv, Targets
    <2>4. pc' = "visit" =>
            requests' = {} \/ (pc = "visit" /\ UNCHANGED <<pass, requests>>)
      BY <1>3 DEF Move, ResolveTypes, ResolveSymbols, Round, Settle, Finish,
         vars, visit
    <2> QED
      BY <2>1, <2>2, <2>3, <2>4, TreeStays DEF TypeInv
  <1> QED
    BY <1>1, <1>2, <1>3, NextCases

LEMMA StageStep ==
  ASSUME TypeInv, StageInv, [Next]_vars
  PROVE  StageInv'
PROOF
  <1>1. CASE Visit
    BY <1>1, VisitFacts DEF StageInv, Targets, stage
  <1>2. CASE EndPass
    <2>1. /\ pc = "visit" /\ pass \in Targets
          /\ pc' = IF pass = "type" THEN "symbols" ELSE "settle"
          /\ summary' = summary /\ result' = result
          /\ summary => complete' = complete
      BY <1>2 DEF EndPass, TypeInv
    <2>2. pass = "type" => complete' \in {{}, {"type"}}
      BY <1>2, <2>1 DEF EndPass, StageInv, Targets
    <2> QED
      BY <2>1, <2>2 DEF StageInv, Targets
  <1>3. CASE Move
    <2>1. CASE ResolveTypes
      BY <2>1 DEF ResolveTypes, Round, stage, StageInv, Targets
    <2>2. CASE ResolveSymbols
      BY <2>2 DEF ResolveSymbols, Round, stage, StageInv, Targets
    <2>3. CASE Settle
      BY <2>3 DEF Settle, Coupled, StageInv, Targets
    <2>4. CASE Finish
      BY <2>4 DEF Finish, StageInv, Targets
    <2>5. CASE UNCHANGED vars
      BY <2>5 DEF vars, visit, stage, StageInv
    <2> QED
      BY <1>3, <2>1, <2>2, <2>3, <2>4, <2>5 DEF Move
  <1> QED
    BY <1>1, <1>2, <1>3, NextCases

LEMMA KnownStep ==
  ASSUME TypeInv, KnownInv, SpecsInv, [Next]_vars
  PROVE  KnownInv'
PROOF
  <1>1. CASE Visit
    <2>1. /\ pc = "visit" /\ at \in Nodes
          /\ program' = program /\ made' = made
          /\ typed \subseteq typed' /\ typed' \subseteq typed \cup {at}
          /\ bound' \subseteq bound \cup {at}
      BY <1>1, VisitFacts
    <2>2. SUFFICES ASSUME NEW n \in Nodes
          PROVE  /\ program[n].kind = "spec" /\ n \in typed' => ~Undefined(n)
                 /\ program[n].kind = "callee" /\ n \in bound' => n \in typed'
                 /\ program[n].kind = "name" /\ n \in bound' =>
                      \/ n \in typed'
                      \/ \E u \in program[n].uses : Undefined(u) \/ InClass(u)
      BY <2>1, TreeStays DEF KnownInv, Undefined, Nodes
    <2>3. CASE n # at
      BY <2>1, <2>3 DEF KnownInv
    <2>4. CASE n = at
      <3>1. /\ program[n].kind = "spec" /\ n \in typed' => ~Undefined(n)
            /\ program[n].kind = "callee" /\ n \in bound' => n \in typed'
        BY <1>1, <2>1, <2>4, VisitKnows DEF KnownInv, Node
      <3>2. ASSUME program[n].kind = "name", n \in bound', n \notin typed'
            PROVE  \E u \in program[n].uses : Undefined(u) \/ InClass(u)
        <4>1. CASE n \in bound
          BY <2>1, <3>2, <4>1 DEF KnownInv
        <4>2. CASE n \notin bound
          <5>1. pass = "symbol" /\ at \in Tree /\ ~(Node.uses \subseteq typed)
            BY <1>1, <2>4, <3>2, <4>2, VisitKnows DEF Node
          <5> QED
            BY <2>1, <2>4, <3>2, <5>1, NameHasSpec DEF Node
        <4> QED
          BY <4>1, <4>2
      <3> QED
        BY <3>1, <3>2
    <2> QED
      BY <2>3, <2>4
  <1>2. CASE EndPass
    <2>1. /\ program' = program /\ made \subseteq made'
          /\ requests \subseteq Tree
          /\ typed' = typed \cup requests
          /\ bound' = bound \cup {n \in requests : program[n].kind = "callee"}
          /\ \A n \in requests : program[n].outcome = "template"
      BY <1>2, EndFacts DEF EndPass, TypeInv
    <2>2. SUFFICES ASSUME NEW n \in Nodes
          PROVE  /\ program[n].kind = "spec" /\ n \in typed' => ~Undefined(n)
                 /\ program[n].kind = "callee" /\ n \in bound' => n \in typed'
                 /\ program[n].kind = "name" /\ n \in bound' =>
                      \/ n \in typed'
                      \/ \E u \in program[n].uses : Undefined(u) \/ InClass(u)
      BY <2>1, TreeGrows DEF KnownInv, Undefined, Nodes
    <2> QED
      BY <2>1 DEF KnownInv, Undefined
  <1>3. CASE Move
    BY <1>3, MoveFacts, TreeStays DEF KnownInv, Undefined, Nodes
  <1> QED
    BY <1>1, <1>2, <1>3, NextCases

LEMMA SpecsStep ==
  ASSUME TypeInv, StageInv, SpecsInv, [Next]_vars
  PROVE  SpecsInv'
PROOF
  <1>1. CASE Visit
    <2>1. /\ pc = "visit" /\ at \in Nodes
          /\ UNCHANGED <<program, made, pass, complete>>
          /\ typed \subseteq typed' /\ requests \subseteq requests'
          /\ count' >= count /\ count \in Nat /\ count' \in Nat
          /\ (pc' = "visit" /\ at' = at + 1) \/ pc' = "done"
      BY <1>1, VisitFacts DEF TypeInv
    <2>2. SUFFICES ASSUME NEW n \in Tree, program[n].kind = "spec"
          PROVE  /\ pc' = "visit" /\ pass = "type" /\ n < at' =>
                      n \in typed' \cup requests' \/ (Undefined(n) /\ count' > 0)
                 /\ pc' = "visit" /\ pass = "symbol" =>
                      n \in typed' \/ Undefined(n) \/ InClass(n)
                 /\ "type" \in complete => n \in typed' \/ InClass(n)
      BY <2>1, TreeStays DEF SpecsInv, Undefined
    <2>3. n \in Nodes /\ Nodes \subseteq Nat
      BY Shape DEF Tree
    <2>4. ASSUME pc' = "visit", pass = "type", n < at'
          PROVE  n \in typed' \cup requests' \/ (Undefined(n) /\ count' > 0)
      <3>1. CASE n < at
        BY <2>1, <2>2, <2>4, <3>1 DEF SpecsInv
      <3>2. CASE n = at
        BY <1>1, <2>2, <2>4, <3>2, SpecIsSeen DEF Node
      <3> QED
        BY <2>1, <2>3, <2>4, <3>1, <3>2
    <2> QED
      BY <2>1, <2>2, <2>4 DEF SpecsInv
  <1>2. CASE EndPass
    <2>1. /\ pc = "visit" /\ program' = program /\ made \subseteq made'
          /\ \A n \in Nodes : n < at
          /\ pc' \in {"symbols", "settle"}
          /\ requests = {} => made' = made
      BY <1>2, EndFacts
    <2>2. /\ made' = made \cup Instances /\ typed' = typed \cup requests
          /\ pc' = "symbols" => pass = "type"
          /\ pass \in Targets
      BY <1>2 DEF EndPass, TypeInv
    <2>3. "type" \in complete' => IF pass = "type"
                                  THEN count = 0
                                  ELSE "type" \in complete /\ requests = {}
      <3>1. CASE summary
        <4>1. complete' = {}
          BY <1>2, <2>1, <2>2, <3>1 DEF EndPass, StageInv, Targets
        <4> QED
          BY <4>1
      <3>2. CASE ~summary
        BY <1>2, <2>2, <3>2 DEF EndPass, Targets
      <3> QED
        BY <3>1, <3>2
    <2>4. SUFFICES ASSUME NEW n \in Tree', program[n].kind = "spec"
          PROVE  /\ pc' = "symbols" => n \in typed' \/ Undefined(n) \/ InClass(n)'
                 /\ "type" \in complete' => n \in typed' \/ InClass(n)'
      BY <2>1 DEF SpecsInv, Undefined
    <2>5. CASE n \in Tree
      <3>1. n \in Nodes /\ (InClass(n) => InClass(n)')
        BY <2>1, <2>5, TreeGrows DEF Tree
      <3>2. pass = "type" => n \in typed' \/ (Undefined(n) /\ count > 0)
        BY <2>1, <2>2, <2>4, <2>5, <3>1 DEF SpecsInv
      <3>3. "type" \in complete => n \in typed' \/ InClass(n)'
        BY <2>2, <2>4, <2>5, <3>1 DEF SpecsInv
      <3> QED
        BY <2>2, <2>3, <3>2, <3>3
    <2>6. CASE n \notin Tree
      <3>1. n \in Nodes /\ program[n].of \in Instances
        BY <2>1, <2>2, <2>4, <2>6 DEF Tree, Nodes
      <3>2. requests # {}
        BY <3>1 DEF Instances
      <3>3. ASSUME pass = "type"
            PROVE  InClass(n)'
        <4>1. PICK m \in requests : program[n].of = program[m].makes
          BY <3>1 DEF Instances
        <4>2. m \in Tree /\ program[m].kind = "spec"
              /\ program[m].outcome = "template"
          BY <2>1, <3>3, <4>1 DEF TypeInv
        <4>3. program[n].of \in ClassInstances
          BY <4>1, <4>2 DEF ClassInstances
        <4> QED
          BY <2>1, <4>3, TreeGrows DEF InClass
      <3> QED
        BY <2>2, <2>3, <3>2, <3>3
    <2> QED
      BY <2>5, <2>6
  <1>3. CASE Move
    <2>1. /\ UNCHANGED <<program, made, typed>>
          /\ pc' = "visit" /\ pc # "visit" => at' = 1
      BY <1>3, MoveFacts
    <2>2. /\ pc' = "visit" /\ pc = "visit" =>
               UNCHANGED <<pass, at, requests, count>>
          /\ pc' = "symbols" => pc = "symbols" \/ "type" \in complete
          /\ pc' = "visit" /\ pass' = "symbol" =>
               pc = "symbols" \/ (pc = "visit" /\ pass = "symbol")
          /\ "type" \in complete' => "type" \in complete
      BY <1>3 DEF Move, ResolveTypes, ResolveSymbols, Round, Settle, Finish,
         Coupled, vars, visit, stage, Targets
    <2>3. Tree \subseteq Nat \ {0}
      BY Shape DEF Tree
    <2>4. SUFFICES ASSUME NEW n \in Tree, program[n].kind = "spec"
          PROVE  /\ pc' = "visit" /\ pass' = "type" /\ n < at' =>
                      n \in typed \cup requests' \/ (Undefined(n) /\ count' > 0)
                 /\ pc' = "symbols" \/ (pc' = "visit" /\ pass' = "symbol") =>
                      n \in typed \/ Undefined(n) \/ InClass(n)
                 /\ "type" \in complete' => n \in typed \/ InClass(n)
      BY <2>1, TreeStays DEF SpecsInv, Undefined
    <2>5. "type" \in complete => n \in typed \/ InClass(n)
      BY <2>4 DEF SpecsInv
    <2>6. pc = "symbols" \/ (pc = "visit" /\ pass = "symbol") =>
            n \in typed \/ Undefined(n) \/ InClass(n)
      BY <2>4 DEF SpecsInv
    <2>7. ASSUME pc' = "visit", pass' = "type", n < at'
          PROVE  n \in typed \cup requests' \/ (Undefined(n) /\ count' > 0)
      <3>1. pc = "visit"
        BY <2>1, <2>3, <2>4, <2>7
      <3> QED
        BY <2>2, <2>4, <2>7, <3>1 DEF SpecsInv
    <2> QED
      BY <2>2, <2>5, <2>6, <2>7
  <1> QED
    BY <1>1, <1>2, <1>3, NextCases

LEMMA SymbolsStep ==
  ASSUME TypeInv, StageInv, KnownInv, SpecsInv, SymbolsInv, [Next]_vars
  PROVE  SymbolsInv'
PROOF
  <1>1. CASE Visit
    <2>1. /\ pc = "visit" /\ at \in Nodes
          /\ UNCHANGED <<program, made, pass, complete>>
          /\ typed \subseteq typed' /\ bound \subseteq bound'
          /\ requests \subseteq requests'
          /\ count' >= count /\ count \in Nat /\ count' \in Nat
          /\ (pc' = "visit" /\ at' = at + 1) \/ pc' = "done"
      BY <1>1, VisitFacts DEF TypeInv
    <2>2. complete' # Targets
      BY <2>1 DEF StageInv, TypeInv, Targets
    <2>3. SUFFICES ASSUME NEW n \in Tree,
                          pc' = "visit", pass = "symbol", "type" \in complete,
                          count' = 0, requests' = {}, n < at'
          PROVE  \/ InClass(n)
                 \/ Resolved(n)' /\ (program[n].kind # "condition" => n \in typed')
      BY <2>1, <2>2, TreeStays DEF SymbolsInv
    <2>4. n \in Nodes /\ Nodes \subseteq Nat
      BY Shape DEF Tree
    <2>5. CASE n < at
      <3>1. \/ InClass(n)
            \/ Resolved(n) /\ (program[n].kind # "condition" => n \in typed)
        BY <2>1, <2>3, <2>5 DEF SymbolsInv
      <3>2. Resolved(n) => Resolved(n)'
        BY <2>1 DEF Resolved
      <3> QED
        BY <2>1, <3>1, <3>2
    <2>6. CASE n = at
      BY <1>1, <2>3, <2>4, <2>6, NodeIsResolved DEF Node
    <2> QED
      BY <2>1, <2>3, <2>4, <2>5, <2>6
  <1>2. CASE EndPass
    <2>1. /\ pc = "visit" /\ pc' # "visit" /\ program' = program
          /\ \A n \in Nodes : n < at
          /\ requests = {} => made' = made
          /\ typed \subseteq typed' /\ bound \subseteq bound'
      BY <1>2, EndFacts DEF EndPass
    <2>2. SUFFICES ASSUME complete' = Targets, NEW n \in Tree'
          PROVE  InClass(n)' \/ Resolved(n)'
      BY <2>1 DEF SymbolsInv
    <2>3. complete # Targets
      BY <2>1 DEF StageInv, TypeInv, Targets
    <2>4. ~summary
      BY <1>2, <2>2, <2>3 DEF EndPass
    <2>5. pass = "symbol"
      BY <1>2, <2>1, <2>2, <2>4 DEF EndPass, StageInv, TypeInv, Targets
    <2>6. count = 0 /\ requests = {} /\ "type" \in complete
      BY <1>2, <2>2, <2>4, <2>5 DEF EndPass, Targets
    <2>7. n \in Tree /\ (InClass(n) => InClass(n)')
      BY <2>1, <2>2, <2>6, TreeStays
    <2>8. InClass(n) \/ Resolved(n)
      BY <2>1, <2>5, <2>6, <2>7 DEF SymbolsInv, Tree
    <2>9. Resolved(n) => Resolved(n)'
      BY <2>1 DEF Resolved
    <2> QED
      BY <2>7, <2>8, <2>9
  <1>3. CASE Move
    <2>1. /\ UNCHANGED <<program, made, typed, bound>>
          /\ pc' = "visit" /\ pc # "visit" => at' = 1
      BY <1>3, MoveFacts
    <2>2. /\ pc' = "visit" /\ pc = "visit" =>
               UNCHANGED <<pass, at, requests, count, complete>>
          /\ complete' = Targets => complete = Targets
      BY <1>3 DEF Move, ResolveTypes, ResolveSymbols, Round, Settle, Finish,
         Coupled, vars, visit, stage, Targets
    <2>3. Tree \subseteq Nat \ {0}
      BY Shape DEF Tree
    <2>4. \A n : Resolved(n)' = Resolved(n)
      BY <2>1 DEF Resolved
    <2>5. SUFFICES ASSUME NEW n \in Tree
          PROVE  /\ /\ pc' = "visit" /\ pass' = "symbol" /\ "type" \in complete'
                    /\ count' = 0 /\ requests' = {} /\ n < at'
                    => \/ InClass(n)
                       \/ /\ Resolved(n)
                          /\ program[n].kind # "condition" => n \in typed
                 /\ complete' = Targets => InClass(n) \/ Resolved(n)
      BY <2>1, <2>4, TreeStays DEF SymbolsInv
    <2>6. ASSUME pc' = "visit", n < at'
          PROVE  pc = "visit"
      BY <2>1, <2>3, <2>5, <2>6
    <2> QED
      BY <2>2, <2>5, <2>6 DEF SymbolsInv
  <1> QED
    BY <1>1, <1>2, <1>3, NextCases

LEMMA AbortStep ==
  ASSUME TypeInv, StageInv, SpecsInv, AbortHasCulprit, [Next]_vars
  PROVE  AbortHasCulprit'
PROOF
  <1> DEFINE
        Blame == \E u \in Node.uses : Undefined(u) \/ InClass(u)
        Known == Node.uses \subseteq typed
        Misfit == NotImplemented(at) \/ NoSpecifier(at)
        Culprit == \/ Node.kind = "name" /\ Blame
                   \/ Node.kind = "callee" /\ Node.type # "function" /\ Known
                   \/ Node.kind = "assign" /\ Known /\ Misfit
  <1>1. AbortHasCulprit <=> (result = "aborted" => Culprit)
    BY DEF AbortHasCulprit, Undefined, InClass
  <1>2. AbortHasCulprit' <=> (result' = "aborted" => Culprit')
    BY DEF AbortHasCulprit, Undefined, InClass
  <1>3. ASSUME UNCHANGED <<program, made, at>>, typed \subseteq typed', Culprit
        PROVE  Culprit'
    <2>1. Node' = Node
      BY <1>3 DEF Node
    <2>2. Blame => Blame'
      BY <1>3, <2>1, TreeStays DEF Undefined
    <2>3. Misfit' = Misfit
      BY <1>3 DEF NotImplemented, NoSpecifier, TypeOf, LeftOf, RightOf
    <2> QED
      BY <1>3, <2>1, <2>2, <2>3
  <1>4. CASE Visit
    <2> SUFFICES ASSUME result' = "aborted"
                 PROVE  Culprit'
      BY <1>2
    <2>1. /\ UNCHANGED <<program, made>> /\ pc = "visit"
          /\ typed \subseteq typed' /\ pc' = "done" /\ at' = at
      BY <1>4, VisitFacts DEF StageInv, stage
    <2>2. Culprit
      BY <1>4, <2>1, AbortHasPlace, NameHasSpec
    <2> QED
      BY <2>1, <2>2, <1>3
  <1>5. CASE EndPass
    BY <1>5, EndFacts DEF EndPass, StageInv, AbortHasCulprit
  <1>6. CASE Move
    <2> SUFFICES ASSUME result' = "aborted"
                 PROVE  Culprit'
      BY <1>2
    <2>1. UNCHANGED vars
      BY <1>6 DEF Move, ResolveTypes, ResolveSymbols, Round, Settle, Finish,
         stage, StageInv
    <2>2. UNCHANGED <<program, made, typed, at, result>>
      BY <2>1 DEF vars, tree, visit, stage
    <2>3. Culprit
      BY <1>1, <2>2
    <2> QED
      BY <2>2, <2>3, <1>3
  <1> QED
    BY <1>4, <1>5, <1>6, NextCases

-------------------------------------------------------------------------------
(* Shallow programs *)

\* An expression of a shallow program has nothing wrong with it.
LEMMA NothingIsWrong ==
  ASSUME Shallow, at \in Nodes, Node.kind = "arith"
  PROVE  Wrong = {} /\ Cardinality(Wrong) = 0
PROOF
  <1>1. Wrong = {}
    BY DEF Shallow, Fits, Wrong, Node
  <1> QED
    BY <1>1, FS_EmptySet

\* A visit raises the count by two at most.
LEMMA VisitCounts ==
  ASSUME TypeInv, Shallow, Visit
  PROVE  count' <= count + 2
PROOF
  <1> USE DEF TypeInv
  <1>1. CASE ResolveSpec
    BY <1>1 DEF ResolveSpec, NoEffect, Silent, Miss
  <1>2. CASE ResolveName
    BY <1>2 DEF ResolveName, NoEffect, Silent, Miss, Abort
  <1>3. CASE ResolveCallee
    BY <1>3 DEF ResolveCallee, NoEffect, Silent, Miss, Abort
  <1>4. CASE ResolveLiteral \/ ResolveComparison \/ ResolveCondition
    BY <1>4 DEF ResolveLiteral, ResolveComparison, ResolveCondition, Silent
  <1>5. CASE ResolveCall \/ ResolveUnary \/ ResolveAssign
    BY <1>5 DEF ResolveCall, ResolveUnary, ResolveAssign, NoEffect, Silent, Miss,
                Abort
  <1>6. CASE PassBy
    BY <1>6 DEF PassBy, NoEffect, Silent
  <1>7. CASE ResolveArith
    <2>1. Cardinality(Wrong) = 0
      BY <1>7, NothingIsWrong DEF ResolveArith, At, Tree
    <2> QED
      BY <1>7, <2>1 DEF ResolveArith
  <1> QED
    BY <1>1, <1>2, <1>3, <1>4, <1>5, <1>6, <1>7 DEF Visit

\* The first pass over symbols resolves the variables, the literals and the
\* assignments of a shallow program's text.
LEMMA TextIsReady ==
  ASSUME TypeInv, KnownInv, SpecsInv, Shallow, Visit,
         pass = "symbol", pc' = "visit", Node.of = Text,
         \A n \in Nodes : n < at /\ program[n].of = Text => Ready(n)
  PROVE  /\ Node.kind \in {"literal", "name", "assign"} => at \in typed'
         /\ Node.kind \in {"name", "assign"} => at \in bound'
PROOF
  <1>1. /\ pc = "visit" /\ at \in Nodes /\ at \in Tree
        /\ typed \subseteq typed' /\ bound \subseteq bound'
    BY VisitFacts DEF Tree, Node
  <1>2. ASSUME Node.kind = "literal"
        PROVE  at \in typed'
    BY <1>1, <1>2, ActionOfKind DEF ResolveLiteral
  <1>3. ASSUME Node.kind = "name"
        PROVE  at \in typed' /\ at \in bound'
    <2>1. ResolveName
      BY <1>1, <1>3, ActionOfKind
    <2>2. at \in bound'
      BY <2>1, <1>1 DEF ResolveName, Abort, NoEffect, Shallow, Node
    <2>3. \A u \in Node.uses : u \in typed /\ ~Undefined(u) /\ ~InClass(u)
      <3> TAKE u \in Node.uses
      <3>1. /\ u \in Tree /\ u \in Nodes
            /\ u \in typed \/ Undefined(u) \/ InClass(u)
            /\ InClass(u) => InClass(at)
        BY <1>1, <1>3, NameHasSpec DEF Tree
      <3>2. ~InClass(at)
        BY TextIsNoInstance DEF InClass, Node
      <3>3. ~Undefined(u)
        BY <3>1 DEF Shallow, Undefined
      <3> QED
        BY <3>1, <3>2, <3>3
    <2>4. at \in typed'
      BY <1>1, <1>3, <2>2, <2>3, VisitKnows DEF KnownInv, Node
    <2> QED
      BY <2>2, <2>4
  <1>4. ASSUME Node.kind = "assign"
        PROVE  at \in typed' /\ at \in bound'
    <2>1. ResolveAssign
      BY <1>1, <1>4, ActionOfKind
    <2> DEFINE l == LeftOf(at)
    <2> HIDE DEF l
    <2>2. l \in Node.uses /\ program[l].kind = "name"
      BY <1>1, <1>4 DEF Shallow, Node, l
    <2>3. l \in Nodes /\ l < at /\ program[l].of = Text
      BY <1>1, <1>4, <2>2, Shape DEF Node
    <2>4. l \in typed /\ l \in bound
      BY <2>2, <2>3 DEF Ready
    <2>5. Has(typed) /\ Has(bound)
      BY <2>4 DEF Has, l
    <2> QED
      BY <2>1, <2>5, <1>1 DEF ResolveAssign, Abort
  <1> QED
    BY <1>2, <1>3, <1>4

\* The operands that are asked for are literals and variables of the text.
LEMMA OperandsAreReady ==
  ASSUME TypeInv, Shallow, at \in Nodes, Node.kind \in {"callee", "unary"},
         \A n \in Nodes : program[n].of = Text => Ready(n)
  PROVE  Node.uses \subseteq typed
PROOF
  <1> SUFFICES ASSUME NEW u \in Node.uses
               PROVE  u \in typed
    OBVIOUS
  <1>1. Node.of = Text /\ program[u].kind \in {"literal", "name"}
    BY DEF Shallow, Node
  <1>2. u \in Nodes /\ program[u].of = Text
    BY <1>1, Shape DEF Node
  <1> QED
    BY <1>1, <1>2 DEF Ready

\* When the text is ready, a pass over a shallow program counts nothing.
LEMMA NothingIsMissed ==
  ASSUME TypeInv, Shallow, Visit, count = 0,
         \A n \in Nodes : program[n].of = Text => Ready(n)
  PROVE  count' = 0
PROOF
  <1>1. at \in Nodes /\ Node.outcome # "undefined"
    BY VisitFacts DEF Shallow, Node
  <1>2. CASE ResolveSpec
    BY <1>1, <1>2 DEF ResolveSpec, NoEffect, Silent
  <1>3. CASE ResolveName
    BY <1>1, <1>3 DEF ResolveName, NoEffect, Silent, Abort
  <1>4. CASE ResolveCallee
    <2>1. Node.kind = "callee"
      BY <1>4 DEF ResolveCallee, At
    <2>2. Node.uses \subseteq typed
      BY <1>1, <2>1, OperandsAreReady
    <2> QED
      BY <1>1, <1>4, <2>2 DEF ResolveCallee, NoEffect, Silent, Abort
  <1>5. CASE ResolveLiteral \/ ResolveComparison \/ ResolveCondition
    BY <1>5 DEF ResolveLiteral, ResolveComparison, ResolveCondition, Silent
  <1>9. CASE ResolveCall
    <2>1. Callable(at)
      BY <1>1, <1>9 DEF ResolveCall, At, Shallow, Fits, Node
    <2> QED
      BY <1>9, <2>1 DEF ResolveCall, Miss
  <1>10. CASE ResolveArith
    <2>1. Cardinality(Wrong) = 0
      BY <1>1, <1>10, NothingIsWrong DEF ResolveArith, At
    <2> QED
      BY <1>10, <2>1 DEF ResolveArith
  <1>6. CASE ResolveAssign
    <2>1. Node.kind = "assign"
      BY <1>6 DEF ResolveAssign, At
    <2>2. Node.of = Text
      BY <1>1, <2>1 DEF Shallow, Node
    <2>3. at \in typed /\ at \in bound
      BY <1>1, <2>1, <2>2 DEF Ready, Node
    <2>4. Has(typed) /\ Has(bound)
      BY <2>3 DEF Has
    <2> QED
      BY <1>6, <2>4 DEF ResolveAssign, NoEffect, Silent, Abort, Miss
  <1>7. CASE ResolveUnary
    <2>1. Node.uses \subseteq typed
      BY <1>1, <1>7, OperandsAreReady DEF ResolveUnary, At
    <2> QED
      BY <1>7, <2>1 DEF ResolveUnary, Miss
  <1>8. CASE PassBy
    BY <1>8 DEF PassBy, NoEffect, Silent
  <1> QED
    BY <1>2, <1>3, <1>4, <1>5, <1>6, <1>7, <1>8, <1>9, <1>10 DEF Visit

LEMMA EarlyStep ==
  ASSUME TypeInv, StageInv, Shallow, Early, [Next]_vars
  PROVE  Early' \/ FirstSymbols' \/ result' = "aborted"
PROOF
  <1> Len(program) \in Nat /\ Nodes = 1..Len(program) /\ at \in Nat /\ count \in Nat
    BY Shape DEF TypeInv
  <1>1. CASE Visit
    <2> SUFFICES ASSUME pc' = "visit"
                 PROVE  Early'
      BY <1>1, VisitFacts
    <2>1. /\ pc = "visit" /\ at \in Nodes /\ pass = "type"
          /\ UNCHANGED <<program, pass, complete, summary>>
          /\ count' \in Nat
      BY <1>1, VisitFacts DEF Early
    <2>2. pc' = "visit" /\ at' = at + 1
      BY <1>1, VisitFacts
    <2>3. UNCHANGED <<total, progress>>
      BY <1>1, <2>2, VisitFacts DEF stage
    <2>4. count <= 2 * (at - 1) /\ count' <= count + 2
      BY <1>1, <2>1, VisitCounts DEF Early
    <2>5. count' <= 2 * (at' - 1) /\ at' <= Len(program) + 1
      BY <2>1, <2>2, <2>4
    <2> QED
      BY <2>1, <2>2, <2>3, <2>5 DEF Early
  <1>2. CASE EndPass
    <2>1. /\ pass = "type" /\ ~summary /\ complete = {} /\ total = 2 * Len(program) + 1
          /\ at <= Len(program) + 1 /\ count <= 2 * (at - 1)
      BY <1>2 DEF EndPass, Early
    <2>2. count < total
      BY <2>1
    <2>3. "type" \in progress'
      BY <1>2, <2>1, <2>2 DEF EndPass, Progressed
    <2>4. complete' \subseteq {"type"}
      BY <1>2, <2>1 DEF EndPass, Targets
    <2>5. ~summary' /\ pc' = "symbols"
      BY <1>2, <2>1 DEF EndPass
    <2> QED
      BY <2>3, <2>4, <2>5 DEF FirstSymbols
  <1>3. CASE Move
    <2>1. ResolveTypes \/ UNCHANGED vars
      BY <1>3 DEF Move, ResolveSymbols, Settle, Finish, Early
    <2>2. CASE ResolveTypes
      <3>1. /\ pc' = "visit" /\ pass' = "type" /\ at' = 1 /\ count' = 0
            /\ UNCHANGED <<program, total, complete, progress, summary>>
        BY <2>2 DEF ResolveTypes, Round, tree, stage, Early
      <3> QED
        BY <3>1 DEF Early
    <2>3. CASE UNCHANGED vars
      BY <2>3 DEF vars, tree, visit, stage, Early
    <2> QED
      BY <2>1, <2>2, <2>3
  <1> QED
    BY <1>1, <1>2, <1>3, NextCases

LEMMA FirstSymbolsStep ==
  ASSUME TypeInv, StageInv, KnownInv, SpecsInv, Shallow, FirstSymbols, [Next]_vars
  PROVE  FirstSymbols' \/ Later' \/ result' = "aborted"
PROOF
  <1> "symbol" \notin complete
    BY DEF FirstSymbols
  <1>1. CASE Visit
    <2> SUFFICES ASSUME pc' = "visit"
                 PROVE  FirstSymbols'
      BY <1>1, VisitFacts
    <2>1. /\ pc = "visit" /\ at \in Nodes /\ pass = "symbol" /\ at' = at + 1
          /\ UNCHANGED <<program, pass, complete, summary>>
          /\ typed \subseteq typed' /\ bound \subseteq bound'
      BY <1>1, VisitFacts DEF FirstSymbols
    <2>2. UNCHANGED progress
      BY <1>1, VisitFacts DEF stage
    <2>3. ASSUME NEW n \in Nodes, n < at', program[n].of = Text
          PROVE  Ready(n)'
      <3>1. CASE n < at
        BY <2>1, <2>3, <3>1 DEF FirstSymbols, Ready
      <3>2. CASE n = at
        <4>1. /\ Node.kind \in {"literal", "name", "assign"} => at \in typed'
              /\ Node.kind \in {"name", "assign"} => at \in bound'
          BY <1>1, <2>1, <2>3, <3>2, TextIsReady DEF FirstSymbols, Node
        <4> QED
          BY <2>1, <3>2, <4>1 DEF Ready, Node
      <3>3. n \in Nat /\ at \in Nat
        BY <2>1, Shape
      <3> QED
        BY <2>1, <2>3, <3>1, <3>2, <3>3
    <2>4. Nodes' = Nodes
      BY <2>1 DEF Nodes
    <2> QED
      BY <2>1, <2>2, <2>3, <2>4 DEF FirstSymbols
  <1>2. CASE EndPass
    <2>1. /\ pass = "symbol" /\ ~summary /\ "type" \in progress
          /\ \A n \in Nodes : program[n].of = Text => Ready(n)
      BY <1>2, EndFacts DEF FirstSymbols
    <2>2. /\ pc' = "settle" /\ ~summary' /\ progress' # {}
          /\ program' = program /\ typed \subseteq typed' /\ bound \subseteq bound'
      BY <1>2, <2>1 DEF EndPass
    <2>3. \A n : Ready(n) => Ready(n)'
      BY <2>2 DEF Ready
    <2>4. Nodes' = Nodes
      BY <2>2 DEF Nodes
    <2> QED
      BY <2>1, <2>2, <2>3, <2>4 DEF Later
  <1>3. CASE Move
    <2>1. ResolveSymbols \/ UNCHANGED vars
      BY <1>3 DEF Move, ResolveTypes, Settle, Finish, FirstSymbols
    <2>2. CASE ResolveSymbols
      <3>1. /\ pc' = "visit" /\ pass' = "symbol" /\ at' = 1
            /\ UNCHANGED <<program, complete, progress, summary>>
        BY <2>2 DEF ResolveSymbols, Round, tree, stage
      <3>2. Nodes' = Nodes /\ \A n \in Nodes : ~(n < at')
        BY <3>1, Shape DEF Nodes
      <3> QED
        BY <3>1, <3>2 DEF FirstSymbols
    <2>3. CASE UNCHANGED vars
      BY <2>3 DEF vars, tree, visit, stage, FirstSymbols, Ready, Nodes
    <2> QED
      BY <2>1, <2>2, <2>3
  <1> QED
    BY <1>1, <1>2, <1>3, NextCases

LEMMA LaterStep ==
  ASSUME TypeInv, StageInv, Shallow, Later, result # "failed", [Next]_vars
  PROVE  Later' /\ result' # "failed"
PROOF
  <1>1. /\ program' = program /\ Nodes' = Nodes
        /\ typed \subseteq typed' /\ bound \subseteq bound'
    BY VisitFacts, MoveFacts, NextCases DEF EndPass, Nodes
  <1>2. \A n \in Nodes' : program'[n].of = Text => Ready(n)'
    BY <1>1 DEF Later, Ready
  <1>3. CASE Visit
    <2>1. /\ pc = "visit" /\ UNCHANGED <<pass, complete, summary>>
          /\ pc' \in {"visit", "done"} /\ result' \in {result, "aborted"}
      BY <1>3, VisitFacts DEF stage
    <2>2. count' = 0
      BY <1>3, <2>1, NothingIsMissed DEF Later
    <2> QED
      BY <1>2, <2>1, <2>2 DEF Later
  <1>4. CASE EndPass
    <2>1. pc = "visit" /\ count = 0 /\ ~summary /\ complete # Targets
      BY <1>4 DEF EndPass, Later, StageInv, TypeInv, Targets
    <2>2. /\ ~summary' /\ result' = result
          /\ pc' = IF pass = "type" THEN "symbols" ELSE "settle"
          /\ progress' = IF Progressed THEN progress \cup {pass} ELSE progress
          /\ complete' = {t \in Targets : IF t = pass THEN count = 0
                                          ELSE t \in complete /\ requests = {}}
      BY <1>4, <2>1 DEF EndPass
    <2>3. pass \in complete'
      BY <2>1, <2>2 DEF TypeInv
    <2>4. pass = "symbol" => progress' # {} \/ complete' = Targets
      BY <2>1, <2>2 DEF Later, Progressed, Targets
    <2> QED
      BY <1>2, <2>2, <2>3, <2>4 DEF Later, TypeInv, Targets
  <1>5. CASE Move
    <2>1. CASE ResolveTypes
      BY <1>2, <2>1 DEF ResolveTypes, Round, stage, Later, StageInv, Targets
    <2>2. CASE ResolveSymbols
      BY <1>2, <2>2 DEF ResolveSymbols, Round, stage, Later, StageInv, Targets
    <2>3. CASE Settle
      BY <1>2, <2>3 DEF Settle, Coupled, Later
    <2>4. CASE Finish
      BY <1>2, <2>4 DEF Finish, Later
    <2>5. CASE UNCHANGED vars
      BY <1>2, <2>5 DEF vars, visit, stage, Later
    <2> QED
      BY <1>5, <2>1, <2>2, <2>3, <2>4, <2>5 DEF Move
  <1> QED
    BY <1>3, <1>4, <1>5, NextCases

LEMMA ShallowStep ==
  ASSUME IInv, Shallow, ShallowInv, [Next]_vars
  PROVE  ShallowInv'
PROOF
  <1> USE DEF IInv
  <1>1. CASE result = "aborted"
    <2>1. pc = "done"
      BY <1>1 DEF StageInv
    <2>2. result' = result
      BY <2>1, NextCases, VisitFacts, EndFacts DEF Move, ResolveTypes,
         ResolveSymbols, Round, Settle, Finish, vars, stage
    <2> QED
      BY <1>1, <2>2 DEF ShallowInv
  <1>2. CASE Early \/ FirstSymbols
    <2>1. Early' \/ FirstSymbols' \/ Later' \/ result' = "aborted"
      BY <1>2, EarlyStep, FirstSymbolsStep
    <2>2. pc # "settle"
      BY <1>2 DEF Early, FirstSymbols
    <2>3. result' \in {result, "aborted"}
      BY <2>2, NextCases, VisitFacts DEF Move, ResolveTypes, ResolveSymbols,
         Round, Settle, Finish, EndPass, vars, stage
    <2> QED
      BY <2>1, <2>3 DEF ShallowInv
  <1>3. CASE Later
    BY <1>3, LaterStep DEF ShallowInv
  <1> QED
    BY <1>1, <1>2, <1>3 DEF ShallowInv

-------------------------------------------------------------------------------
(* The loop ends *)

\* What a round can still do for progress: lower the total, make an instance,
\* or insert a conversion.
Instantiable == {program[n].makes : n \in Nodes}
Todo == total + Cardinality(Instantiable \ made) + Cardinality(Nodes \ converted)

\* The rounds that are left if nothing more is done: one after a round with
\* progress, the one without, and the one that reports.
Rounds ==
  CASE pc = "done" -> 0
    [] pc # "done" /\ summary -> 1
    [] OTHER -> IF progress = {} THEN 2 ELSE 3

\* Where a round is, and where its pass is.
Position ==
  CASE pc = "types" -> 5
    [] pc = "visit" -> IF pass = "type" THEN 4 ELSE 2
    [] pc = "symbols" -> 3
    [] pc = "settle" -> 1
    [] OTHER -> 0
Unvisited == IF pc = "visit" THEN Len(program) + 1 - at ELSE 0

Distance == <<Todo, Rounds, Position, Unvisited>>
Measured == Distance \in Tuples(4)
Closer   == <<Distance', Distance>> \in Falls(4)

\* What a pass collects has not been done before.
LoopInv ==
  /\ total \in Nat /\ at \in 1..(Len(program) + 1)
  /\ pc = "visit" =>
       /\ transforms \subseteq Nodes \ converted
       /\ \A n \in requests : n \in Nodes /\ program[n].makes \notin made

LEMMA ConvertsOnce ==
  ASSUME LoopInv, pc = "visit", at \in Nodes, Convert
  PROVE  transforms' \subseteq Nodes \ converted
PROOF
  BY DEF LoopInv, Convert

\* A step of the visitor leaves what a round is measured by; what it collects
\* has not been done before.
LEMMA VisitCollects ==
  ASSUME TypeInv, LoopInv, Visit
  PROVE  /\ UNCHANGED <<program, made, converted, total, summary, progress>>
         /\ transforms' \subseteq Nodes \ converted
         /\ \A n \in requests' : n \in Nodes /\ program[n].makes \notin made
PROOF
  <1>0. pc = "visit" /\ at \in Nodes
    BY VisitFacts
  <1>1. /\ transforms \subseteq Nodes \ converted
        /\ \A n \in requests : n \in Nodes /\ program[n].makes \notin made
    BY <1>0 DEF LoopInv
  <1>2. CASE ResolveSpec
    BY <1>0, <1>1, <1>2
    DEF ResolveSpec, NoEffect, Silent, Miss, Request, MustInstantiate, Advance,
        Node, tree, stage
  <1>3. CASE ResolveName
    BY <1>0, <1>1, <1>3
    DEF ResolveName, NoEffect, Silent, Miss, Abort, Advance, tree, stage
  <1>4. CASE ResolveCallee
    BY <1>0, <1>1, <1>4
    DEF ResolveCallee, NoEffect, Silent, Miss, Request, MustInstantiate, Abort,
        Advance, Node, tree, stage
  <1>5. CASE ResolveLiteral \/ ResolveCall \/ ResolveUnary
    BY <1>0, <1>1, <1>5
    DEF ResolveLiteral, ResolveCall, ResolveUnary, Advance, tree, stage
  <1>6. CASE ResolveArith \/ ResolveComparison \/ ResolveAssign \/ ResolveCondition
    <2>1. (Convert /\ Advance /\ requests' = requests) \/ Abort
      BY <1>6 DEF ResolveArith, ResolveComparison, ResolveAssign, ResolveCondition
    <2>2. CASE Abort
      BY <2>2, <1>0, <1>1 DEF Abort, NoEffect, Silent, tree, stage
    <2> QED
      BY <2>1, <2>2, <1>0, <1>1, ConvertsOnce DEF Advance, tree, stage
  <1>7. CASE PassBy
    BY <1>0, <1>1, <1>7 DEF PassBy, NoEffect, Silent, Advance, tree, stage
  <1> QED
    BY <1>2, <1>3, <1>4, <1>5, <1>6, <1>7 DEF Visit

LEMMA LoopStep ==
  ASSUME TypeInv, LoopInv, [Next]_vars
  PROVE  LoopInv'
PROOF
  <1>0. Len(program) \in Nat /\ Nodes = 1..Len(program)
    BY Shape
  <1>1. CASE Visit
    <2>1. at \in Nodes /\ at' \in {at, at + 1}
      BY <1>1, VisitFacts
    <2>2. program' = program /\ Nodes' = Nodes
      BY <1>1, VisitCollects DEF Nodes
    <2> QED
      BY <1>0, <1>1, <2>1, <2>2, VisitCollects DEF LoopInv
  <1>2. CASE EndPass
    BY <1>2, <1>0 DEF EndPass, LoopInv, TypeInv
  <1>3. CASE Move
    <2>1. UNCHANGED <<program, made, converted, total>>
      BY <1>3 DEF Move, ResolveTypes, ResolveSymbols, Round, Settle, Finish, vars,
                  tree, visit, stage
    <2>2. \/ at' = 1 /\ requests' = {} /\ transforms' = {}
          \/ at' = at /\ UNCHANGED <<requests, transforms>> /\ (pc' = "visit" => pc = "visit")
      BY <1>3 DEF Move, ResolveTypes, ResolveSymbols, Round, Settle, Finish, vars,
                  tree, visit, stage
    <2> QED
      BY <1>0, <2>1, <2>2 DEF LoopInv, Nodes
  <1> QED
    BY <1>1, <1>2, <1>3, NextCases

LEMMA InitLoops ==
  ASSUME Init, TypeInv
  PROVE  LoopInv
PROOF
  BY Shape DEF Init, LoopInv

\* A program has finitely many nodes, and so finitely many instances to make.
LEMMA FinitelyMany ==
  ASSUME TypeInv
  PROVE  IsFiniteSet(Nodes) /\ IsFiniteSet(Instantiable)
PROOF
  <1>1. IsFiniteSet(Nodes)
    BY Shape, FS_Interval
  <1>2. [n \in Nodes |-> program[n].makes] \in Surjection(Nodes, Instantiable)
    BY DEF Instantiable, Surjection
  <1> QED
    BY <1>1, <1>2, FS_Surjection

LEMMA TodoIsNumber ==
  ASSUME TypeInv, total \in Nat
  PROVE  Todo \in Nat
PROOF
  <1>1. /\ Cardinality(Instantiable \ made) \in Nat
        /\ Cardinality(Nodes \ converted) \in Nat
    BY FinitelyMany, FewerMembers
  <1> QED
    BY <1>1 DEF Todo

LEMMA DistanceIsTuple ==
  ASSUME TypeInv, LoopInv
  PROVE  Measured
PROOF
  <1>1. Todo \in Nat
    BY TodoIsNumber DEF LoopInv
  <1>2. Rounds \in Nat /\ Position \in Nat
    BY DEF Rounds, Position
  <1>3. Unvisited \in Nat
    BY Shape DEF LoopInv, Unvisited
  <1> QED
    BY <1>1, <1>2, <1>3 DEF Measured, Distance, Tuples

\* The end of a pass leaves no more to do, and less if it has made progress.
LEMMA ProgressIsLess ==
  ASSUME TypeInv, TypeInv', LoopInv, LoopInv', EndPass
  PROVE  /\ Todo \in Nat /\ Todo' \in Nat /\ Todo' <= Todo
         /\ Progressed => Todo' < Todo
PROOF
  <1> DEFINE I == Instantiable \ made
             C == Nodes \ converted
  <1>0. /\ program' = program /\ count \in Nat /\ total \in Nat
        /\ total' = (IF count < total THEN count ELSE total)
        /\ transforms \subseteq C
        /\ \A n \in requests : n \in Nodes /\ program[n].makes \notin made
    BY DEF EndPass, TypeInv, LoopInv
  <1>1. I' = I \ Instances /\ C' = C \ transforms
    BY <1>0 DEF EndPass, Instantiable, Nodes
  <1>2. requests # {} => I' # I
    <2> SUFFICES ASSUME NEW n \in requests
                 PROVE  I' # I
      OBVIOUS
    <2>1. program[n].makes \in I /\ program[n].makes \in Instances
      BY <1>0 DEF Instances, Instantiable
    <2> QED
      BY <2>1, <1>1
  <1>3. transforms # {} => C' # C
    BY <1>0, <1>1
  <1>4. IsFiniteSet(I) /\ IsFiniteSet(C)
    BY FinitelyMany, FewerMembers
  <1>5. /\ Todo  = total + Cardinality(I) + Cardinality(C)
        /\ Todo' = total' + Cardinality(I') + Cardinality(C')
    BY DEF Todo
  <1> HIDE DEF I, C
  <1>6. /\ Cardinality(I) \in Nat /\ Cardinality(I') \in Nat
        /\ Cardinality(I') <= Cardinality(I)
        /\ requests # {} => Cardinality(I') < Cardinality(I)
    <2>1. I' \subseteq I
      BY <1>1
    <2> QED
      BY <2>1, <1>2, <1>4, FewerMembers
  <1>7. /\ Cardinality(C) \in Nat /\ Cardinality(C') \in Nat
        /\ Cardinality(C') <= Cardinality(C)
        /\ transforms # {} => Cardinality(C') < Cardinality(C)
    <2>1. C' \subseteq C
      BY <1>1
    <2> QED
      BY <2>1, <1>3, <1>4, FewerMembers
  <1> QED
    BY <1>0, <1>5, <1>6, <1>7 DEF Progressed

\* Every step is a step closer to the end.
LEMMA DistanceFalls ==
  ASSUME TypeInv, TypeInv', LoopInv, LoopInv', Measured, Measured', Next
  PROVE  Closer
PROOF
  <1>0. Distance \in Tuples(4) /\ Distance' \in Tuples(4)
    BY DEF Measured
  <1>1. /\ Distance[1] = Todo /\ Distance[2] = Rounds
        /\ Distance[3] = Position /\ Distance[4] = Unvisited
        /\ Distance'[1] = Todo' /\ Distance'[2] = Rounds'
        /\ Distance'[3] = Position' /\ Distance'[4] = Unvisited'
    BY DEF Distance
  <1>2. /\ Todo \in Nat /\ Todo' \in Nat
        /\ Len(program) \in Nat /\ at \in Nat
    BY <1>0, <1>1, Shape DEF TypeInv, Tuples
  <1>3. ASSUME UNCHANGED <<program, made, converted, total>>
        PROVE  Todo' = Todo
    BY <1>3 DEF Todo, Instantiable, Nodes
  <1>a. Todo' < Todo => Closer
    BY <1>0, <1>1, FallsAt DEF Closer
  <1>b. Todo' = Todo /\ Rounds' < Rounds => Closer
    BY <1>0, <1>1, FallsAt DEF Closer
  <1>c. Todo' = Todo /\ Rounds' = Rounds /\ Position' < Position
          => Closer
    BY <1>0, <1>1, FallsAt DEF Closer
  <1>d. ASSUME Todo' = Todo, Rounds' = Rounds, Position' = Position,
               Unvisited' < Unvisited
        PROVE  Closer
    <2>1. \A i \in 1..(4 - 1) : Distance'[i] = Distance[i]
      <3>1. \A i \in 1..(4 - 1) : i = 1 \/ i = 2 \/ i = 3
        OBVIOUS
      <3> QED
        BY <1>1, <1>d, <3>1
    <2> QED
      BY <1>0, <1>1, <1>d, <2>1, FallsAt DEF Closer
  <1>4. CASE Visit
    <2>1. Todo' = Todo /\ pc = "visit" /\ UNCHANGED <<program, pass, summary, progress>>
      BY <1>3, <1>4, VisitCollects, VisitFacts
    <2>2. CASE pc' = "visit" /\ at' = at + 1
      <3>1. Rounds' = Rounds /\ Position' = Position
        BY <2>1, <2>2 DEF Rounds, Position
      <3>2. Unvisited' < Unvisited
        BY <1>2, <2>1, <2>2 DEF Unvisited
      <3> QED
        BY <2>1, <3>1, <3>2, <1>d
    <2>3. CASE pc' = "done"
      BY <2>1, <2>3, <1>b DEF Rounds
    <2> QED
      BY <2>2, <2>3, <1>4, VisitFacts
  <1>5. CASE EndPass
    <2>1. Todo' <= Todo /\ (Progressed => Todo' < Todo)
      BY <1>5, ProgressIsLess
    <2>2. CASE ~Progressed \/ summary
      <3>1. Rounds' = Rounds
        BY <1>5, <2>2 DEF EndPass, Rounds
      <3>2. Position' < Position
        BY <1>5 DEF EndPass, Position
      <3> QED
        BY <1>2, <2>1, <3>1, <3>2, <1>a, <1>c
    <2> QED
      BY <2>1, <2>2, <1>a
  <1>6. CASE ResolveTypes \/ ResolveSymbols
    <2>1. UNCHANGED <<program, made, converted, total, summary, progress>>
      BY <1>6 DEF ResolveTypes, ResolveSymbols, Round, tree, stage
    <2>2. pc # "done" /\ pc' # "done"
      BY <1>6 DEF ResolveTypes, ResolveSymbols, Round
    <2>3. Rounds' = Rounds
      BY <2>1, <2>2 DEF Rounds
    <2>4. Position' < Position
      BY <1>6 DEF ResolveTypes, ResolveSymbols, Round, Position
    <2> QED
      BY <2>1, <2>3, <2>4, <1>3, <1>c
  <1>7. CASE Settle
    <2>1. Todo' = Todo
      BY <1>7, <1>3 DEF Settle, tree
    <2>2. Rounds' < Rounds
      <3>1. CASE progress = {}
        <4>1. summary' = TRUE /\ ~summary /\ pc # "done" /\ pc' # "done"
          BY <1>7, <3>1, Zenon DEF Settle
        <4> QED
          BY <3>1, <4>1 DEF Rounds
      <3>2. CASE progress # {}
        BY <1>7, <3>2 DEF Settle, Rounds
      <3> QED
        BY <3>1, <3>2
    <2> QED
      BY <2>1, <2>2, <1>b
  <1>8. CASE Finish
    <2>1. Todo' = Todo
      BY <1>8, <1>3 DEF Finish, tree
    <2>2. Rounds' < Rounds
      BY <1>8 DEF Finish, Rounds
    <2> QED
      BY <2>1, <2>2, <1>b
  <1> QED
    BY <1>4, <1>5, <1>6, <1>7, <1>8 DEF Next, Visit

-------------------------------------------------------------------------------
(* Theorems *)

\* The counts are worth what the invariant says, at every step of every run.
THEOREM Invariance == Spec => []IInv
PROOF
  <1>1. Init => IInv
    BY InitHolds
  <1>2. IInv /\ [Next]_vars => IInv'
    BY TypeStep, StageStep, KnownStep, SpecsStep, SymbolsStep, AbortStep
    DEF IInv
  <1> QED
    BY <1>1, <1>2, PTL DEF Spec

\* ResolutionStage::execute returns true only for a tree in which every node
\* has its type and its symbol, those of the function instances it has made
\* included; only in instances of class templates may something be missing.
THEOREM Soundness == Spec => []SuccessIsComplete
PROOF
  <1>1. IInv => SuccessIsComplete
    BY DEF IInv, StageInv, SymbolsInv, SuccessIsComplete, InClass
  <1> QED
    BY <1>1, Invariance, PTL

\* The assertion in checkResolvedSymbol fails only at a variable whose type is
\* not defined, or is in an instance of a class template.
THEOREM AssertionExplained == Spec => []AbortHasCulprit
PROOF
  <1>1. IInv => AbortHasCulprit
    BY DEF IInv
  <1> QED
    BY <1>1, Invariance, PTL

\* A program without undefined names is not rejected if its calls and unary
\* expressions have literals and variables as operands, it assigns to variables
\* only, and its instances do none of this, however many instances there are:
\* after the first round every pass resolves all it sees, so the loop does not
\* stop before both targets are complete.
THEOREM Completeness == Spec => []ShallowProgramsAreResolved
PROOF
  <1>1. Init => (Shallow => ShallowInv)
    BY DEF Init, ShallowInv, Early
  <1>2. IInv /\ (Shallow => ShallowInv) /\ [Next]_vars => (Shallow => ShallowInv)'
    <2> SUFFICES ASSUME IInv, Shallow => ShallowInv, [Next]_vars, Shallow'
                 PROVE  ShallowInv'
      OBVIOUS
    <2>1. program' = program
      BY NextCases, VisitFacts, MoveFacts DEF EndPass, IInv
    <2>2. Shallow
      BY <2>1 DEF Shallow, Fits, Callable, Strangers, TypeOf, Nodes, LeftOf
    <2> QED
      BY <2>2, ShallowStep
  <1>3. (Shallow => ShallowInv) => ShallowProgramsAreResolved
    BY DEF ShallowInv, ShallowProgramsAreResolved
  <1> QED
    BY <1>1, <1>2, <1>3, Invariance, PTL DEF Spec

\* The loop of ResolutionStage ends, for every program: what a round without
\* progress leaves to do falls with every round that has some, and no step takes
\* back what an earlier one has done.  Any step lowers a measure that nothing
\* lowers for ever.
THEOREM LoopEnds ==
  /\ IsWellFoundedOn(Falls(4), Tuples(4))
  /\ Spec => []Measured
  /\ Spec => [][Closer]_vars
PROOF
  <1>1. IsWellFoundedOn(Falls(4), Tuples(4))
    BY NothingFallsForever
  <1>2. Init => LoopInv
    BY InitHolds, InitLoops DEF IInv
  <1>3. TypeInv /\ LoopInv /\ [Next]_vars => LoopInv'
    BY LoopStep
  <1>4. TypeInv /\ LoopInv => Measured
    BY DistanceIsTuple
  <1>5. TypeInv /\ TypeInv' /\ LoopInv /\ LoopInv'
        /\ Measured /\ Measured' /\ [Next]_vars
          => [Closer]_vars
    BY DistanceFalls
  <1>6. IInv => TypeInv
    BY DEF IInv
  <1> QED
    BY <1>1, <1>2, <1>3, <1>4, <1>5, <1>6, Invariance, PTL DEF Spec
===============================================================================
