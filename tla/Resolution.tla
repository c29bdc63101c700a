------------------------------ MODULE Resolution ------------------------------
(***************************************************************************)
(* ResolutionStage: types and symbols are resolved in passes over the tree *)
(* that alternate between the two targets until neither makes progress.    *)
(* A pass visits the nodes in one fixed order and counts what it cannot    *)
(* resolve.  Templates that are used are instantiated after the pass, so   *)
(* the tree grows between passes.                                          *)
(*                                                                         *)
(* A program is the sequence of its nodes in the order of the visit: a     *)
(* call after its callee and its arguments, the callee before the          *)
(* arguments.  What the scopes hold is abstracted to an outcome for each   *)
(* name: defined, undefined, or the template it makes an instance of; a    *)
(* type is abstracted to what the visitor asks of it.                      *)
(***************************************************************************)
EXTENDS Naturals, Sequences, FiniteSets

CONSTANT Programs \* the programs to resolve

Targets   == {"type", "symbol"}
Text      == 0    \* the instance number of what the parser has made
Kinds     == {"spec", "name", "literal", "callee", "call", "unary", "arith",
              "comparison", "logical", "assign", "condition"}
Outcomes  == {"defined", "undefined", "template"}

\* The types.  Those of the first two lines are TypeSpecifiers: of a number
\* or a bool, of another primitive type, of a lambda, and the name of a class
\* that a call returns.  The others are a ClassDecl, a FunctionDecl, and what
\* is neither (an enumeration, the FunctionType of a variable).
Primitives == {"number", "primitive"}
Specifiers == Primitives \cup {"lambda", "named"}
Types      == Specifiers \cup {"class", "function", "opaque"}

\* A node: what it needs, for a spec, a name and a callee what it resolves to
\* and which instance that makes, the type it has once it has one, whether
\* its operands have different types of one sort, so that a conversion has to
\* be inserted below it, and the instance whose text it is part of.
NodeOf(length) ==
  [kind : Kinds, uses : SUBSET (1..length), outcome : Outcomes, makes : Nat,
   type : Types, converts : BOOLEAN, of : Nat]

\* The left side is the first operand visited.
Left(p, n)  == CHOOSE l \in p[n].uses : \A u \in p[n].uses : l <= u
Right(p, n) == CHOOSE r \in p[n].uses : \A u \in p[n].uses : u <= r

\* A tree is visited from its leaves; only a callee comes before its arguments.
\* Operands are part of the same text, and have a value.  A name refers to the
\* specifier of a variable of its own text or of the program's: the members of
\* an instance are not used from outside.  Functions and variables are
\* declared with types.
WellFormed(p) ==
  \A n \in DOMAIN p :
    /\ p[n].outcome = "template" => p[n].makes # Text
    /\ p[n].kind = "callee" /\ p[n].outcome = "template" => p[n].type = "function"
    /\ p[n].kind \in {"arith", "comparison", "logical"} => p[n].type = "number"
    /\ p[n].kind = "call" => p[n].type \in Specifiers
    /\ p[n].kind \in {"unary", "assign"} => p[n].type = p[Left(p, n)].type
    /\ \A u \in p[n].uses :
         /\ p[n].kind = "name" => /\ p[u].kind = "spec" /\ p[u].type = p[n].type
                                  /\ p[u].of \in {Text, p[n].of}
         /\ p[n].kind # "name" => p[u].kind # "condition" /\ p[u].of = p[n].of
         /\ p[n].kind \notin {"name", "callee"} => u < n

ProgramAssumption ==
  \A p \in Programs : p \in Seq(NodeOf(Len(p))) /\ WellFormed(p)
ASSUME ProgramAssumption

VARIABLES
  (* the tree *)
  program,
  made,       \* instances in the tree
  typed,      \* nodes with a ResolvedType
  bound,      \* nodes with a ResolvedSymbol
  converted,  \* nodes below which a conversion has been inserted
  (* the pass under way *)
  pc, pass, at,
  count, missed,        \* unresolved_count and unresolved_nodes
  requests, transforms, \* of the resolver, and of the visitor
  (* ResolutionStage *)
  total,      \* total_unresolved_count_type
  complete,   \* complete_type_resolution and complete_symbol_resolution
  progress,   \* making_progress_on_type_resolution, ..._symbol_resolution
  summary,    \* the last passes, which report
  unresolved, \* unresolved_types and unresolved_symbols
  result

tree    == <<program, made, converted>>
visit   == <<pc, pass, at, count, missed, requests, transforms>>
stage   == <<total, complete, progress, summary, unresolved, result>>
vars    == <<tree, typed, bound, visit, stage>>

Nodes == DOMAIN program
Tree  == {n \in Nodes : program[n].of \in made \cup {Text}}
Node  == program[at]

TypeOf(n)  == program[n].type
LeftOf(n)  == Left(program, n)
RightOf(n) == Right(program, n)

-------------------------------------------------------------------------------
(* The visitor *)

Init ==
  /\ program \in Programs
  /\ made = {} /\ typed = {} /\ bound = {} /\ converted = {}
  /\ pc = "types" /\ pass = "type" /\ at = 1
  /\ count = 0 /\ missed = {} /\ requests = {} /\ transforms = {}
  /\ total = 2 * Len(program) + 1          \* more than any count
  /\ complete = {} /\ progress = {} /\ summary = FALSE
  /\ unresolved = [t \in Targets |-> {}]
  /\ result = "none"

At(kind, targets) ==
  /\ pc = "visit" /\ at \in Tree
  /\ Node.kind = kind /\ pass \in targets

Advance == at' = at + 1 /\ UNCHANGED <<pc, pass, tree, stage>>

Miss(times) ==
  /\ count' = count + times
  /\ missed' = IF times = 0 THEN missed ELSE missed \cup {at}

Silent   == UNCHANGED <<count, missed>>
NoEffect == UNCHANGED <<typed, bound, requests, transforms>> /\ Silent

\* A template is instantiated after the pass unless it has been before.
Request == requests' = requests \cup {at} /\ UNCHANGED <<typed, bound>>
MustInstantiate == Node.outcome = "template" /\ Node.makes \notin made

ResolveSpec ==
  /\ At("spec", {"type"})
  /\ \/ at \in typed /\ NoEffect
     \/ /\ at \notin typed /\ Node.outcome = "undefined"
        /\ Miss(1) /\ UNCHANGED <<typed, bound, requests, transforms>>
     \/ /\ at \notin typed /\ MustInstantiate
        /\ Request /\ Silent /\ UNCHANGED transforms
     \/ /\ at \notin typed /\ Node.outcome # "undefined" /\ ~MustInstantiate
        /\ typed' = typed \cup {at}
        /\ Silent /\ UNCHANGED <<bound, requests, transforms>>
  /\ Advance

\* An assertion fails, or a null pointer is followed.
Abort ==
  /\ pc' = "done" /\ result' = "aborted"
  /\ NoEffect
  /\ UNCHANGED <<tree, pass, at, total, complete, progress, summary,
                 unresolved>>

\* A variable takes the type of its specifier, and that it has one is
\* asserted; without assertions it is bound and has no type.
ResolveName ==
  /\ At("name", {"symbol"})
  /\ \/ at \in bound /\ NoEffect /\ Advance
     \/ /\ at \notin bound /\ Node.outcome = "undefined"
        /\ Miss(1) /\ Advance
        /\ UNCHANGED <<typed, bound, requests, transforms>>
     \/ /\ at \notin bound /\ Node.outcome # "undefined"
        /\ ~(Node.uses \subseteq typed)
        /\ Abort
     \/ /\ at \notin bound /\ Node.outcome # "undefined"
        /\ bound' = bound \cup {at}
        /\ typed' = IF Node.uses \subseteq typed THEN typed \cup {at} ELSE typed
        /\ Silent /\ Advance
        /\ UNCHANGED <<requests, transforms>>

\* The function called depends on the types of the arguments, and whatever has
\* the name is taken for a function.
ResolveCallee ==
  /\ At("callee", {"symbol"})
  /\ LET viable == Node.uses \subseteq typed /\ Node.outcome # "undefined" IN
     \/ at \in bound /\ NoEffect /\ Advance
     \/ /\ at \notin bound /\ ~viable
        /\ Miss(1) /\ UNCHANGED <<typed, bound, requests, transforms>>
        /\ Advance
     \/ at \notin bound /\ viable /\ Node.type # "function" /\ Abort
     \/ /\ at \notin bound /\ viable /\ Node.type = "function"
        /\ IF MustInstantiate
           THEN Request
           ELSE /\ bound' = bound \cup {at} /\ typed' = typed \cup {at}
                /\ UNCHANGED requests
        /\ Silent /\ UNCHANGED transforms
        /\ Advance

\* A literal, in PrimaryExpr.
ResolveLiteral ==
  /\ At("literal", {"symbol"})
  /\ typed' = typed \cup {at}
  /\ Silent /\ UNCHANGED <<bound, requests, transforms>>
  /\ Advance

\* What an expression finds its operands to be, once they have types: what is
\* called is a function, and what is added up are numbers.
Callable(n)  == \A u \in program[n].uses : TypeOf(u) \in {"function", "lambda"}
Strangers(n) == {u \in program[n].uses : TypeOf(u) # "number"}

\* A call has the type that what it calls returns.  It is counted when that is
\* no function (CALL_NONFUNC), and not when that has no type yet.
ResolveCall ==
  /\ At("call", Targets)
  /\ LET known == at \notin typed /\ Node.uses \subseteq typed IN
     /\ typed' = IF known /\ Callable(at) THEN typed \cup {at} ELSE typed
     /\ Miss(IF known /\ ~Callable(at) THEN 1 ELSE 0)
  /\ UNCHANGED <<bound, requests, transforms>>
  /\ Advance

\* Where types differ and there is a conversion: between numbers, and, for what
\* is a condition, from a primitive type to a bool.  Where there is none, the
\* error is logged and not counted.
Convertible(n) ==
  IF program[n].kind \in {"logical", "condition"}
  THEN \E u \in program[n].uses : TypeOf(u) \in Primitives
  ELSE Strangers(n) = {}

\* (mutant of Convert: what has been converted is converted again)
ConvertAgain ==
  transforms' = IF Node.converts /\ Convertible(at) /\ Node.uses \subseteq typed'
                THEN transforms \cup {at} ELSE transforms

\* convertDispatch inserts a cast or a comparison once the operands are known
\* to have different types.
Convert ==
  transforms' = IF /\ Node.converts /\ Convertible(at)
                   /\ at \notin converted /\ Node.uses \subseteq typed'
                THEN transforms \cup {at} ELSE transforms

\* What convertDispatch makes of the two sides of an assignment.  It asserts
\* that the left one is of no class; something of a primitive type or a lambda
\* can be assigned only a TypeSpecifier, and the message that says so prints
\* the null pointer that a cast of the other type has given.  What a function
\* that is assigned to a lambda comes to depends on its signature.
NotImplemented(n) ==
  \/ TypeOf(LeftOf(n)) \in {"class", "named"}
  \/ TypeOf(LeftOf(n)) = "lambda" /\ TypeOf(RightOf(n)) = "function"
NoSpecifier(n) ==
  \/ TypeOf(LeftOf(n)) \in Primitives /\ TypeOf(RightOf(n)) \notin Specifiers
  \/ TypeOf(LeftOf(n)) = "lambda" /\ TypeOf(RightOf(n)) \in {"class", "opaque"}

\* A sign or an increment, which has the type of its operand.
ResolveUnary ==
  /\ At("unary", Targets)
  /\ LET known == at \in typed \/ Node.uses \subseteq typed IN
     /\ typed' = IF known THEN typed \cup {at} ELSE typed
     /\ Miss(IF known THEN 0 ELSE 1)
  /\ UNCHANGED <<bound, requests, transforms>>
  /\ Advance

\* A comparison is a bool, whatever it compares, and so is what joins or
\* negates conditions.
ResolveComparison ==
  /\ At("comparison", Targets) \/ At("logical", Targets)
  /\ typed' = typed \cup {at}
  /\ Convert
  /\ Silent /\ UNCHANGED <<bound, requests>>
  /\ Advance

\* Each operand that is no number is counted (INVALID_ARITHMETIC); an operand
\* that has no type yet is not.
Wrong == IF at \notin typed /\ Node.uses \subseteq typed THEN Strangers(at) ELSE {}

ResolveArith ==
  /\ At("arith", Targets)
  /\ typed' = IF Node.uses \subseteq typed /\ Wrong = {}
              THEN typed \cup {at} ELSE typed
  /\ count' = count + Cardinality(Wrong)
  /\ missed' = missed \cup Wrong
  /\ Convert
  /\ UNCHANGED <<bound, requests>>
  /\ Advance

\* An assignment has what its left side has.
Has(known) == at \in known \/ LeftOf(at) \in known

\* Symbol and type are those of the left side, each counted if it has none.
ResolveAssign ==
  /\ At("assign", Targets)
  /\ LET known == Node.uses \subseteq typed IN
     \/ known /\ (NotImplemented(at) \/ NoSpecifier(at)) /\ Abort
     \/ /\ known => ~NoSpecifier(at)
        /\ bound' = IF Has(bound) THEN bound \cup {at} ELSE bound
        /\ typed' = IF Has(typed) THEN typed \cup {at} ELSE typed
        /\ Miss((IF Has(bound) THEN 0 ELSE 1) + IF Has(typed) THEN 0 ELSE 1)
        /\ Convert
        /\ UNCHANGED requests
        /\ Advance

\* The condition of a branch or a loop.
ResolveCondition ==
  /\ At("condition", Targets)
  /\ UNCHANGED typed /\ Convert
  /\ Silent /\ UNCHANGED <<bound, requests>>
  /\ Advance

\* A node that is not of this target, or not in the tree.
PassBy ==
  /\ pc = "visit" /\ at \in Nodes
  /\ \/ at \notin Tree
     \/ pass = "type" /\ Node.kind \in {"name", "literal", "callee"}
     \/ pass = "symbol" /\ Node.kind = "spec"
  /\ NoEffect /\ Advance

-------------------------------------------------------------------------------
(* The stage *)

\* A pass is made only while its target is not complete.
Round(target, next) ==
  /\ IF target \notin complete
     THEN /\ pc' = "visit" /\ pass' = target /\ at' = 1
          /\ count' = 0 /\ missed' = {} /\ requests' = {} /\ transforms' = {}
     ELSE /\ pc' = next
          /\ UNCHANGED <<pass, at, count, missed, requests, transforms>>
  /\ UNCHANGED <<tree, typed, bound, stage>>

\* (mutant of ResolveTypes: the passes in the other order)
SymbolsFirst == pc = "types" /\ Round("symbol", "settle")

ResolveTypes   == pc = "types" /\ Round("type", "symbols")
ResolveSymbols == pc = "symbols" /\ Round("symbol", "settle")

\* What the resolver instantiates after a pass: requests for the same instance
\* have been put together.
Instances == {program[n].makes : n \in requests}

\* (mutant of Progressed: transformations are no progress)
ProgressedByCount == count < total

Progressed == requests # {} \/ transforms # {} \/ count < total

\* Both passes compare their count with that of the types.  The last passes
\* only report: what they would tell the loop is dropped.
EndPass ==
  /\ pc = "visit" /\ at > Len(program)
  /\ made' = made \cup Instances
  /\ typed' = typed \cup requests
  /\ bound' = bound \cup {n \in requests : program[n].kind = "callee"}
  /\ converted' = converted \cup transforms
  /\ total' = IF count < total THEN count ELSE total
  /\ IF summary
     THEN /\ unresolved' = [unresolved EXCEPT ![pass] = missed]
          /\ UNCHANGED <<complete, progress>>
     ELSE /\ progress' = IF Progressed THEN progress \cup {pass} ELSE progress
          /\ complete' = {t \in Targets : IF t = pass THEN count = 0
                                        ELSE t \in complete /\ requests = {}}
          /\ UNCHANGED unresolved
  /\ pc' = IF pass = "type" THEN "symbols" ELSE "settle"
  /\ UNCHANGED <<program, pass, at, count, missed, requests, transforms,
                 summary, result>>

\* (mutant of Coupled: each target for itself)
NotCoupled == complete

\* A target that is not complete makes the other incomplete.
Coupled == IF complete = Targets THEN Targets ELSE {}

\* The end of a round.
Settle ==
  /\ pc = "settle" /\ ~summary
  /\ complete' = Coupled
  /\ summary' = (progress = {})
  /\ progress' = {}
  /\ pc' = "types"
  /\ UNCHANGED <<tree, typed, bound, total, unresolved, result, pass, at, count,
                 missed, requests, transforms>>

Finish ==
  /\ pc = "settle" /\ summary
  /\ pc' = "done"
  /\ result' = IF complete = Targets THEN "ok" ELSE "failed"
  /\ UNCHANGED <<tree, typed, bound, total, complete, progress, summary,
                 unresolved, pass, at, count, missed, requests, transforms>>

Next ==
  \/ ResolveTypes \/ ResolveSymbols \/ EndPass \/ Settle \/ Finish
  \/ ResolveSpec \/ ResolveName \/ ResolveCallee \/ ResolveLiteral
  \/ ResolveCall \/ ResolveUnary \/ ResolveArith \/ ResolveComparison
  \/ ResolveAssign \/ ResolveCondition \/ PassBy

Spec     == Init /\ [][Next]_vars
FairSpec == Spec /\ WF_vars(Next)

-------------------------------------------------------------------------------
(* Properties *)

\* The instances of class templates, which passes over types ask for.
ClassInstances ==
  {program[n].makes : n \in {m \in Tree : program[m].kind = "spec" /\
                                         program[m].outcome = "template"}}

Resolved(n) ==
  CASE program[n].kind = "name"      -> n \in bound
    [] program[n].kind = "assign"    -> n \in typed /\ n \in bound
    [] program[n].kind = "condition" -> program[n].uses \subseteq typed
    [] OTHER                         -> n \in typed

\* Success means that every node is resolved, those of function instances
\* made on the way included.  Types in an instance of a class template may
\* have been overlooked: the pass that asks for it is complete without it.
SuccessIsComplete ==
  result = "ok" => \A n \in Tree :
    program[n].of \in ClassInstances \/ Resolved(n)

\* Expressions that fit together: what is called is a function, what is added
\* up are numbers, and what is assigned to is a variable.
Fits(n) ==
  /\ program[n].kind = "callee" => TypeOf(n) = "function"
  /\ program[n].kind = "call" => Callable(n)
  /\ program[n].kind = "arith" => Strangers(n) = {}
  /\ program[n].kind = "assign" => program[LeftOf(n)].kind \in {"name", "assign"}

\* A program without undefined names whose expressions fit together fails only
\* if the operand of a call or a unary expression is not a literal or a
\* variable, an assignment is assigned to, or any of these is part of an
\* instance.
Shallow ==
  \A n \in Nodes :
    /\ program[n].outcome # "undefined" /\ Fits(n)
    /\ program[n].kind \in {"callee", "unary"} /\ program[n].uses # {} =>
         /\ program[n].of = Text
         /\ \A u \in program[n].uses : program[u].kind \in {"literal", "name"}
    /\ program[n].kind = "assign" =>
         /\ program[n].of = Text
         /\ LeftOf(n) \in {u \in program[n].uses : program[u].kind = "name"}

ShallowProgramsAreResolved == Shallow => result # "failed"

\* The compiler goes down only over a variable whose type is undefined or is in
\* an instance of a class template that no pass over types has visited, over a
\* call of what is no function, or over two sides of an assignment that are of
\* a class or do not fit, both of which have their types.
AbortHasCulprit ==
  result = "aborted" =>
    \/ /\ Node.kind = "name"
       /\ \E u \in Node.uses : program[u].outcome = "undefined"
                              \/ program[u].of \in ClassInstances
    \/ Node.kind = "callee" /\ Node.type # "function" /\ Node.uses \subseteq typed
    \/ /\ Node.kind = "assign" /\ Node.uses \subseteq typed
       /\ NotImplemented(at) \/ NoSpecifier(at)

\* The stage ends: each round but the last lowers a count, makes an instance
\* or inserts a conversion.
Terminates == <>(pc = "done")

\* What the comment in ResolutionStage.h:29 says, that the stage tries to
\* resolve all nodes by using multiple passes: it fails only on an undefined
\* name, or on expressions that do not fit together.
FailureHasCause ==
  result = "failed" =>
    \E n \in Nodes : program[n].outcome = "undefined" \/ ~Fits(n)
===============================================================================
