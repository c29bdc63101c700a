----------------------------- MODULE MCResolution -----------------------------
(***************************************************************************)
(* Resolution for TLC.  A program declares a variable x, has a statement   *)
(* with up to three nested calls and, at the end, the text of the class    *)
(* template (instance 1) and of the function template (instance 2) that    *)
(* the declaration and the calls may make instances of.  Other programs    *)
(* join two operands of any types.                                         *)
(***************************************************************************)
EXTENDS Resolution

CONSTANT Depths \* of nested calls

New(kind, uses, outcome) ==
  [kind |-> kind, uses |-> uses, outcome |-> outcome, converts |-> FALSE,
   makes |-> CASE outcome # "template" -> Text
               [] kind = "spec" -> 1 [] OTHER -> 2,
   type |-> CASE kind = "spec" \/ (kind = "name" /\ uses # {}) -> "class"
              [] kind = "callee" -> "function" [] OTHER -> "number",
   of |-> Text]
With(type, node) == [node EXCEPT !.type = type]
Of(i, nodes) == [n \in DOMAIN nodes |-> [nodes[n] EXCEPT !.of = i]]

\* A literal, x, whose type is a class, and a name that is not declared.
x       == New("name", {1}, "defined")
Operand == {New("literal", {}, "defined"), x, New("name", {}, "undefined")}
\* A variable of a primitive type.
y       == New("name", {}, "defined")

\* From position k on: f(g(h(leaf))) for the outcomes of its callees.
Chain(k, calls, leaf) ==
  LET d == Len(calls) IN
  [n \in 1..d |-> New("callee", {k + IF n < d THEN 2 * d - n ELSE d},
                      calls[n])] \o
  <<leaf>> \o
  [n \in 1..d |-> New("call", {k + d - n}, "defined")]

\* An operator on the last nodes, whose operands may need a conversion.
Join(nodes, kind, uses) ==
  {nodes \o <<[New(kind, uses, "defined") EXCEPT !.converts = c]>> : c \in BOOLEAN}

\* The statement that a chain from position k is part of.  The functions
\* called return numbers.
Statements(k, calls, leaf) ==
  LET plain == Chain(k, calls, leaf)
      right == <<y>> \o Chain(k + 1, calls, leaf)
      last(nodes) == k + Len(nodes) - 1
  IN {plain} \cup
     {plain \o <<With(plain[Len(plain)].type,
                     New("unary", {last(plain)}, "defined"))>>} \cup
     Join(plain, "condition", {last(plain)}) \cup
     UNION {Join(right, kind, {k, last(right)}) :
              kind \in {"comparison", "assign", "arith"}}

\* Two operands of any types, each a variable or the result of a call, what
\* they are joined to, calls of what may be no function, and an assignment to
\* an assignment.
OperandOf(type, k) ==
  (IF type \in Specifiers
   THEN {<<New("callee", {}, "defined"), With(type, New("call", {k}, "defined"))>>}
   ELSE {}) \cup
  (IF type \in {"lambda", "named"} THEN {} ELSE {<<With(type, y)>>})

Pairs ==
  UNION {UNION {{<<l, r>> : r \in OperandOf(u, 1 + Len(l))} :
                  l \in OperandOf(t, 1)} : t \in Types, u \in Types}

Mixed ==
  UNION {LET nodes == pair[1] \o pair[2]
             sides == {Len(pair[1]), Len(nodes)}
         IN UNION {Join(nodes, kind, sides) :
                     kind \in {"arith", "comparison", "logical"}} \cup
            {[a EXCEPT ![Len(a)].type = a[Len(pair[1])].type] :
               a \in Join(nodes, "assign", sides)} :
         pair \in Pairs} \cup
  UNION {{nodes \o <<New("call", {Len(nodes)}, "defined")>> :
            nodes \in OperandOf(t, 1)} : t \in Types} \cup
  {<<With(t, New("callee", uses, "defined"))>> \o
   <<New("literal", {}, "defined"), New("call", {1}, "defined")>> :
     uses \in {{}, {2}}, t \in Types} \cup
  {<<y, y, New("assign", {1, 2}, "defined"), y, New("assign", {3, 4}, "defined")>>}

\* The text of the instances from position k on: a member, and a method that
\* uses it; a parameter that is returned, a call, the template itself, or an
\* assignment.
Class(k) ==
  {Of(1, <<New("spec", {}, "defined")>>),
   Of(1, <<New("spec", {}, "defined"), New("name", {k}, "defined")>>)}
Function(k) ==
  {Of(2, <<With("number", New("spec", {}, "defined")),
           With("number", New("name", {k}, "defined"))>> \o t) :
     t \in {<< >>,
            <<New("callee", {k + 3}, "defined"), New("literal", {}, "defined"),
              New("call", {k + 2}, "defined")>>,
            <<New("callee", {k + 3}, "template"),
              With("number", New("name", {k}, "defined")),
              New("call", {k + 2}, "defined")>>,
            <<New("literal", {}, "defined"),
              New("assign", {k + 1, k + 2}, "defined")>>}}

Texts(declared, calls, statement) ==
  LET k == 2 + Len(statement) IN
  UNION {{<<New("spec", {}, declared)>> \o statement \o c \o f :
            f \in IF \E n \in DOMAIN calls : calls[n] = "template"
                  THEN Function(k + Len(c)) ELSE {<< >>}} :
         c \in IF declared = "template" THEN Class(k) ELSE {<< >>}}

MCPrograms ==
  {p : p \in
    UNION {Texts(declared, calls, statement) :
      <<declared, calls, statement>> \in
        UNION {{declared} \X {calls} \X Statements(2, calls, leaf) :
                 declared \in Outcomes, leaf \in Operand,
                 calls \in UNION {[1..d -> Outcomes] : d \in Depths}}}}
  \cup Mixed
===============================================================================
