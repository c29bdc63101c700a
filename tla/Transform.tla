------------------------------- MODULE Transform -------------------------------
(***************************************************************************)
(* What the stages between the parser and the code generator do to the     *)
(* tree: trees of other tangles are merged into it, the restructuring      *)
(* takes initializers and compound assignments apart, the resolution       *)
(* copies templates and inserts conversions, and the tree is saved and     *)
(* loaded again.  What a visitor finds to do it collects, and does it when *)
(* the visit is over.                                                      *)
(***************************************************************************)
EXTENDS Tree, FiniteSets

CONSTANTS
  Programs,       \* the trees that the parser makes
  Order,          \* the names of packages in the order of their text
  MaxConversions  \* conversions that the resolution inserts

\* A program: the heap, the tangle in it, and the tangles to load.
ASSUME ProgramAssumption ==
  \A p \in Programs :
    /\ p.root \in DOMAIN p.heap /\ Range(p.imports) \subseteq DOMAIN p.heap
    /\ \A n \in DOMAIN p.heap : p.heap[n].class \in Classes

VARIABLES
  program,        \* what was parsed
  heap, root,
  imports,        \* tangles not yet merged
  imported,       \* sources with is_imported
  pc,
  round, todo,    \* of the restructuring
  instances,      \* pairs of a template and an instance
  copied,         \* nodes that copying a template has made
  conversions,    \* inserted so far
  freed           \* nodes that the garbage collector has deleted

stage == <<program, root>>
vars  == <<stage, heap, imports, imported, pc, round, todo, instances, copied,
           conversions, freed>>

Init ==
  /\ program \in Programs
  /\ heap = program.heap /\ root = program.root
  /\ imports = program.imports /\ imported = {}
  /\ pc = "import" /\ round = 0 /\ todo = << >>
  /\ instances = {} /\ copied = {} /\ conversions = 0 /\ freed = {}

\* An assertion fails, or a null pointer is followed.
Crash == /\ pc' = "crashed"
         /\ UNCHANGED <<stage, heap, imports, imported, round, todo,
                        instances, copied, conversions, freed>>

Kids(n, f)   == heap[n].kids[f]
Is(n, class) == heap[n].class = class
InTree       == Visited(heap, root)

\* Nodes that are made together, and the fields they are put in.
Make(h, nodes, ctx) ==
  h \o [i \in DOMAIN nodes |-> [nodes[i] EXCEPT !.ctx = ctx]]
Link(h, links) ==
  FoldLeft(LAMBDA g, l : Adopt(g, l[1], l[2], l[3]), h, links)
None == [f \in {} |-> << >>] \* no children yet

-------------------------------------------------------------------------------
(* The trees of other tangles *)

\* addSource: a multimap in the order of the identifiers, after those with
\* the same.
IdText(h, id) ==
  IF h[id].class = "NestedIdentifier"
  THEN h[h[id].kids.identifier_list[1]].is ELSE h[id].is
Rank(h, id) == SelectInSeq(Order, LAMBDA name : name = IdText(h, id))
AddSource(h, tangle, id, src) ==
  LET sources == h[tangle].kids.sources
      later   == SelectInSeq(sources, LAMBDA n :
                   /\ h[n].class # "Source" /\ Rank(h, n) > Rank(h, id))
      at      == IF later = 0 THEN Len(sources) + 1 ELSE later
  IN [h EXCEPT ![tangle].kids.sources = InsertAt(InsertAt(@, at, src), at, id),
               ![id].parent = tangle, ![src].parent = tangle]

Merge ==
  /\ pc = "import" /\ imports # << >>
  /\ LET t == Head(imports)
         sources == heap[t].kids.sources
         merged == FoldLeft(LAMBDA h, i : AddSource(h, root, sources[2 * i - 1],
                                                    sources[2 * i]),
                            heap, [i \in 1..(Len(sources) \div 2) |-> i])
     IN /\ heap' = [merged EXCEPT ![t].kids.sources = << >>]
        /\ imported' = imported \cup
                       {s \in Range(sources) : Is(s, "Source")}
  /\ imports' = Tail(imports)
  /\ UNCHANGED <<stage, pc, round, todo, instances, copied, conversions, freed>>

EndImport ==
  /\ pc = "import" /\ imports = << >>
  /\ pc' = "restructure"
  /\ UNCHANGED <<stage, heap, imports, imported, round, todo, instances,
                 copied, conversions, freed>>

-------------------------------------------------------------------------------
(* Restructuring *)

IsNew(f) == heap[Kids(f, "name")[1]].is = "new"
Constructors(c) == SelectSeq(Kids(c, "member_functions"), IsNew)
IsThis(v)       == heap[Kids(v, "name")[1]].is = "this"
HasDefault(c)   == \E f \in Range(Constructors(c)) :
                     LET parameters == Kids(f, "parameters") IN
                     parameters = << >> \/ (Len(parameters) = 1 /\ IsThis(parameters[1]))

InitializedVariable(n) == Is(n, "VariableDecl") /\ Kids(n, "initializer") # << >>
Local(n) == /\ InitializedVariable(n)
            /\ HasOwner(heap, n, "FunctionDecl") /\ HasOwner(heap, n, "Block")
Member(n) == InitializedVariable(n) /\ ~Local(n) /\ HasOwner(heap, n, "ClassDecl")
Compound(n)     == Is(n, "BinaryExpr") /\ heap[n].is = "+="
Constructless(n) == Is(n, "ClassDecl") /\ ~HasDefault(n)

\* What a visit finds, in its order.
Transforms ==
  LET found(n, kind, owner) == <<[kind |-> kind, node |-> n, owner |-> owner]>>
      at(n) == CASE Constructless(n) -> found(n, "constructor", n)
                 [] Local(n)    -> found(n, "local", n)
                 [] Member(n)   -> found(n, "member", Owner(heap, n, "ClassDecl"))
                 [] Compound(n) -> found(n, "compound", n)
                 [] OTHER       -> << >>
      visit == Walk(heap, root, {"visit", "post"})
  IN FlattenSeq([i \in DOMAIN visit |-> at(visit[i])])

\* The pointer to the block of a missing else is not initialized.
BareIf(h, n)  == h[n].class = "IfElseStmt" /\ h[n].kids.else_block = << >>

Restructure ==
  /\ pc = "restructure" /\ todo = << >>
  /\ \/ (\E n \in InTree : BareIf(heap, n)) /\ Crash
     \/ /\ todo' = Transforms
        /\ round' = IF todo' = << >> THEN round ELSE round + 1
        /\ pc'    = IF todo' = << >> THEN "resolve" ELSE pc
        /\ UNCHANGED <<stage, heap, imports, imported, instances, copied,
                       conversions, freed>>

Internals == heap[root].kids.internal[1]
Primitive(name) == Kids(Internals, name)[1]

\* The type of the constructor is the one that all of them share.
WithConstructor(class) ==
  LET made == Make(heap, <<New("SimpleIdentifier", "new", None),
                           New("Block", "", None),
                           New("FunctionDecl", "", None)>>, heap[class].ctx)
      name == Len(heap) + 1  block == Len(heap) + 2  f == Len(heap) + 3
  IN Link(made, <<<<f, "name", name>>, <<f, "type", Primitive("VoidTy")>>,
                  <<f, "block", block>>, <<class, "member_functions", f>>>>)

\* A statement that assigns the initializer of a variable to its name; the
\* variable loses it.
Initialized(n, h) ==
  LET name == Len(heap) + 1
      primary == Len(h) - 2  assign == Len(h) - 1  stmt == Len(h)
  IN [Link(h, <<<<primary, "value", name>>, <<assign, "left", primary>>,
                <<assign, "right", Kids(n, "initializer")[1]>>,
                <<stmt, "expr", assign>>>>)
      EXCEPT ![n].kids.initializer = << >>, ![name].ctx = heap[n].ctx]
WithAssignment(n) ==
  Initialized(n, Make(Clone(heap, Kids(n, "name")[1]),
                   <<New("PrimaryExpr", "", None), New("BinaryExpr", "=", None),
                     New("ExpressionStmt", "", None)>>, heap[n].ctx))

\* The left side and the operator of a compound assignment go to the right.
Summed(n, h) ==
  LET right == Kids(n, "right")[1]
      lhs   == Len(heap) + 1  rhs == Len(h)
  IN ReplaceUseWith(Link(h, <<<<rhs, "left", lhs>>, <<rhs, "right", right>>>>),
                    n, right, rhs, FALSE)
WithSum(n) ==
  Summed(n, Make(Clone(heap, Kids(n, "left")[1]), <<New("BinaryExpr", "+", None)>>,
                 heap[n].ctx))

WithAssignmentKept(n) == WithSum(n) \* mutant: the operator is left as it is
WithPlainAssignment(n) ==
  LET plain(used) == [used EXCEPT ![Len(used)].parent = n, ![n].is = "=",
                                  ![Len(heap) + 1].ctx = heap[n].ctx]
  IN plain(WithSum(n))

Did(h) ==
  /\ heap' = h /\ todo' = Tail(todo)
  /\ UNCHANGED <<stage, imports, imported, pc, round, instances, copied,
                 conversions, freed>>

AddConstructor ==
  /\ pc = "restructure" /\ todo # << >> /\ Head(todo).kind = "constructor"
  /\ Did(WithConstructor(Head(todo).node))

SplitLocal ==
  /\ pc = "restructure" /\ todo # << >> /\ Head(todo).kind = "local"
  /\ LET n == Head(todo).node
         anchor == heap[n].parent
         block  == heap[anchor].parent
     IN IF Is(anchor, "DeclarativeStmt") /\ Is(block, "Block")
        THEN LET inserted(h) == InsertObjectAfter(h, block, anchor, Len(h)) IN
             Did(inserted(WithAssignment(n)))
        ELSE Crash

\* The first constructor takes the initializer, and there is none left for a
\* second one.
MoveMember ==
  /\ pc = "restructure" /\ todo # << >> /\ Head(todo).kind = "member"
  /\ LET n == Head(todo).node
         constructors == Constructors(Head(todo).owner)
     IN CASE constructors = << >> -> Did(heap)
          [] Len(constructors) = 1 ->
               LET block == Kids(constructors[1], "block")
                   prepended(h) == PrependObject(h, block[1], Len(h))
               IN IF block = << >> THEN Crash
                  ELSE Did(prepended(WithAssignment(n)))
          [] OTHER -> Crash

SplitCompound ==
  /\ pc = "restructure" /\ todo # << >> /\ Head(todo).kind = "compound"
  /\ Did(WithPlainAssignment(Head(todo).node))

-------------------------------------------------------------------------------
(* Resolution: instances and conversions *)

\* isFullySpecialized: every typename has its type, which is no template or a
\* fully specialized one.
Typenames(h, n) == h[h[n].kids.name[1]].kids.templated_type_list
RECURSIVE IsFullySpecialized(_, _)
IsPartial(h, type) ==
  LET id == h[type].kids.unspecified IN
  id # << >> /\ h[id[1]].class = "TemplatedIdentifier" /\ ~IsFullySpecialized(h, id[1])
IsFullySpecialized(h, id) ==
  \A t \in Range(h[id].kids.templated_type_list) :
    LET type == h[t].kids.specialized_type IN type # << >> /\ ~IsPartial(h, type[1])
IsTemplate(n) ==
  /\ heap[n].class \in {"FunctionDecl", "ClassDecl"}
  /\ LET name == Kids(n, "name")[1] IN
     Is(name, "TemplatedIdentifier") /\ ~IsFullySpecialized(heap, name)
Templates(nodes) == {n \in nodes : IsTemplate(n)}
Texts(nodes)     == UNION {Whole(heap, t) : t \in Templates(nodes)}

\* What the resolution visits: it passes over the text of templates.
Resolving == LET nodes == InTree IN nodes \ Texts(nodes)

\* The type of a return statement is that of the function it is owned by.
Ownerless(visited) ==
  {n \in visited : Is(n, "BranchStmt") /\ heap[n].is = "return"
                   /\ ~HasOwner(heap, n, "FunctionDecl")}

\* The type argument: a copy of a primitive type, or a type that names a class.
\* A class that is an argument is no template, or an instance of one, in which
\* TemplatedIdentifier::specialize finds no typename without a type.
Argument(h, type) ==
  LET isType == h[type].class = "TypeSpecifier"
      named(g) == [heap |-> Adopt(g, Len(g), "unspecified", Cloned(h)), node |-> Len(g)]
      typed(g) == IF isType THEN [heap |-> g, node |-> Cloned(h)]
                  ELSE named(Append(g, New("TypeSpecifier", "", None)))
  IN typed(Clone(h, IF isType THEN type ELSE h[type].kids.name[1]))

\* It is put where there is no type, or in the place of one that is partial; a
\* typename that has its type keeps it, and the argument is left behind.
SetSpecializedType(h, typename, argument) ==
  LET type == h[typename].kids.specialized_type
      g    == argument.heap
  IN CASE type = << >> -> Adopt(g, typename, "specialized_type", argument.node)
       [] type # << >> /\ IsPartial(h, type[1]) ->
            ReplaceUseWith(g, typename, type[1], argument.node, TRUE)
       [] OTHER -> g
SetDefaultType(h, typename) ==
  Each(h, LAMBDA n :
    CASE n = typename -> [h[n] EXCEPT !.kids.default_type = << >>]
      [] n \in Range(h[typename].kids.default_type) -> [h[n] EXCEPT !.parent = Nowhere]
      [] OTHER -> h[n])

\* Each typename of the instance, with its argument.  None is left out: for a
\* default the lookup has failed an assertion (TemplateIsBest in Backend.tla).
Specialized(h, to, types) ==
  LET typename(g, i) == Typenames(g, to)[i]
      without(g, i)  == IF g[to].class = "ClassDecl"
                        THEN SetDefaultType(g, typename(g, i)) ELSE g
      set(g, i)      == without(SetSpecializedType(g, typename(g, i),
                                                   Argument(g, types[i])), i)
  IN FoldLeft(set, h, [i \in DOMAIN types |-> i])

\* instantiateClassTemplate, instantiateFunctionTemplate: the copy is put in
\* the package of the template.
TypeArguments(n, visited) ==
  {Primitive("Int32Ty")} \cup
  (IF Is(n, "ClassDecl") THEN {c \in visited : Is(c, "ClassDecl")} ELSE {})
Instantiate(n, types) ==
  /\ LET h  == Clone(heap, n)
         to == Cloned(heap)
     IN IF (\E c \in Whole(heap, n) : BareIf(heap, c))
           \/ ~Pairs(Copy(heap, n), n, to)
        THEN Crash
        ELSE /\ heap' = Specialized(Adopt(h, Owner(heap, n, "Package"), "objects", to),
                                    to, types)
             /\ instances' = instances \cup {<<n, to>>}
             /\ copied' = copied \cup (to..Len(h))
             /\ UNCHANGED <<stage, imports, imported, pc, round, todo,
                            conversions, freed>>

\* convertPrimitive, convertLogical: a node goes below the conversion.
Wrapped(n, h, conversion) ==
  LET parent == heap[n].parent
      used   == ReplaceUseWith(h, parent, n, conversion, FALSE)
  IN [used EXCEPT ![conversion].parent = parent,
                  ![conversion].ctx = heap[n].ctx]
Cast(n) ==
  LET type == Cloned(heap)
      wrapped(h) == Wrapped(n, Link(h, <<<<Len(h), "node", n>>, <<Len(h), "type", type>>>>),
                            Len(h))
  IN wrapped(Append(Clone(heap, Primitive("Int32Ty")), New("CastExpr", "", None)))
Comparison(n) ==
  LET h == heap \o <<New("NumericLiteral", "0", None), New("PrimaryExpr", "", None),
                     New("BinaryExpr", ">", None)>>
      literal == Len(heap) + 1  primary == Len(heap) + 2  compare == Len(heap) + 3
  IN Wrapped(n, Link(h, <<<<primary, "value", literal>>, <<compare, "left", n>>,
                          <<compare, "right", primary>>>>), compare)

\* The operand on the right is converted to the type on the left, a result to
\* that of the function, and a condition to a comparison.
Assigned(visited) ==
  UNION {Range(Kids(n, "right")) :
           n \in {m \in visited : Is(m, "BinaryExpr") /\ heap[m].is # ">"}}
  \cup UNION {Range(Kids(n, "result")) :
                n \in {m \in visited : Is(m, "BranchStmt")}}
Conditions(visited) ==
  UNION {Range(Kids(n, "cond")) :
           n \in {m \in visited : heap[m].class \in {"ForStmt", "WhileStmt"}}}
  \cup {Kids(n, "if_branch")[1] : n \in {m \in visited : Is(m, "IfElseStmt")}}

Unconverted(nodes) == {n \in nodes : ~Is(n, "CastExpr") /\ heap[n].is # ">"}
Insert(heaps) ==
  /\ conversions < MaxConversions
  /\ heap' \in heaps
  /\ conversions' = conversions + 1
  /\ UNCHANGED <<stage, imports, imported, pc, round, todo, instances, copied,
                 freed>>
InsertCast(visited)       == Insert({Cast(n) : n \in Unconverted(Assigned(visited))})
InsertComparison(visited) == Insert({Comparison(n) : n \in Unconverted(Conditions(visited))})

EndResolve ==
  /\ pc' = "convert"
  /\ UNCHANGED <<stage, heap, imports, imported, round, todo, instances,
                 copied, conversions, freed>>

\* A visit, and what it leads to.
Resolve ==
  /\ pc = "resolve"
  /\ LET visited == Resolving IN
     IF Ownerless(visited) # {} THEN Crash
     ELSE \/ \E n \in Templates(InTree) \ {i[1] : i \in instances} :
             \E types \in [1..Len(Typenames(heap, n)) -> TypeArguments(n, visited)] :
               Instantiate(n, types)
          \/ InsertCast(visited) \/ InsertComparison(visited)
          \/ EndResolve

-------------------------------------------------------------------------------
(* Implicit conversion of arguments *)

\* Calls in the text of a template have no callee.
Unresolved == {n \in InTree \cap Texts(InTree) :
                 Is(n, "CallExpr") /\ Kids(n, "parameters") # << >>}

\* An argument is cast to the type of the parameter, which is not copied.
ArgumentCast(call, i, type) ==
  LET argument == Kids(call, "parameters")[i]
      cast == Len(heap) + 1
      h == Append(heap, New("CastExpr", "", None))
      linked == Link(h, <<<<cast, "node", argument>>, <<cast, "type", type>>>>)
  IN [linked EXCEPT ![call].kids.parameters[i] = cast, ![cast].parent = call]

Callees(call) ==
  {f \in Resolving : /\ Is(f, "FunctionDecl") /\ ~IsTemplate(f)
                     /\ Len(Kids(f, "parameters")) = Len(Kids(call, "parameters"))}

\* Which arguments are of another type is left open, for one call.
Convert ==
  /\ pc = "convert"
  /\ IF Unresolved # {} THEN Crash
     ELSE /\ pc' = "save"
          /\ \/ heap' = heap
             \/ \E call \in {n \in Resolving : Is(n, "CallExpr")} :
                \E f \in Callees(call), i \in DOMAIN Kids(call, "parameters") :
                  heap' = ArgumentCast(call, i,
                            Kids(Kids(f, "parameters")[i], "type")[1])
          /\ UNCHANGED <<stage, imports, imported, round, todo, instances,
                         copied, conversions, freed>>

-------------------------------------------------------------------------------
(* Saving and loading, and the garbage collector *)

\* Tangle::save leaves out imported sources.
OwnSources ==
  LET sources == heap[root].kids.sources
      own == SelectSeq([i \in 1..(Len(sources) \div 2) |-> 2 * i],
                       LAMBDA i : sources[i] \notin imported)
  IN FlattenSeq([i \in DOMAIN own |-> <<sources[own[i] - 1], sources[own[i]]>>])

\* serialize, deserialize: the tree, and then the contexts of the nodes in the
\* order of a visit, of the tree that is saved and of the one that is loaded.
Loaded ==
  LET saved(n) == {f.name : f \in {g \in Range(Fields[heap[n].class]) :
                                     "save" \notin g.lacks}}
      tree == Each(heap, LAMBDA n :
                [heap[n] EXCEPT
                   !.kids = [f \in DOMAIN @ |-> IF f \in saved(n) THEN @[f] ELSE << >>],
                   !.ctx = Nowhere])
      own  == [tree EXCEPT ![root].kids.sources = OwnSources]
      from == Visit(heap, root)
      to   == Visit(own, root)
      last(n) == SelectLastInSeq(to, LAMBDA e : e = n)
  IN Each(own, LAMBDA n :
       IF n \in Range(to) THEN [own[n] EXCEPT !.ctx = heap[from[last(n)]].ctx]
       ELSE own[n])

SaveAndLoad ==
  /\ pc = "save"
  /\ heap' = Loaded /\ pc' = "loaded"
  /\ UNCHANGED <<stage, imports, imported, round, todo, instances, copied,
                 conversions, freed>>

\* The visitor deletes what it has not come by.
Collect ==
  /\ pc = "save"
  /\ freed' = DOMAIN heap \ InTree /\ pc' = "collected"
  /\ UNCHANGED <<stage, heap, imports, imported, round, todo, instances,
                 copied, conversions>>

Next ==
  \/ Merge \/ EndImport
  \/ Restructure \/ AddConstructor \/ SplitLocal \/ MoveMember \/ SplitCompound
  \/ Resolve
  \/ Convert \/ SaveAndLoad \/ Collect

Spec == Init /\ [][Next]_vars

-------------------------------------------------------------------------------
(* Properties *)

\* The parent of a node is the node that has it as a child: getOwner finds
\* what encloses a node.  Known to be without a parent are a function type
\* below its type specifier, and the statements of a block and the types of a
\* function type that a copy was made of; known to be shared, and to say to be
\* the child of the last that took them, are the names of annotations and of
\* members, the type of the constructors that were added, and the types of
\* parameters that arguments were cast to.
Orphaned(p, f) ==
  \/ heap[p].class = "TypeSpecifier" /\ f = "function_type"
  \/ p \in copied /\ heap[p].class \in {"Block", "FunctionType"}
Shared(p, f) ==
  <<heap[p].class, f>> \in
    {<<"Annotation", "name">>, <<"MemberExpr", "member">>, <<"Internal", "VoidTy">>,
     <<"FunctionDecl", "type">>, <<"VariableDecl", "type">>}
HasHome ==
  \A p \in Whole(heap, root) : \A f \in DOMAIN heap[p].kids :
    \A c \in Range(heap[p].kids[f]) :
      \/ heap[c].parent = p
      \/ Orphaned(p, f) /\ heap[c].parent = Nowhere
      \/ Shared(p, f) /\ c \in Children(heap, heap[c].parent)

\* An instance that is made is its template again, but for the type argument:
\* no field is lost, every node that a visitor comes by has the source location
\* of the node it is a copy of, and the instance is no template any more.
RECURSIVE IsCopy(_, _, _)
IsCopy(h, a, b) ==
  /\ h[a].class = h[b].class /\ h[a].is = h[b].is
  /\ h[a].class # "TypenameDecl" =>
       \A f \in DOMAIN h[a].kids :
         LET x == h[a].kids[f] y == h[b].kids[f] IN
         /\ Len(x) = Len(y)
         /\ \A i \in DOMAIN x : IsCopy(h, x[i], y[i])
  /\ h[b].ctx \in {h[a].ctx, Nowhere}
InstanceIsWhole ==
  [][\A i \in instances' \ instances :
       /\ IsCopy(heap', i[1], i[2])
       /\ IsFullySpecialized(heap', heap'[i[2]].kids.name[1])
       /\ \A n \in Visited(heap', i[2]) : heap'[n].ctx # Nowhere \/ n \in DOMAIN heap' \ copied']_vars

\* Restructuring ends, after two rounds at most, and nothing that a later
\* stage adds would be restructured.  Every constructor then initializes the
\* members that were declared with an initializer, but for the one that is
\* added to a class that declares others.
Added(f) == f > Len(program.heap)
Initializes(f, v) ==
  \E s \in Range(Kids(Kids(f, "block")[1], "objects")) :
    /\ Is(s, "ExpressionStmt") /\ Is(Kids(s, "expr")[1], "BinaryExpr")
    /\ LET left == Kids(Kids(s, "expr")[1], "left")[1] IN
       /\ Is(left, "PrimaryExpr")
       /\ IsEqual(heap, Kids(left, "value")[1], Kids(v, "name")[1])
MembersOf(c) == {v \in Range(Kids(c, "member_variables")) :
                   v \in DOMAIN program.heap /\ program.heap[v].kids.initializer # << >>}
InitializesAll(c) ==
  \A f \in Range(Constructors(c)) : \A v \in MembersOf(c) :
    Initializes(f, v) \/ (Added(f) /\ Constructors(c) # <<f>>)
Restructured ==
  /\ round <= 2
  /\ pc \in {"resolve", "convert", "save"} =>
       /\ Transforms = << >>
       /\ \A c \in {n \in InTree : Is(n, "ClassDecl")} : InitializesAll(c)

\* A tree that is loaded has the contexts it was saved with, and what the
\* garbage collector deletes is no part of the tree: the visitors come by all
\* of it but for the blocks of defaults, the names that imports give to
\* packages, and the interfaces that interfaces extend.  Contexts go to other
\* nodes when imported sources, which are not saved, come before others.
Missed(h) ==
  UNION {Range(h[s].kids.default_block) : s \in {n \in DOMAIN h : h[n].class = "SwitchStmt"}}
  \cup UNION {Whole(h, a) :
         a \in UNION {Range(h[i].kids.alias) :
                        i \in {n \in DOMAIN h : h[n].class = "Import"}}
              \cup UNION {Range(h[i].kids.extend_interfaces) :
                        i \in {n \in DOMAIN h : h[n].class = "InterfaceDecl"}}}
ImportedFirst ==
  LET sources == SelectSeq(heap[root].kids.sources, LAMBDA n : Is(n, "Source")) IN
  \E i, j \in DOMAIN sources :
    i < j /\ sources[i] \in imported /\ sources[j] \notin imported
TreeIsReached ==
  [][/\ pc' = "loaded" =>
          /\ \A n \in Visited(heap', root) : (heap'[n].ctx = heap[n].ctx) \/ ImportedFirst
          /\ \A n \in Whole(heap', root) \ Visited(heap', root) : n \in Missed(heap)
     /\ freed' \cap Whole(heap, root) \subseteq Missed(heap)]_vars

\* Where an assertion fails or a null pointer is followed the program gives
\* the reason: an if without an else; a variable that is initialized where no
\* statement can follow; a member with an initializer in a class of several
\* constructors, or of one without a body; and in a template a returned
\* value, a note, or a call with arguments.
Has(class, p(_)) == \E n \in DOMAIN program.heap : program.heap[n].class = class /\ p(n)
InTemplate(n) ==
  \E t \in DOMAIN program.heap :
    /\ program.heap[t].class \in {"FunctionDecl", "ClassDecl"}
    /\ program.heap[program.heap[t].kids.name[1]].class = "TemplatedIdentifier"
    /\ n \in Whole(program.heap, t)
Culprits ==
  LET h == program.heap IN
  \/ Has("IfElseStmt", LAMBDA n : BareIf(h, n))
  \/ Has("ForStmt", LAMBDA n : \E v \in Range(h[n].kids.init) : h[v].class = "VariableDecl")
  \/ Has("ClassDecl", LAMBDA n :
       /\ LET new == SelectSeq(h[n].kids.member_functions,
                               LAMBDA f : h[h[f].kids.name[1]].is = "new")
          IN Len(new) > 1 \/ (\E f \in Range(new) : h[f].kids.block = << >>)
       /\ \E m \in Whole(h, n) :
            h[m].class = "VariableDecl" /\ h[m].kids.initializer # << >>)
  \/ Has("BranchStmt", InTemplate)
  \/ Has("Annotations", InTemplate)
  \/ Has("CallExpr", LAMBDA n : InTemplate(n) /\ h[n].kids.parameters # << >>)
AbortHasCulprit == pc = "crashed" => Culprits
===============================================================================
