--------------------------------- MODULE Tree ---------------------------------
(***************************************************************************)
(* The syntax tree.  A class of nodes is given by its fields, in the order *)
(* in which the visitors follow them, and each field by the operations of  *)
(* the class that leave it out; the operations are written by hand for     *)
(* each class, so that what one of them forgets differs from class to      *)
(* class.  The tree lives in a heap, a sequence of nodes that name each    *)
(* other by their positions: a node may be shared, may have a parent that  *)
(* does not have it as a child, and may be left behind.                    *)
(***************************************************************************)
EXTENDS Naturals, SequencesExt, TLC

\* What a class defines for each field: isEqualImpl, replaceUseWith, clone
\* (which copies the field at all, copies what it points to, and makes the
\* copy its parent), serialize, and the apply of the visitor (which visits
\* what the field points to itself, or only what is below it).
Operations == {"equal", "replace", "copy", "deep", "adopt", "save", "visit",
               "itself"}

But(lacks, name) == [name |-> name, lacks |-> lacks]
Are(names)       == [i \in DOMAIN names |-> But({}, names[i])]

-------------------------------------------------------------------------------
(* Basic *)

Annotation  == <<But({"deep"}, "name")>> \o Are(<<"attribute_list">>)
Annotations == Are(<<"annotation_list">>)
Block       == <<But({"adopt"}, "objects")>>

SimpleIdentifier    == << >>
NestedIdentifier    == Are(<<"identifier_list">>)
TemplatedIdentifier == Are(<<"id", "templated_type_list">>)

ObjectLiteral  == << >>
NumericLiteral == << >>
StringLiteral  == << >>

\* The constructor makes an identifier its child, but not a function type.
TypeSpecifier == <<But({"adopt"}, "function_type")>> \o Are(<<"unspecified">>)
FunctionType  == <<But({"adopt"}, "parameter_types"),
                   But({"adopt"}, "return_type")>>

(* Module *)

Internal == Are(<<"VoidTy", "BooleanTy", "Int8Ty", "Int16Ty", "Int32Ty",
                  "Int64Ty", "Float32Ty", "Float64Ty", "ObjectTy",
                  "FunctionTy", "StringTy", "others">>)
\* The sources, each after its identifier.
Tangle  == Are(<<"internal">>) \o <<But({"copy"}, "sources")>>
Source  == Are(<<"imports", "root">>)
Package == Are(<<"annotations", "id", "children", "objects">>) \o
           <<But(Operations \ {"visit", "itself"}, "annotations")>> \* again
Import  == <<But({"visit"}, "alias")>> \o Are(<<"ns">>)

(* Declaration *)

Declaration   == Are(<<"annotations", "name">>)
ClassDecl     == Declaration \o
                 Are(<<"base", "implements", "member_functions",
                       "member_variables">>)
EnumDecl      == Declaration \o Are(<<"values">>)
FunctionDecl  == Declaration \o Are(<<"parameters">>) \o
                 <<But({"replace"}, "type")>> \o Are(<<"block">>)
InterfaceDecl == Declaration \o Are(<<"member_functions">>) \o
                 <<But(Operations, "extend_interfaces")>>
TypedefDecl   == Declaration \o Are(<<"type">>)
VariableDecl  == Declaration \o Are(<<"initializer", "type">>)
TypenameDecl  == Declaration \o Are(<<"specialized_type", "default_type">>)

(* Statement *)

Statement       == <<But({"copy"}, "annotations")>>
DeclarativeStmt == Statement \o Are(<<"declaration">>)
ExpressionStmt  == Statement \o Are(<<"expr">>)
BranchStmt      == Statement \o Are(<<"result">>)
ForStmtWithoutStep == Statement \o Are(<<"init", "cond", "block">>) \o
                      <<But({"copy"}, "step")>> \* mutant
ForStmt         == Statement \o Are(<<"init", "cond", "block", "step">>)
ForeachStmt     == Statement \o Are(<<"iterator", "range", "block">>)
WhileStmtUnseen == Statement \o Are(<<"cond">>) \o
                   <<But({"visit"}, "block")>> \* mutant
WhileStmt       == Statement \o Are(<<"cond", "block">>)
\* A branch is its condition and its block.
IfElseStmt      == Statement \o
                   Are(<<"if_branch", "elseif_branches", "else_block">>)
SwitchStmt      == Statement \o Are(<<"node", "cases">>) \o
                   <<But({"itself"}, "default_block")>>

(* Expression *)

PrimaryExpr == Are(<<"value">>)
UnaryExpr   == Are(<<"node">>)
BinaryExpr  == Are(<<"left", "right">>)
TernaryExpr == Are(<<"cond", "true_node", "false_node">>)
MemberExpr  == Are(<<"node">>) \o <<But({"deep"}, "member")>>
CallExpr    == Are(<<"node", "parameters">>)
CastExpr    == Are(<<"node", "type">>)

Fields ==
  [Annotation |-> Annotation, Annotations |-> Annotations, Block |-> Block,
   SimpleIdentifier |-> SimpleIdentifier,
   NestedIdentifier |-> NestedIdentifier,
   TemplatedIdentifier |-> TemplatedIdentifier,
   ObjectLiteral |-> ObjectLiteral, NumericLiteral |-> NumericLiteral,
   StringLiteral |-> StringLiteral, TypeSpecifier |-> TypeSpecifier,
   FunctionType |-> FunctionType, Internal |-> Internal, Tangle |-> Tangle,
   Source |-> Source, Package |-> Package, Import |-> Import,
   ClassDecl |-> ClassDecl, EnumDecl |-> EnumDecl,
   FunctionDecl |-> FunctionDecl, InterfaceDecl |-> InterfaceDecl,
   TypedefDecl |-> TypedefDecl, VariableDecl |-> VariableDecl,
   TypenameDecl |-> TypenameDecl, DeclarativeStmt |-> DeclarativeStmt,
   ExpressionStmt |-> ExpressionStmt, BranchStmt |-> BranchStmt,
   ForStmt |-> ForStmt, ForeachStmt |-> ForeachStmt, WhileStmt |-> WhileStmt,
   IfElseStmt |-> IfElseStmt, SwitchStmt |-> SwitchStmt,
   PrimaryExpr |-> PrimaryExpr, UnaryExpr |-> UnaryExpr,
   BinaryExpr |-> BinaryExpr, TernaryExpr |-> TernaryExpr,
   MemberExpr |-> MemberExpr, CallExpr |-> CallExpr, CastExpr |-> CastExpr]

Classes == DOMAIN Fields
Names(class) == {f.name : f \in Range(Fields[class])}

\* A function with its values worked out, and the heap with every node
\* rewritten.
Strict(f) == f @@ << >>
Each(heap, node(_)) == << >> \o [n \in DOMAIN heap |-> node(n)]

\* A node: what it is besides its class (a name, an operator), the nodes in
\* each field, the node it says to be a child of, and the node whose
\* contexts (source location, mangled name) it has.
Nowhere == 0
New(class, is, kids) ==
  [class |-> class, is |-> is,
   kids |-> Strict([f \in Names(class) |->
                     IF f \in DOMAIN kids THEN kids[f] ELSE << >>]),
   parent |-> Nowhere, ctx |-> Nowhere]


-------------------------------------------------------------------------------
(* Operations on the tree below a node *)

\* A binary expression is visited from the right where the operator
\* associates to the right.
RightAssociative == {"=", "+="}
FieldsOf(heap, n, ops) ==
  LET ordered(fields) == IF "visit" \in ops /\ heap[n].class = "BinaryExpr"
                                           /\ heap[n].is \in RightAssociative
                         THEN Reverse(fields) ELSE fields
  IN ordered(SelectSeq(Fields[heap[n].class], LAMBDA f : f.lacks \cap ops = {}))

\* The nodes that an operation goes on to from a node.
RECURSIVE Under(_, _, _)
Under(heap, n, ops) ==
  LET to(f) == IF "visit" \in ops /\ "itself" \in f.lacks
               THEN FlattenSeq([i \in DOMAIN heap[n].kids[f.name] |->
                                  Under(heap, heap[n].kids[f.name][i], ops)])
               ELSE heap[n].kids[f.name]
      all(fields) == FlattenSeq([i \in DOMAIN fields |-> to(fields[i])])
  IN all(FieldsOf(heap, n, ops))

\* The nodes that an operation comes by when it goes down from a node: each
\* before those below it, or (post) after them.
RECURSIVE Down(_, _, _)
Down(heap, pending, ops) ==
  IF pending = << >> THEN << >>
  ELSE LET n     == Head(pending)
           under == Under(heap, n, ops)
       IN <<n>> \o Down(heap, (IF "post" \in ops THEN Reverse(under) ELSE under)
                              \o Tail(pending), ops)
Walk(heap, n, ops) ==
  IF "post" \in ops THEN Reverse(Down(heap, <<n>>, ops))
  ELSE Down(heap, <<n>>, ops)

Visit(heap, n)   == Walk(heap, n, {"visit"})
Visited(heap, n) == Range(Visit(heap, n))

\* The children of a node, by any of its fields, and all that hangs below it.
Children(heap, n) ==
  UNION {Range(heap[n].kids[f]) : f \in DOMAIN heap[n].kids}
Whole(heap, n) == Range(Walk(heap, n, {}))

\* isEqual: the same classes and data, and equal children.
RECURSIVE IsEqual(_, _, _)
IsEqual(heap, a, b) ==
  /\ heap[a].class = heap[b].class /\ heap[a].is = heap[b].is
  /\ \A f \in Range(FieldsOf(heap, a, {"equal"})) :
       LET x == heap[a].kids[f.name] y == heap[b].kids[f.name] IN
       /\ Len(x) = Len(y)
       /\ \A i \in DOMAIN x : IsEqual(heap, x[i], y[i])

\* clone: the copies, in the order of the walk, at the end of the heap.  What
\* is not copied deeply is shared, and is made a child of the copy.
Adopted(heap, parents) ==
  Each(heap, LAMBDA c :
    IF \E a \in parents : a.child = c
    THEN [heap[c] EXCEPT !.parent = (CHOOSE a \in parents : a.child = c).parent]
    ELSE heap[c])
Copies(heap, old) ==
  LET new == Strict([o \in Range(old) |->
                       Len(heap) + SelectInSeq(old, LAMBDA e : e = o)])
      named(o, ops) == {f.name : f \in Range(FieldsOf(heap, o, ops))}
      kids(o, all, deep) ==
        Strict([f \in DOMAIN heap[o].kids |->
                  [i \in (IF f \in all THEN DOMAIN heap[o].kids[f] ELSE {}) |->
                     IF f \in deep THEN new[heap[o].kids[f][i]]
                                   ELSE heap[o].kids[f][i]]])
      copy(o) == [heap[o] EXCEPT !.kids = kids(o, named(o, {"copy"}),
                                               named(o, {"copy", "deep"})),
                                 !.parent = Nowhere, !.ctx = Nowhere]
      adopts(node, o) == UNION {Range(node.kids[f]) : f \in named(o, {"copy", "adopt"})}
      joined(nodes) ==
        Adopted(heap \o nodes,
                UNION {[child : adopts(nodes[i], old[i]), parent : {Len(heap) + i}] :
                         i \in DOMAIN old})
  IN joined(<< >> \o [i \in DOMAIN old |-> copy(old[i])])
Copy(heap, n) == Copies(heap, Walk(heap, n, {"copy", "deep"}))

\* The node that clone returns.
Cloned(heap) == Len(heap) + 1

\* ASTNodeHelper::clone copies the contexts as well: both trees are visited
\* and the nodes paired by the order of the visits.
ContextsForgotten(heap, from, to) == heap \* mutant
Contexts(heap, from, to) ==
  LET last(n) == SelectLastInSeq(to, LAMBDA e : e = n) IN
  Each(heap, LAMBDA n :
    IF n \in Range(to)
    THEN [heap[n] EXCEPT !.ctx = heap[from[last(n)]].ctx] ELSE heap[n])
Pairs(heap, n, copy) == Len(Visit(heap, n)) = Len(Visit(heap, copy))
WithContexts(copied, n, copy) ==
  Contexts(copied, Visit(copied, n), Visit(copied, copy))
Clone(heap, n) == WithContexts(Copy(heap, n), n, Cloned(heap))

\* replaceUseWith: of the node's own fields.
ReplaceUseWith(heap, n, from, to, update_parent) ==
  LET uses == {f.name : f \in Range(FieldsOf(heap, n, {"replace"}))}
      used == \E f \in uses : from \in Range(heap[n].kids[f])
      replaced(f) == [i \in DOMAIN heap[n].kids[f] |->
                        IF f \in uses /\ heap[n].kids[f][i] = from
                        THEN to ELSE heap[n].kids[f][i]]
      done == [heap EXCEPT ![n].kids = Strict([f \in DOMAIN @ |-> replaced(f)])]
  IN IF used /\ update_parent
     THEN [done EXCEPT ![to].parent = heap[from].parent,
                       ![from].parent = Nowhere]
     ELSE done

\* What a constructor or a setter does: the child is put at the end of the
\* field, or is what is in it, and has the node as its parent.
Adopt(heap, n, f, c) ==
  [heap EXCEPT ![n].kids[f] = Append(@, c), ![c].parent = n]

\* Block: a node is put before the others, or after one of them.
PrependObject(heap, block, object) ==
  [heap EXCEPT ![block].kids.objects = <<object>> \o @,
               ![object].parent = block]
InsertStray(heap, block, after, object) == \* mutant: no parent
  LET at == SelectInSeq(heap[block].kids.objects, LAMBDA o : o = after) IN
  [heap EXCEPT ![block].kids.objects = InsertAt(@, at + 1, object)]
InsertObjectAfter(heap, block, after, object) ==
  LET at == SelectInSeq(heap[block].kids.objects, LAMBDA o : o = after) IN
  IF at = 0 THEN heap
  ELSE [heap EXCEPT ![block].kids.objects = InsertAt(@, at + 1, object),
                    ![object].parent = block]

\* getOwner: the nearest node of a class among the parents.
RECURSIVE Owner(_, _, _)
Owner(heap, n, class) ==
  LET p == heap[n].parent IN
  IF p = Nowhere \/ heap[p].class = class THEN p ELSE Owner(heap, p, class)
HasOwner(heap, n, class) == Owner(heap, n, class) # Nowhere
===============================================================================
