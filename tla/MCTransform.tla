----------------------------- MODULE MCTransform -----------------------------
(***************************************************************************)
(* Transform for TLC.  The programs are written as terms, and planted in   *)
(* a heap the way the semantic actions of the parser do it.                *)
(***************************************************************************)
EXTENDS Transform

T(class, is, kids) == [class |-> class, is |-> is, kids |-> kids]

\* The nodes of a term, from position at on.
RECURSIVE Plant(_, _, _)
Plant(t, at, parent) ==
  LET fields == SelectSeq(Fields[t.class], LAMBDA f : f.name \in DOMAIN t.kids)
      all    == FlattenSeq([i \in DOMAIN fields |->
                  [j \in DOMAIN t.kids[fields[i].name] |->
                     [f |-> fields[i].name, t |-> t.kids[fields[i].name][j]]]])
      add(nodes, k) ==
        LET c == at + Len(nodes)
            p == IF k.f = "function_type" THEN Nowhere ELSE at
        IN [nodes EXCEPT ![1].kids[k.f] = Append(@, c)] \o Plant(k.t, c, p)
      node == [New(t.class, t.is, None) EXCEPT !.parent = parent, !.ctx = at]
  IN FoldLeft(add, <<node>>, all)

Id(x)      == T("SimpleIdentifier", x, None)
Name(x)    == T("PrimaryExpr", "", [value |-> <<Id(x)>>])
One        == T("PrimaryExpr", "", [value |-> <<T("NumericLiteral", "1", None)>>])
Int32      == T("TypeSpecifier", "int32", None)
Named(x)   == T("TypeSpecifier", "", [unspecified |-> <<Id(x)>>])
Op(is, l, r) == T("BinaryExpr", is, [left |-> <<l>>, right |-> <<r>>])
Call(f, ps)  == T("CallExpr", "", [node |-> <<f>>, parameters |-> ps])
Member_(e, x) == T("MemberExpr", "", [node |-> <<e>>, member |-> <<Id(x)>>])

Stmt(e)    == T("ExpressionStmt", "", [expr |-> <<e>>])
Do(ss)     == T("Block", "", [objects |-> ss])
Var(x, init) == T("VariableDecl", "", [name |-> <<Id(x)>>, type |-> <<Int32>>,
                                       initializer |-> init])
VarStmt(x, init) == T("DeclarativeStmt", "", [declaration |-> <<Var(x, init)>>])
Return(e)  == T("BranchStmt", "return", [result |-> <<e>>])
If(branch, else) ==
  T("IfElseStmt", "", [if_branch |-> branch, else_block |-> else])
Note(x)    ==
  T("Annotations", "", [annotation_list |->
    <<T("Annotation", "", [name |-> <<Id(x)>>, attribute_list |-> <<Id("k"), One>>])>>])

Function(name, parameters, body) ==
  T("FunctionDecl", "", [name |-> <<name>>, parameters |-> parameters,
                         type |-> <<Int32>>, block |-> <<Do(body)>>])
Class(name, functions, variables) ==
  T("ClassDecl", "", [name |-> <<name>>, member_functions |-> functions,
                      member_variables |-> variables])
Typename(x, type) == T("TypenameDecl", "", [name |-> <<Id(x)>>, specialized_type |-> type])
TemplateOf(x, typenames) ==
  T("TemplatedIdentifier", "", [id |-> <<Id(x)>>, templated_type_list |-> typenames])
Template(x) ==
  TemplateOf(x, <<T("TypenameDecl", "", [name |-> <<Id("T")>>,
                                         default_type |-> <<Name("D")>>])>>)

\* C<T, U:int32> and C<T, U:D<V>>
Special ==
  {TemplateOf("C", <<Typename("T", << >>), Typename("U", <<type>>)>>) : type \in
     {Int32, T("TypeSpecifier", "", [unspecified |->
               <<TemplateOf("D", <<Typename("V", << >>)>>)>>])}}

-------------------------------------------------------------------------------
(* Programs *)

Bodies == {
  << >>,
  <<VarStmt("a", <<One>>), Stmt(Op("+=", Name("a"), Op("+=", Name("b"), One)))>>,
  <<T("ForStmt", "", [init |-> <<Var("i", <<One>>)>>, cond |-> <<Name("i")>>,
                      step |-> <<Name("i")>>, block |-> <<Do(<< >>)>>])>>,
  <<T("ForStmt", "", [init |-> <<Name("i")>>, cond |-> <<Name("i")>>,
                      step |-> <<Op("+=", Name("i"), One)>>]),
    T("WhileStmt", "", [cond |-> <<One>>, block |-> <<Do(<<Stmt(One)>>)>>])>>,
  <<If(<<Name("c"), Do(<<VarStmt("a", <<One>>)>>)>>, << >>)>>,
  <<If(<<Name("c"), Do(<< >>)>>, <<Do(<<Stmt(One)>>)>>)>>,
  <<T("SwitchStmt", "", [node |-> <<Name("c")>>, cases |-> <<One, Do(<< >>)>>,
                         default_block |-> <<Do(<<Stmt(Name("c"))>>)>>])>>,
  <<T("ExpressionStmt", "", [annotations |-> <<Note("static_test")>>,
                             expr |-> <<One>>])>>,
  <<Return(Name("x"))>>,
  <<Stmt(Call(Name("g"), <<Name("x")>>))>>,
  <<Stmt(Call(Member_(Name("x"), "m"), << >>)),
    T("ForeachStmt", "", [iterator |-> <<Var("v", << >>)>>, range |-> <<Name("x")>>]),
    VarStmt("l", <<T("PrimaryExpr", "", [value |->
      <<Function(Id(""), << >>, <<Return(One)>>)>>])>>)>>,
  <<Stmt(T("TernaryExpr", "", [cond |-> <<One>>, false_node |-> <<Name("x")>>,
      true_node |-> <<T("CastExpr", "", [node |-> <<T("UnaryExpr", "-",
                         [node |-> <<One>>])>>, type |-> <<Int32>>])>>])),
    T("DeclarativeStmt", "", [declaration |-> <<T("VariableDecl", "",
      [name |-> <<Id("f")>>, type |-> <<T("TypeSpecifier", "", [function_type |->
        <<T("FunctionType", "", [parameter_types |-> <<Named("C")>>,
                                 return_type |-> <<Int32>>])>>])>>])>>])>>}

g == Function(Id("g"), <<Var("p", << >>)>>, << >>)
Functions == {<<Function(name, <<Var("x", << >>)>>, body), g>> :
                name \in {Id("f"), Template("f")}, body \in Bodies}

\* Constructors by the numbers of their parameters, and members.
Constructor(n) == Function(Id("new"), [i \in 1..n |-> Var("p", << >>)], <<Stmt(One)>>)
Bodyless == T("FunctionDecl", "", [name |-> <<Id("new")>>])
ConstructorLists == {<< >>, <<Constructor(0)>>, <<Constructor(1)>>, <<Bodyless>>,
                     <<Constructor(0), Constructor(1)>>}
Members == {<< >>, <<Var("m", <<One>>)>>, <<Var("m", <<One>>), Var("n", <<One>>)>>}
Method(init) ==
  [Function(Id("h"), <<Var("q", init)>>, <<Stmt(Op("+=", Name("q"), One))>>)
     EXCEPT !.kids = @ @@ [annotations |-> <<Note("native")>>]]
ClassesOf(names) ==
  {<<Class(name, constructors \o <<Method(init)>>, members),
     Class(Id("D"), <<Constructor(0)>>, << >>)>> :
     name \in names, constructors \in ConstructorLists, members \in Members,
     init \in {<< >>, <<One>>}}

Specials == {<<Class(name, <<Constructor(0)>>, << >>),
               Class(Id("D"), <<Constructor(0)>>, << >>)>> : name \in Special}

Others ==
  {<<T("InterfaceDecl", "", [name |-> <<Id("I")>>,
       member_functions |-> <<T("FunctionDecl", "", [name |-> <<Id("k")>>])>>,
       extend_interfaces |-> <<Named("J")>>]),
     T("EnumDecl", "", [name |-> <<Id("E")>>, values |-> <<Var("e", <<One>>)>>]),
     T("TypedefDecl", "", [name |-> <<Id("t")>>, type |-> <<Int32>>])>>}

SourceOf(name, alias, objects) ==
  <<Id(name),
    T("Source", "",
      [imports |-> <<T("Import", "", [alias |-> alias, ns |-> <<Id("d")>>])>>,
       root |-> <<T("Package", "", [id |-> <<Id(name)>>, objects |-> objects])>>])>>
TangleOf(sources) ==
  T("Tangle", "", [sources |-> sources,
    internal |-> <<T("Internal", "", [VoidTy |-> <<T("TypeSpecifier", "void", None)>>,
                                      Int32Ty |-> <<Int32>>])>>])

\* A tangle whose source is in package b, and the tangles it imports.
Program(objects, packages) ==
  LET own == Plant(TangleOf(SourceOf("b", IF packages = << >> THEN <<Id("z")>>
                                         ELSE << >>, objects)), 1, Nowhere)
      add(h, p) == h \o Plant(TangleOf(SourceOf(p, << >>, <<g>>)),
                                    Len(h) + 1, Nowhere)
      trees == FoldLeft(add, own, packages)
      roots == SelectSeq([n \in DOMAIN trees |-> n],
                         LAMBDA n : n # 1 /\ trees[n].class = "Tangle")
  IN [heap |-> trees, root |-> 1, imports |-> roots]

MCOrder == <<"a", "b", "c">>
MCPrograms ==
  {Program(objects, << >>) :
     objects \in Functions \cup ClassesOf({Id("C"), Template("C")}) \cup Others \cup Specials}
  \cup {Program(objects, packages) :
     objects \in {<<g>>}, packages \in {<<"a">>, <<"c">>, <<"c", "a">>, <<"b">>}}
===============================================================================
