-------------------------------- MODULE MCNames --------------------------------
(* Trees of declarations, and uses of the names in them. *)
EXTENDS Meaning

NodeOf(n, name, up) ==
  [n |-> n, name |-> name, args |-> << >>, of |-> << >>, in |-> << >>, type |-> None,
   up |-> up, at |-> 0, is |-> {}]
Typed(n, name, up, type) == [NodeOf(n, name, up) EXCEPT !.type = type]
Derived(name, up, bases) == [NodeOf("class", name, up) EXCEPT !.in = bases]
Local(name, up, at) == [Typed("variable", name, up, Prim(4)) EXCEPT !.at = at]

\* Nodes are listed in the node they are in.
Kids(t, i, P(_)) == SelectSeq([j \in DOMAIN t |-> j], LAMBDA j : t[j].up = i /\ P(j))
Linked(t) ==
  [i \in DOMAIN t |->
    [t[i] EXCEPT
      !.args = Kids(t, i, LAMBDA j : t[j].n = "typename"),
      !.of = CASE t[i].n = "import"   -> t[i].of
               [] t[i].n = "source"   -> Kids(t, i, LAMBDA j : t[j].n = "import")
               [] t[i].n = "function" -> Kids(t, i, LAMBDA j : t[j].n = "variable")
               [] t[i].n = "block"    -> Kids(t, i, LAMBDA j : t[j].n = "variable")
               [] OTHER -> Kids(t, i, LAMBDA j : t[j].n \notin {"package", "typename", "block"}),
      !.in = IF t[i].n = "package" THEN Kids(t, i, LAMBDA j : t[j].n = "package") ELSE @]]

Id(name) == [name |-> name, args |-> << >>]
Use(of, path, want, at) ==
  [of |-> of, path |-> [i \in DOMAIN path |-> Id(path[i])], want |-> want, call |-> FALSE,
   types |-> << >>, at |-> at, left |-> << >>]
Of(i, use) == [use EXCEPT !.left = <<i>>]
OfTree(tree, uses) == [tree |-> tree, uses |-> uses, functions |-> << >>]

-------------------------------------------------------------------------------
(* Scopes: up to three of the declarations that could be x are. *)

AsX(named, i) == IF i \in named THEN "x" ELSE "y" \o ToString(i)
Scopes(named, alias, kind) ==
  LET x(i) == AsX(named, i)
      top(i, up) == IF kind = "class" THEN NodeOf("class", x(i), up) ELSE Typed("variable", x(i), up, Prim(4))
  IN Linked(<<
    NodeOf("source", "", 0),
    [NodeOf("import", alias, 1) EXCEPT !.of = <<3>>],
    NodeOf("package", "", 0),
    NodeOf("package", "q", 3),
    top(5, 4),
    NodeOf("package", "", 1),
    top(7, 6),
    NodeOf("package", "p", 6),
    top(9, 8),
    NodeOf("package", "s", 8),
    top(11, 10),
    Derived("B", 8, << >>),
    Typed("variable", x(13), 12, Prim(4)),
    Derived("C", 8, <<To(12)>>),
    Typed("variable", x(15), 14, Prim(4)),
    Typed("function", "m", 14, Prim(0)),
    [Typed("variable", x(17), 16, Prim(4)) EXCEPT !.at = 1],
    NodeOf("block", "", 16),
    Local(x(19), 18, 2),
    NodeOf("block", "", 18),
    Local(x(21), 20, 4),
    Local(x(22), 18, 6),
    [Typed("variable", "o", 16, To(14)) EXCEPT !.at = 1],
    Typed("function", "g", 8, Prim(0)),
    NodeOf("block", "", 24),
    Typed("typename", x(26), IF kind = "class" THEN 16 ELSE 0, None)
  >>)
Slots == {5, 7, 9, 11, 13, 15, 17, 19, 21, 22}
UpTo(n, set) == UNION {kSubset(k, set) : k \in 0..n}
Aliases == {"none", ".", "al"}

SymbolUses == <<
  Use(20, <<"x">>, "symbol", 3), Use(20, <<"x">>, "symbol", 5), Use(25, <<"x">>, "symbol", 7),
  Use(20, <<"o">>, "symbol", 5), Of(4, Use(20, <<"x">>, "symbol", 5)),
  Use(20, <<"q", "x">>, "symbol", 5), Use(20, <<"p", "x">>, "symbol", 5),
  Use(20, <<"q">>, "symbol", 5), Of(8, Use(20, <<"x">>, "symbol", 5)),
  Use(20, <<"al">>, "symbol", 5), Of(10, Use(20, <<"x">>, "symbol", 5))>>
TypeUses == <<
  Use(20, <<"x">>, "type", 5), Use(25, <<"x">>, "type", 7),
  Use(20, <<"q", "x">>, "type", 5), Use(20, <<"p", "x">>, "type", 5)>>
ScopePrograms ==
  {OfTree(Scopes(named, alias, "variable"), SymbolUses) : named \in UpTo(3, Slots), alias \in Aliases}
  \cup {OfTree(Scopes(named, alias, "class"), TypeUses) :
          named \in UpTo(3, {5, 7, 9, 11, 26}), alias \in Aliases}

-------------------------------------------------------------------------------
(* Overloads: up to three functions of a pool.  A type To(-i) is the i-th     *)
(* typename of the function.                                                  *)

Fun(up, targs, params) ==
  [name |-> "f", up |-> up, targs |-> targs, params |-> params, ret |-> Prim(0), is |-> {}]
AddFunction(t, f) ==
  LET d == Len(t) + 1
      type(p) == IF p.k = "name" /\ p.is < 0 THEN To(d - p.is) ELSE p
  IN t \o <<[Typed("function", f.name, f.up, f.ret) EXCEPT !.is = f.is]>>
       \o [i \in DOMAIN f.targs |-> Typed("typename", "T", d, f.targs[i])]
       \o [i \in DOMAIN f.params |-> Typed("variable", "v", d, type(f.params[i]))]
WithFunctions(t, fs) == Linked(FoldLeft(AddFunction, t, fs))

Base == To(3)
More == To(4)
Top(g) == <<
  NodeOf("source", "", 0), NodeOf("package", "", 1),
  Derived("Base", 2, << >>), Derived("More", 2, <<To(3)>>),
  Typed("function", "m", 4, Prim(0)), NodeOf("block", "", 5),
  g, Typed("typename", "", 0, Prim(4))>>
Int32 == Prim(4)
Pool == <<
  Fun(2, << >>, <<Int32>>), Fun(2, << >>, <<Prim(8)>>), Fun(2, << >>, <<Base>>),
  Fun(2, <<None>>, <<To(-1)>>), Fun(2, <<None>>, <<To(-1), To(-1)>>),
  Fun(2, <<None, None>>, <<To(-1), To(-2)>>), Fun(2, <<Int32>>, <<To(-1)>>),
  Fun(2, <<None>>, <<To(-1), Base>>), Fun(2, <<Int32>>, <<Int32>>),
  Fun(2, << >>, <<Int32, Prim(8)>>), Fun(2, << >>, <<Prim(8), Int32>>), Fun(2, << >>, <<Prim(2), Prim(2)>>),
  Fun(4, << >>, <<Int32>>), Fun(3, << >>, <<Int32>>), Fun(3, << >>, <<Prim(8)>>), Fun(4, << >>, <<Prim(3)>>)>>
CallOfF(of, types, args) ==
  [Use(of, <<"f">>, "symbol", 9) EXCEPT !.call = TRUE, !.types = types,
     !.path = <<[name |-> "f", args |-> args]>>]
Calls == {CallOfF(6, ts, << >>) :
            ts \in {<<Int32>>, <<Prim(2)>>, <<Prim(8)>>, <<More>>}
                   \cup {<<a, b>> : a \in {Int32, Prim(2)}, b \in {Int32, More}}}
         \cup {CallOfF(6, ts, <<8>>) : ts \in {<<Int32>>, <<Prim(8)>>}}
MoreCalls == {CallOfF(6, ts, << >>) : ts \in {<<Base>>, <<None>>, << >>, <<Int32, Prim(8)>>}}
OverloadsOf(n, calls) ==
  {OfTree(WithFunctions(Top(NodeOf("package", "o", 2)), SetToSeq({Pool[i] : i \in pool})), <<c>>) :
     pool \in UpTo(n, DOMAIN Pool), c \in calls}
OverloadPrograms ==
  OverloadsOf(3, Calls) \cup OverloadsOf(2, MoreCalls)
  \cup {OfTree(WithFunctions(Top(g), <<Pool[i]>>), <<c>>) :
     g \in {NodeOf("class", "f", 2), Typed("variable", "f", 2, Base)}, i \in {1, 3}, c \in Calls}

-------------------------------------------------------------------------------
(* Class templates: up to three of a pool of Pair, with uses of one or two     *)
(* arguments.                                                                 *)

AddTemplate(t, targs) ==
  LET d == Len(t) + 1
      default(i) == IF i = 2 /\ targs = <<None, None>> THEN <<Prim(8)>> ELSE << >>
  IN t \o <<NodeOf("class", "Pair", 2)>>
       \o [i \in DOMAIN targs |-> [Typed("typename", "T", d, targs[i]) EXCEPT !.in = default(i)]]
ArgumentTypes == <<Prim(4), Prim(2), To(3), To(4), Prim(8)>>
Templates(pool) ==
  Linked(FoldLeft(AddTemplate,
    << NodeOf("source", "", 0), NodeOf("package", "", 1), Derived("Base", 2, << >>),
       Derived("More", 2, <<To(3)>>)>>
    \o [i \in DOMAIN ArgumentTypes |-> Typed("typename", "", 0, ArgumentTypes[i])],
    SetToSeq(pool)))
PairPool == {<<None, None>>, <<Prim(4), None>>, <<None, Prim(4)>>, <<Prim(4), Prim(4)>>,
             <<To(3), None>>, <<To(3), To(4)>>, <<None, Prim(8)>>}
PairUse(args) ==
  [Use(2, <<"Pair">>, "type", 9) EXCEPT !.path = <<[name |-> "Pair", args |-> args]>>]
PairUses == {PairUse(args) : args \in {<<a>> : a \in 5..7} \cup {<<a, b>> : a, b \in 5..9}}
\* Templates of a template: node 13 is the instance Pair<int32, int8>, 16 is
\* Pair<int8, int32>; 21 and 22 are arguments with their types.
NestedTree ==
  FoldLeft(AddTemplate,
    Templates({}) \o <<Typed("typename", "", 0, Prim(4)), Typed("typename", "", 0, Prim(2)),
                       Typed("typename", "", 0, None)>>,
    <<<<Prim(4), Prim(2)>>, <<Prim(2), Prim(4)>>>>)
  \o <<Typed("typename", "", 0, Prim(2)), Typed("typename", "", 0, Prim(4)),
       Typed("typename", "", 0, Templ("Pair", <<10, 11>>, 13)),
       Typed("typename", "", 0, Templ("Pair", <<19, 20>>, 16))>>
NestedPool == {<<None, None>>, <<Templ("Pair", <<20, 19>>, 13), None>>, <<Templ("Pair", <<12, 19>>, 13), None>>,
               <<Templ("Pair", <<12, 12>>, 13), None>>, <<None, Templ("Pair", <<12, 19>>, 13)>>,
               <<Templ("Pair", <<12, 12>>, 13), Prim(4)>>, <<To(4), None>>, <<Prim(4), None>>}
NestedPrograms ==
  {OfTree(Linked(FoldLeft(AddTemplate, NestedTree, SetToSeq(pool))), <<PairUse(<<a, b>>)>>) :
     pool \in UpTo(3, NestedPool), a \in {5, 8, 21, 22}, b \in {5, 21}}
TemplatePrograms ==
  {OfTree(Templates(pool), <<u>>) : pool \in UpTo(3, PairPool), u \in PairUses}
  \cup NestedPrograms

-------------------------------------------------------------------------------
(* Functions to be mangled: all lists of up to three parameters, in a package, *)
(* at the root, in classes, and in a template.                                *)

MCBytes == [e_acute |-> <<-61, -87>>, e_grave |-> <<-61, -88>>, e_tilde |-> <<-31, -70, -67>>]
ToMangle == <<
  NodeOf("source", "", 0), NodeOf("package", "", 1), NodeOf("package", "p", 2), NodeOf("package", "q", 2),
  NodeOf("class", "A", 3), NodeOf("class", "A", 4), NodeOf("class", "B", 3), NodeOf("enum", "E", 3),
  NodeOf("class", "Pair", 3), Typed("typename", "T", 9, To(5)), Typed("typename", "T", 9, To(8)),
  NodeOf("class", "ptr_", 2), Typed("typename", "T", 12, To(6)),
  NodeOf("class", "Open", 3), Typed("typename", "T", 14, None), NodeOf("interface", "I", 2)>>
Ca == Callback(Prim(0), <<To(5)>>)
Triples == {<<To(5), To(6), To(8)>>, <<To(5), To(7), Ca>>, <<To(9), To(5), To(12)>>,
            <<To(16), Callback(To(6), << >>), Prim(4)>>, <<To(8), To(7), Prim(2)>>}
\* All sequences of up to n members of a sequence.
Power(s, n) == FoldLeft(LAMBDA k, i : k * Len(s), 1, [i \in 1..n |-> i])
Sequences1(s, n) ==
  [i \in 1..Power(s, n) |-> [j \in 1..n |-> s[(((i - 1) \div Power(s, j - 1)) % Len(s)) + 1]]]
UpToLength(s, n) == FlattenSeq([k \in 1..(n + 1) |-> Sequences1(s, k - 1)])

Mangles(up, targs, ret, is, names, types, n) ==
  LET each(k) == [i \in DOMAIN UpToLength(types, n) |->
                   [name |-> names[k], up |-> up, targs |-> targs,
                    params |-> UpToLength(types, n)[i], ret |-> ret, is |-> is]]
  IN FlattenSeq([k \in DOMAIN names |-> each(k)])
F == <<"f">>
ManglePrograms ==
  {OfTree(WithFunctions(ToMangle, fs), << >>) : fs \in
    {Mangles(up, << >>, Prim(0), {}, F, types, 3) : types \in Triples, up \in {2, 3, 5, 9}}
    \cup {Mangles(5, << >>, Prim(0), {mark}, F, types, 2) \o Mangles(16, << >>, Prim(0), {mark}, F, types, 2) :
            mark \in {"static", "call_by_value"}, types \in Triples}
    \cup {Mangles(up, <<types[1], types[2]>>, types[1], {}, F, types, 2)
           \o Mangles(up, <<types[2], types[1]>>, types[3], {}, F, types, 2) :
            up \in {3, 6}, types \in Triples}
    \cup {Mangles(up, << >>, Prim(0), {}, names, types, 1) \o Mangles(other, << >>, Prim(0), {}, names, types, 1) :
            names \in {<<"f", "new", "e_acute">>, <<"e_acute", "e_grave", "e_tilde">>},
            up \in {3, 5, 6, 9}, other \in {2, 4, 7, 14}, types \in Triples}
    \cup {Mangles(up, << >>, Prim(0), {}, F, <<Prim(p)>>, 2) : p \in 0..11, up \in {2, 5}}}
===============================================================================
