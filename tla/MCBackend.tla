------------------------------- MODULE MCBackend -------------------------------
(* Functions of up to three statements with statements in them. *)
EXTENDS Backend, MCNames

Node(n, is, of, in) == [n |-> n, is |-> is, of |-> of, in |-> in]
Lit        == Node("literal", "", << >>, << >>)
Var        == Node("variable", "", << >>, << >>)
Global     == Node("global", "", << >>, << >>)
Call(name) == Node("call", name, << >>, << >>)
CallOf(name, e) == Node("call", name, <<e>>, << >>)
Ternary(c, t, f) == Node("ternary", "", <<c, t, f>>, << >>)
Assign(l, r) == Node("assign", "", <<l, r>>, << >>)
Binary(is, l, r) == Node("binary", is, <<l, r>>, << >>)
Unary(is, e) == Node("unary", is, <<e>>, << >>)
Cast(is, e) == Node("cast", is, <<e>>, << >>)
Lambda     == Node("lambda", "", << >>, << >>)

Stmt(e)    == Node("expression", "", <<e>>, << >>)
Ret1(e)    == Node("return", "", <<e>>, << >>)
Break      == Node("break", "", << >>, << >>)
Decl       == Node("declaration", "", << >>, << >>)
In(b)      == Node("block", "", << >>, <<b>>)
If(c, b)   == Node("if", "", <<c>>, <<b>>)
IfElse(c, b, e) == Node("if", "", <<c>>, <<b, e>>)
ElseIf(c, b, d, e, o) == Node("if", "", <<c, d>>, <<b, e>> \o o)
While(c, b) == Node("while", "", <<c>>, <<b>>)
Do(b, c)   == Node("do", "", <<c>>, <<b>>)
For(i, c, s, b) == Node("for", "", <<i, c, s>>, <<b>>)
Foreach(b) == Node("foreach", "", << >>, <<b>>)
Switch(e, bs, o) == Node("switch", "", <<e>> \o [i \in DOMAIN bs |-> Lit], bs \o o)

\* Expressions: every kind, with calls where it matters how often and when.
Exprs1 ==
  {Lit, Var, Call("a"), CallOf("a", Var), CallOf("a", Call("b")),
   Assign(Var, Call("a")), Binary("+", Call("a"), Var), Unary("x++", Var),
   Ternary(Call("a"), Lit, Call("b")), Ternary(Call("a"), Var, Var),
   Ternary(Call("a"), Lit, Var), Ternary(Var, Lit, Lit),
   Ternary(Call("a"), Ternary(Call("b"), Lit, Lit), Lit),
   Ternary(Ternary(Call("a"), Lit, Lit), Lit, Lit),
   Ternary(Ternary(Call("a"), Var, Var), Lit, Lit),
   Binary("+", Ternary(Call("a"), Call("b"), Lit), Call("b")),
   Ternary(Call("a"), Assign(Var, Lit), Lit),
   Assign(Assign(Var, Call("a")), Call("b")), Unary("x++", Assign(Var, Call("a"))),
   Cast("converts", Call("a"))}
Crashing == {Lambda, CallOf("a", Global), Assign(Global, Lit), Unary("!", Call("a")),
             Binary("<<", Lit, Lit), Assign(Call("a"), Lit), Ternary(Global, Lit, Lit),
             Unary("x++", Call("a")), Unary("++x", Global), Cast("same size", Var)}

Conds == {Call("p"), Var, Ternary(Call("p"), Lit, Lit)}

\* Statements without others in them, and blocks of them.
Simple == {Stmt(Call("x")), Ret1(Lit), Break, In(<<Ret1(Call("y"))>>)}
Inner  == {<< >>} \cup {<<s>> : s \in Simple} \cup {<<s, Stmt(Call("z"))>> : s \in Simple}

Few == {<< >>, <<Stmt(Call("x"))>>, <<Ret1(Lit)>>}

Control(inner, conds) ==
  {If(c, b) : c \in conds, b \in inner}
  \cup {IfElse(c, b, e) : c \in conds, b \in inner, e \in Few}
  \cup {IfElse(c, b, e) : c \in conds, b \in Few, e \in inner}
  \cup {While(c, b) : c \in conds, b \in inner}
  \cup {Do(b, c) : c \in conds, b \in inner}
  \cup {For(Call("i"), c, Call("s"), b) : c \in conds, b \in inner}
  \cup {Switch(Call("e"), <<b>>, o) : b \in inner, o \in {<< >>, <<<<Ret1(Lit)>>>>}}
  \cup {Foreach(b) : b \in inner}

ElseIfs == {ElseIf(Call("p"), b, c, e, o) :
              b \in Few, e \in Few, c \in Conds, o \in {<< >>} \cup {<<f>> : f \in Few}}
Nested  == Control({<<s>> : s \in Control(Few, {Call("q")})}
                   \cup {<<s, Stmt(Call("n"))>> : s \in Control(Few, {Call("q")})},
                   {Call("p")})

\* A function that follows, with a context that the first one has left.
Second == <<Stmt(Call("k")), Ret1(Lit)>>
CodePrograms ==
  {<<<<Decl, Stmt(e), Ret1(Var)>>>> : e \in Exprs1 \cup Crashing}
  \cup {<<<<Ret1(e), Stmt(Call("d"))>>, Second>> : e \in Exprs1}
  \cup {<<<<s, Stmt(Call("d"))>>, Second>> : s \in Control(Inner, Conds) \cup ElseIfs \cup Simple}
  \cup {<<<<s>>, Second>> : s \in Control(Inner, {Call("p")})}
  \cup {<<<<s, Ret1(Lit)>>>> : s \in Nested}
OfCode(functions) == [tree |-> << >>, uses |-> << >>, functions |-> functions]
MCPrograms == {OfCode(c) : c \in CodePrograms} \cup ScopePrograms \cup OverloadPrograms
              \cup TemplatePrograms \cup ManglePrograms
===============================================================================
