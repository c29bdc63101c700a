-------------------------------- MODULE Mangling --------------------------------
(***************************************************************************)
(* The symbols of declarations: a walk up to the root package prints the   *)
(* names around a declaration, and what has been printed before is         *)
(* replaced by the number of the slot that it was given.  A symbol is a    *)
(* sequence of parts, each a string.  The mark "static" or "call_by_value" *)
(* of a declaration is in its field is.                                    *)
(***************************************************************************)
EXTENDS Lookup, Integers, TLC

CONSTANT Bytes \* of the names that have other bytes than letters and digits

\* A function type: what it returns, and what it takes.
Callback(ret, params) ==
  [k |-> "callback", is |-> 0, name |-> "", args |-> <<ret>> \o params]

\* The symbol so far, and the types that have slots; None is a slot that
\* nothing finds.
Put(m, part)  == [m EXCEPT !.out = Append(@, part)]
Slot(m, t)    == SelectInSeq(m.slots, LAMBDA s : s = t)
AddSlot(m, t) == IF Slot(m, t) # 0 THEN m ELSE [m EXCEPT !.slots = Append(@, t)]
AddDummy(m)   == [m EXCEPT !.slots = Append(@, None)]
WithoutSlot(m, i) == [m EXCEPT !.slots = RemoveAt(@, i)]

\* genSubstitutionSymbol, but for the digits.
Substitution(i) == IF i = 1 THEN "S_" ELSE "S" \o ToString(i - 2) \o "_"

\* encode: two characters of the number of a byte are kept, its sign is one.
Digits(b) == CASE b > 99 -> ToString(b \div 10)
               [] b <= 99 /\ b >= 0 -> ToString(b)
               [] b < 0 /\ b >= -9 -> ToString(b)
               [] b < -9 /\ b >= -99 -> "-" \o ToString((-b) \div 10)
               [] OTHER -> "-" \o ToString((-b) \div 100)
Encoded(name) ==
  IF name \notin DOMAIN Bytes THEN name
  ELSE FoldLeft(LAMBDA s, b : s \o "$" \o Digits(b) \o "$", "", Bytes[name])

Reserved == [ptr_ |-> "P", ref_ |-> "R", const_ |-> "K", void_ |-> "v"]
IsReserved(name) == name \in DOMAIN Reserved
\* mangle(SimpleIdentifier&)
Simple1(m, name) ==
  CASE IsReserved(name) -> Put(m, Reserved[name])
    [] name = "new"     -> Put(m, "C1")
    [] name = ""        -> m
    [] OTHER            -> Put(m, "#" \o Encoded(name)) \* # is the length

\* mangle(TypeSpecifier&), for primitive types; there are four that it is not
\* made for.
Unreachable == "unreachable"
Letter(p) == CASE p \in {6, 9, 10, 11} -> Unreachable
               [] OTHER -> <<"v", "b", "c", "s", "l", "x", "", "f", "d">>[p + 1]

IsOpen(w, d) == IsTemplate(w[d]) /\ ~Specialized(w, w[d].args)
IsRoot(w, d) == d # 0 /\ w[d].n = "package" /\ w[d].name = ""

-------------------------------------------------------------------------------
(* How deep in parameters the walk is, and whether objects are passed by     *)
(* value, is in c.                                                           *)

Deeper(c) == [c EXCEPT !.depth = @ + 1]

RECURSIVE Specifier(_, _, _, _), AliasedType(_, _, _, _),
          Declared(_, _, _, _, _, _), FullName(_, _, _, _, _, _)

\* mangle(TemplatedIdentifier&): the arguments that are classes are found again,
\* enums and interfaces are not.
Argument(w, m, c, arg) ==
  LET t == Unique(w, w[arg].type) IN
  CASE ~Named(t) -> Specifier(w, m, c, t)
    [] Named(t) /\ w[t.is].n = "class" -> AddSlot(AliasedType(w, m, c, t), t)
    [] OTHER -> Declared(w, m, c, t.is, FALSE, FALSE)
Arguments(w, m, c, args) ==
  FoldLeft(LAMBDA n, arg : Argument(w, n, Deeper(c), arg), m, args)
Name(w, m, c, d) ==
  LET named == Simple1(m, w[d].name) IN
  CASE ~IsTemplate(w[d]) -> named
    [] IsTemplate(w[d]) /\ IsReserved(w[d].name) -> Arguments(w, named, c, w[d].args)
    [] OTHER -> Put(Arguments(w, Put(AddDummy(named), "I"), c, w[d].args), "E")

\* mangleParentThenPrintName: names in others are put together, which only the
\* innermost begins and ends.
FlatName(w, m, c, d, uptrace, combo) == \* mutant: the name alone
  Name(w, IF c.depth = 0 THEN Put(m, "_Z") ELSE m, c, d)
FullName(w, m, c, d, uptrace, combo) ==
  LET ends     == ~uptrace /\ ~IsRoot(w, w[d].up)
      named(n) == IF w[d].n = "package" THEN AddSlot(AliasedType(w, n, c, To(d)), To(d))
                  ELSE Name(w, n, c, d)
      ended(n) == IF ends THEN Put(n, "E") ELSE n
  IN ended(named(Declared(w, m, c, w[d].up, TRUE, combo \/ ends)))

\* mangle(Package&), mangle(ClassDecl&), mangle(Declaration&)
Declared(w, m, c, d, uptrace, combo) ==
  CASE d = 0 \/ w[d].n = "source" -> m
    [] IsRoot(w, d) ->
         LET begun == IF c.depth = 0 THEN Put(m, "_Z") ELSE m
         IN IF combo THEN Put(begun, "N") ELSE begun
    [] w[d].n = "class" /\ IsOpen(w, d) -> m
    [] OTHER -> AddSlot(FullName(w, m, c, d, uptrace, combo), To(d))

\* mangle(TypeSpecifier&), mangle(FunctionType&)
Specifier(w, m, c, type) ==
  LET t == Unique(w, type) IN
  CASE t.k = "primitive" -> Put(m, Letter(t.is))
    [] Named(t)          -> AddSlot(Declared(w, m, c, t.is, FALSE, FALSE), t)
    [] t.k = "callback"  ->
         LET ret    == Specifier(w, Put(m, "PF"), c, t.args[1])
             params == IF Len(t.args) = 1 THEN Put(ret, "v")
                       ELSE FoldLeft(LAMBDA n, p : AliasedType(w, n, Deeper(c), p), ret, Tail(t.args))
         IN AddSlot(AddDummy(Put(params, "E")), t)

\* mangleAliasedType: objects are passed by pointer.
IsObject(w, t) == Named(t) /\ w[t.is].n # "enum" /\ ~IsReserved(w[t.is].name)
AliasedType(w, m, c, type) ==
  LET t == Unique(w, type) IN
  CASE t.k = "primitive" -> Specifier(w, m, c, t)
    [] t.k # "primitive" /\ Slot(m, t) # 0 -> Put(m, Substitution(Slot(m, t)))
    [] Named(t) /\ Slot(m, t) = 0 /\ w[t.is].n = "package" -> Simple1(m, w[t.is].name)
    [] OTHER -> Specifier(w, IF c.depth > 0 /\ IsObject(w, t) /\ ~c.value
                             THEN AddDummy(Put(m, "P")) ELSE m, c, t)

-------------------------------------------------------------------------------
(* mangle(FunctionDecl&) *)

HasThis(w, f) == w[w[f].up].n \in {"class", "interface"} /\ "static" \notin w[f].is

\* The first parameter of the class of a method: the pointer takes over the
\* slot that the class has had as this.
FirstOfThis(m, this) ==
  LET i == Slot(m, this)
  IN AddSlot(AddDummy(WithoutSlot(Put(Put(m, "P"), Substitution(i)), i)), this)

Parameters(w, f) == [i \in DOMAIN w[f].of |-> Unique(w, w[w[f].of[i]].type)]
ParameterList(w, m, c, f) ==
  LET types == Parameters(w, f)
      this  == To(w[f].up)
      first == IF HasThis(w, f) /\ ~c.value THEN SelectInSeq(types, LAMBDA t : t = this) ELSE 0
      param(n, i) ==
        IF i = first THEN FirstOfThis(n, this) ELSE AliasedType(w, n, c, types[i])
  IN IF types = << >> THEN Put(m, "v")
     ELSE FoldLeft(param, m, [i \in DOMAIN types |-> i])

\* The slots are emptied for functions only.  A method of a template that is
\* open is left half-way.
FunctionSymbol(w, f) ==
  LET c         == [depth |-> 0, value |-> "call_by_value" \in w[f].is]
      typed(m)  == IF IsTemplate(w[f]) THEN Specifier(w, m, c, w[f].type) ELSE m
      listed(m) == IF HasThis(w, f) /\ IsOpen(w, w[f].up) THEN m
                   ELSE ParameterList(w, m, Deeper(c), f)
  IN listed(typed(FullName(w, [out |-> << >>, slots |-> << >>], c, f, FALSE, FALSE)))

\* ManglingStageVisitor::apply: the symbol of a declaration, made with the slots
\* that the one before has left.
Mangled(w, slots, d) ==
  LET m == [out |-> << >>, slots |-> slots] IN
  CASE w[d].n = "function" -> IF IsOpen(w, d) THEN m ELSE FunctionSymbol(w, d)
    [] w[d].n \in {"class", "interface", "enum"} ->
         Declared(w, m, [depth |-> 0, value |-> FALSE], d, FALSE, FALSE)
    [] OTHER -> m
===============================================================================
