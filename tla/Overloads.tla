-------------------------------- MODULE Overloads --------------------------------
(***************************************************************************)
(* The resolver: what it makes of the candidates of a name.  The callee of *)
(* a call is the function whose parameters need the least conversion; a    *)
(* class template is the most specialized that fits; any other name must   *)
(* have one candidate.  An outcome has the symbol, package and type that   *)
(* an expression is resolved to; how tells whether a template has to be    *)
(* instantiated, nothing was found, an assertion failed, or a null pointer *)
(* was followed.                                                           *)
(***************************************************************************)
EXTENDS Lookup, Ranking

Outcome(symbol, package, type, how) ==
  [symbol |-> symbol, package |-> package, type |-> type, how |-> how]
Missed  == Outcome(0, 0, None, "missed")
Aborts  == Outcome(0, 0, None, "abort")
Crashes == Outcome(0, 0, None, "crash")

Bool == 1
Float64 == 8

\* ASTNodeHelper::isInheritedFrom: a class is derived from itself.  If it has a
\* base class, its own interfaces are not looked at.
RECURSIVE Inherits(_, _, _)
Inherits(w, derived, base) ==
  LET above   == {w[derived].in[i].is : i \in DOMAIN w[derived].in} \ {0}
      classes == {c \in above : w[c].n = "class"}
  IN CASE w[derived].n = "class" /\ w[base].n = "class" ->
            derived = base \/ \E c \in classes : Inherits(w, c, base)
       [] w[derived].n = "class" /\ w[base].n = "interface" /\ classes # {} ->
            \E c \in classes : Inherits(w, c, base)
       [] OTHER -> \E i \in above : i = base \/ Inherits(w, i, base)

\* getConversionRank; function types cannot be compared.
Rank(w, from, to_specifier) ==
  LET to == Unique(w, to_specifier)
      arith(p) == p \in Bool..Float64
  IN CASE from.k # to.k -> NotMatch
       [] from.k = "primitive" /\ to.k = "primitive" ->
            CASE from.is = to.is -> Exact
              [] from.is < to.is /\ arith(from.is) /\ arith(to.is) -> Promotion
              [] from.is > to.is /\ arith(from.is) /\ arith(to.is) -> Standard
              [] OTHER -> NotMatch
       [] OTHER ->
            CASE from = to -> Exact
              [] /\ from # to /\ w[from.is].n = "class" /\ w[to.is].n = "class"
                 /\ Inherits(w, from.is, to.is) -> Standard
              [] OTHER -> NotMatch

-------------------------------------------------------------------------------
(* Deduction: a function from the typenames of the template to types, or why *)
(* there is none.                                                            *)

\* deductTypeByNormalArgs: a parameter whose type is the name of a class is
\* taken for one whose type is a typename.
Deduces(w, f, args) ==
  LET step(d, i) ==
        LET p == w[w[f].of[i]].type IN
        CASE d.r # "success" -> d
          [] Named(p) /\ Unique(w, p) = None -> [d EXCEPT !.r = "unknown"]
          [] ~Named(p) -> d
          [] w[p.is].n # "typename" -> [d EXCEPT !.r = "abort"]
          [] p.is \notin DOMAIN d.map -> [d EXCEPT !.map = (p.is :> args[i]) @@ @]
          [] OTHER -> IF d.map[p.is] = args[i] THEN d ELSE [d EXCEPT !.r = "fail"]
  IN FoldLeft(step, [r |-> "success", map |-> << >>], [i \in DOMAIN args |-> i])

\* deductTypeByQualifiedTypeArgs
Given(w, f, use) ==
  LET at(t) == CHOOSE i \in DOMAIN w[f].args : w[f].args[i] = t IN
  [r |-> "success", map |-> [t \in Range(w[f].args) |-> Unique(w, w[use.args[at(t)]].type)]]

\* isDeductedTypeMatchSpecialization: every typename must have been deduced.
FitsSpecialization(w, f, map) ==
  CASE DOMAIN map # Range(w[f].args) -> "abort"
    [] \A t \in DOMAIN map : map[t] = Unique(w, w[t].type) -> "yes"
    [] OTHER -> "no"

\* convertArugments: the ranks of the arguments, unless one does not match.
Ranks(w, f, args, map) ==
  [i \in DOMAIN args |->
    LET p == w[w[f].of[i]].type IN
    Rank(w, args[i], IF Named(p) /\ p.is \in DOMAIN map THEN map[p.is] ELSE p)]

\* evalAllFuncCandidates, for one of them.
Evaluate(w, use, f) ==
  LET d == CASE ~IsTemplate(w[f]) -> [r |-> "success", map |-> << >>]
             [] IsTemplate(w[f]) /\ IsTemplate(use) -> Given(w, f, use)
             [] OTHER -> Deduces(w, f, use.types)
      special == IsTemplate(w[f]) /\ Specialized(w, w[f].args)
      fits == IF d.r = "success" /\ special THEN FitsSpecialization(w, f, d.map) ELSE "yes"
      ranks == Ranks(w, f, use.types, d.map)
      r == CASE d.r # "success" -> d.r
             [] fits # "yes" -> IF fits = "abort" THEN "abort" ELSE "fail"
             [] \E i \in DOMAIN ranks : ranks[i] = NotMatch -> "fail"
             [] OTHER -> "success"
  IN [f |-> f, r |-> r, ranks |-> IF r = "success" THEN ranks ELSE << >>]

-------------------------------------------------------------------------------
\* funcTemplateType: no template, a specialization, a template.
Kind(w, f) == CASE ~IsTemplate(w[f]) -> 0
                [] IsTemplate(w[f]) /\ Specialized(w, w[f].args) -> 1
                [] OTHER -> 2

\* What a candidate is compared by, the worst ranks first.
Sorted(ranks) == SortSeq(ranks, LAMBDA a, b : a > b)
Key(w, e) == [ranks |-> Sorted(e.ranks), kind |-> Kind(w, e.f)]
SameWorst(w, a, b) == \* mutant: only the worst conversion counts
  \/ a.ranks # << >> /\ Sorted(a.ranks)[1] < Sorted(b.ranks)[1]
  \/ a.ranks = b.ranks /\ Kind(w, a.f) < Kind(w, b.f)
Better(w, a, b) == Beats(Key(w, a), Key(w, b))

\* isScopeBetterThan: members only, and those of one class beat each other.
IsMember(w, f) == w[w[f].up].n \in {"class", "interface"}
Closer(w, a, b) == IsMember(w, a.f) /\ IsMember(w, b.f) /\ Inherits(w, w[a.f].up, w[b.f].up)
CloserAborts(w, set) ==
  \E a \in set : \E b \in set \ {a} :
    IsMember(w, a.f) /\ IsMember(w, b.f)
    /\ w[w[a.f].up].n = "interface" /\ w[w[b.f].up].n = "class"

\* filterMatchedCandidateByNumberOfTypeParameters
Typenames(w, set) == [e \in set |-> Len(w[e.f].args)]
Fewest(w, set) == Least(set, Typenames(w, set))

\* applyResolveAction; getBestViable
Callee(w, f) ==
  IF Kind(w, f) = 2 THEN Outcome(f, 0, Function(f), "instance") ELSE Outcome(f, 0, Function(f), "bound")
Only(w, few) ==
  IF Cardinality(few) = 1 THEN Callee(w, (CHOOSE e \in few : TRUE).f) ELSE Missed
ByConversion(w, able)  == Unbeaten(able, {p \in able \X able : Better(w, p[1], p[2])})
ByScope(w, conv)       == Unbeaten(conv, {p \in conv \X conv : Closer(w, p[1], p[2])})
Closest(w, conv) ==
  IF CloserAborts(w, conv) THEN Aborts ELSE Only(w, Fewest(w, ByScope(w, conv)))
BestOf(w, each) ==
  LET stops == SelectInSeq(each, LAMBDA e : e.r \in {"unknown", "abort"}) IN
  IF stops # 0 THEN IF each[stops].r = "abort" THEN Aborts ELSE Missed
  ELSE Closest(w, ByConversion(w, {e \in Range(each) : e.r = "success"}))
Best(w, use, found) == BestOf(w, [i \in DOMAIN found |-> Evaluate(w, use, found[i])])

\* tryInstantiateFunctionTemplate: what is not a function has no parameters to
\* be counted.
ResolveCall(w, use, found) ==
  CASE \E i \in DOMAIN use.types : use.types[i] = None -> Missed
    [] \E i \in DOMAIN found : w[found[i]].n # "function" -> Crashes
    [] OTHER -> Best(w, use, SelectSeq(found, LAMBDA f : Len(w[f].of) = Len(use.types)))

-------------------------------------------------------------------------------
(* Class templates: isEquallyOrMoreSpecialized *)

Partial(w, t) == t.k = "template" /\ ~Specialized(w, t.args)
FirstNot(results) == LET i == SelectInSeq(results, LAMBDA r : r # "yes")
                     IN IF i = 0 THEN "yes" ELSE results[i]
RECURSIVE AtLeast(_, _, _)
AllAtLeast(w, as, bs) == FirstNot([i \in DOMAIN as |-> AtLeast(w, as[i], bs[i])])
AtLeast(w, a, b) ==
  LET s == w[a].type  t == w[b].type IN
  CASE t = None -> "yes"
    [] t # None /\ s = None -> "no"
    [] s # None /\ t # None /\ Named(s) # Named(t) -> "abort"
    [] Partial(w, s) /\ Partial(w, t) -> AllAtLeast(w, s.args, t.args)
    [] OTHER -> IF Partial(w, s) THEN "no" ELSE "yes"
AnyAtLeast(w, a, b) == \* mutant: one argument suffices
  IF \E i \in DOMAIN w[a].args : AtLeast(w, w[a].args[i], w[b].args[i]) = "yes" THEN "yes" ELSE "no"
MoreSpecialized(w, a, b) == AllAtLeast(w, w[a].args, w[b].args)

\* findMostSpecializedClassTemplate
MostSpecialized(w, found) ==
  LET over(a) == FirstNot([i \in DOMAIN found |->
                    IF found[i] = a THEN "yes" ELSE MoreSpecialized(w, a, found[i])])
      all == [i \in DOMAIN found |-> over(found[i])]
      most == {found[i] : i \in {j \in DOMAIN found : all[j] = "yes"}}
  IN CASE "abort" \in Range(all) -> Aborts
       [] Cardinality(most) = 1  ->
            LET c == CHOOSE c \in most : TRUE
            IN Outcome(0, 0, To(c), IF Specialized(w, w[c].args) THEN "bound" ELSE "instance")
       [] OTHER -> Missed

\* tryInstantiateClassTemplate, checkResolvedType
ResolveType(w, found) ==
  LET templates == found # << >> /\ \A i \in DOMAIN found :
                     w[found[i]].n = "class" /\ IsTemplate(w[found[i]])
      most == MostSpecialized(w, found)
  IN CASE templates /\ most.how # "missed" -> most
       [] Len(found) = 1 /\ w[found[1]].n \in {"class", "interface", "function", "enum", "typename"} ->
            Outcome(0, 0, To(found[1]), "bound")
       [] OTHER -> Missed

\* checkResolvedSymbol, for what is not called.
ResolveSymbol(w, found) ==
  IF Len(found) # 1 THEN Missed
  ELSE LET d == found[1]
           t == Unique(w, w[d].type)
       IN CASE w[d].n = "variable" -> IF t = None THEN Aborts ELSE Outcome(d, 0, t, "bound")
            [] w[d].n = "function" -> Outcome(d, 0, Function(d), "bound")
            [] w[d].n \in {"enum", "class", "interface"} -> Outcome(d, 0, To(d), "bound")
            [] OTHER -> Missed

\* checkResolvedPackage
ResolvePackage(found) ==
  IF Len(found) = 1 THEN Outcome(0, found[1], None, "bound") ELSE Missed

-------------------------------------------------------------------------------
(* A use: of, where it is; path, name and arguments of which it consists;    *)
(* want; call, and types, those of the arguments; at; left, the outcome that *)
(* a member belongs to, or nothing.                                          *)

Query(use, want) ==
  [path |-> use.path, want |-> want, call |-> use.call, at |-> use.at, in |-> 0]
Looked(w, use, want) ==
  Candidates(w, Query(use, want),
             IF use.left = << >> THEN Around(w, want, use.of) ELSE Inside(want, use.left[1]))

\* resolveSymbol, resolvePackage, resolveType
Among(w, use, want, found) ==
  CASE want = "package" -> ResolvePackage(found)
    [] want # "package" /\ Contains(found, Stop) -> Aborts
    [] want = "type" /\ ~Contains(found, Stop) -> ResolveType(w, found)
    [] want = "symbol" /\ ~Contains(found, Stop) ->
         IF use.call
         THEN ResolveCall(w, [args |-> Head(use.path).args, types |-> use.types], found)
         ELSE ResolveSymbol(w, found)

\* tryResolveType, tryResolveSymbolOrPackage: what is tried, until it is found.
RECURSIVE Try(_, _, _)
Try(w, use, wants) ==
  LET orElse(o) == IF o.how = "missed" /\ Len(wants) > 1 THEN Try(w, use, Tail(wants)) ELSE o
  IN orElse(Among(w, use, Head(wants), Looked(w, use, Head(wants))))
Resolve(w, use) ==
  Try(w, use, IF use.want = "type" THEN <<"type">> ELSE <<"symbol", "package">>)
===============================================================================
