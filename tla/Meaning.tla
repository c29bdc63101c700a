--------------------------------- MODULE Meaning ---------------------------------
(***************************************************************************)
(* What the names of a program mean, without the visitor and the filters   *)
(* that find it: the nearest declaration, the function that needs the      *)
(* least conversion, the template that fits the fewest uses, and the       *)
(* signature that a symbol stands for.                                     *)
(***************************************************************************)
EXTENDS Overloads, Mangling

NodesWhere(w, P(_)) == {d \in DOMAIN w : P(d)}
ObjectsOf(w, p) == NodesWhere(w, LAMBDA d : w[d].up = p /\ w[d].n # "package")

\* A class and what it is derived from, and what is declared in them.
RECURSIVE Lineage(_, _)
Lineage(w, c) == {c} \cup UNION {Lineage(w, w[c].in[i].is) : i \in DOMAIN w[c].in}
MembersOf(w, classes) ==
  NodesWhere(w, LAMBDA d : w[d].up \in classes /\ w[d].n \in {"variable", "function"})

IsTypeNode(w, d) == w[d].n \in {"class", "interface", "enum", "typedef", "typename"}
IsWanted(w, use, d) ==
  /\ w[d].name = Last(use.path).name
  /\ IF use.want = "type" THEN IsTypeNode(w, d) ELSE w[d].n # "typename"

\* What a scope declares: local names from where they are declared.
Declares(w, use, s) ==
  CASE w[s].n = "source" ->
         UNION {ObjectsOf(w, Innermost(w, w[i].of[1])) :
                  i \in {j \in DOMAIN w : w[j].n = "import" /\ w[j].name = "."}}
    [] w[s].n = "package" -> ObjectsOf(w, s)
    [] w[s].n \in {"class", "interface"} ->
         MembersOf(w, Lineage(w, s)) \cup Range(w[s].args)
    [] OTHER -> NodesWhere(w, LAMBDA d : w[d].up = s /\ w[d].at <= use.at)

RECURSIVE Chain(_, _)
Chain(w, n) == IF n = 0 THEN << >> ELSE <<n>> \o Chain(w, w[n].up)

\* What a use may mean, the nearest first.
Meanings(w, use) ==
  LET wanted(set) == {d \in set : IsWanted(w, use, d)}
      left  == use.left[1]
      chain == Chain(w, use.of)
  IN CASE use.left = << >> /\ Len(use.path) = 1 ->
            [i \in DOMAIN chain |-> wanted(Declares(w, use, chain[i]))]
       [] use.left = << >> /\ Len(use.path) # 1 ->
            <<wanted(NodesWhere(w, LAMBDA d :
                \E p \in Range(Chain(w, w[d].up)) : w[p].name = use.path[1].name))>>
       [] use.left # << >> /\ left.package # 0 -> <<wanted(ObjectsOf(w, left.package))>>
       [] OTHER -> IF Named(left.type) THEN <<wanted(MembersOf(w, Lineage(w, left.type.is)))>>
                   ELSE <<{}>>
Nearest(w, use) ==
  LET sets == Meanings(w, use)
      i == SelectInSeq(sets, LAMBDA s : s # {})
  IN IF i = 0 THEN {} ELSE sets[i]

\* The objects of other packages, which are found wherever they are.
Leaks(w, use) ==
  {d \in DOMAIN w : IsWanted(w, use, d) /\ w[d].up # 0 /\ w[w[d].up].n = "package"}

-------------------------------------------------------------------------------
\* The conversions that a call of a function needs.
Needs(w, e) == Needed(e.ranks, Kind(w, e.f))

\* Of functions that need the same, the method of a derived class hides that of
\* its base; then the one with fewer typenames is preferred.
Hides(w, a, b) ==
  /\ IsMember(w, a.f) /\ IsMember(w, b.f)
  /\ w[a.f].up # w[b.f].up /\ w[b.f].up \in Lineage(w, w[a.f].up)
BestCallees(w, able) ==
  Preferred(able, [e \in able |-> Needs(w, e)],
            {p \in able \X able : Hides(w, p[1], p[2])}, Typenames(w, able))

\* What can be called by the name of a use with its arguments.
Takes(w, use, d) ==
  LET given == Last(use.path).args IN
  /\ w[d].n = "function" /\ Len(w[d].of) = Len(use.types) /\ None \notin Range(use.types)
  /\ given = << >> \/ /\ Len(w[d].args) = Len(given)
                       /\ \A i \in DOMAIN given : w[w[d].args[i]].type \in {None, w[given[i]].type}
Able(w, use) ==
  {e \in {Evaluate(w, [args |-> Last(use.path).args, types |-> use.types], f) :
            f \in {d \in UNION Range(Meanings(w, use)) : Takes(w, use, d)}} : e.r = "success"}

\* The typenames of a template that no parameter is of, and the parameters that
\* are of classes.
Untold(w, f) ==
  LET types == {w[w[f].of[i]].type : i \in DOMAIN w[f].of}
      told  == {t.is : t \in {u \in types : Named(u)}}
  IN (Range(w[f].args) \ told) \cup (told \ Range(w[f].args))

\* The types that a template fits, of the types in a set.
RECURSIVE FitsType(_, _, _)
FitsType(w, pattern, t) ==
  \/ pattern \in {None, t}
  \/ /\ pattern.k = "template" /\ t.k = "template" /\ pattern.name = t.name
     /\ Len(pattern.args) = Len(t.args)
     /\ \A i \in DOMAIN t.args : FitsType(w, w[pattern.args[i]].type, w[t.args[i]].type)
FitsTypes(w, c, types) ==
  {ts \in [DOMAIN w[c].args -> types] :
     \A i \in DOMAIN ts : FitsType(w, w[w[c].args[i]].type, ts[i])}

-------------------------------------------------------------------------------
\* What the symbol of a function stands for; a parameter that is void is none.
Signature(w, f) ==
  [up |-> w[f].up, name |-> Encoded(w[f].name),
   params |-> IF Parameters(w, f) = <<Prim(0)>> THEN << >> ELSE Parameters(w, f),
   args |-> [i \in DOMAIN w[f].args |-> Unique(w, w[w[f].args[i]].type)]]
===============================================================================
