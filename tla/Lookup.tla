--------------------------------- MODULE Lookup ---------------------------------
(***************************************************************************)
(* The visitor that looks for a name: the declarations it comes by when    *)
(* the scopes of a use are visited one after the other, and the comparison *)
(* of a name with the name of a declaration, templates included.           *)
(*                                                                         *)
(* A tree is a sequence of nodes, which are known by their places in it.   *)
(* A node is a record: n, its kind; name; args, the typenames of a         *)
(* template; of, what is in it; in, the packages below a package, or the   *)
(* types a class or an interface is derived from, or what stands for the   *)
(* default of a typename; type, that of a variable, the specialization of  *)
(* a typename, what a function returns; up, the node it is in; at, where   *)
(* it is in the text; is, its marks.                                       *)
(***************************************************************************)
EXTENDS Naturals, SequencesExt, FiniteSets

\* A type specifier: nothing; a primitive type; a name, and the node that it
\* is resolved to, if any; the same with arguments, which are typenames.
None        == [k |-> "none", is |-> 0, name |-> "", args |-> << >>]
Prim(p)     == [k |-> "primitive", is |-> p, name |-> "", args |-> << >>]
To(d)       == [k |-> "name", is |-> d, name |-> "", args |-> << >>]
Templ(name, args, d) == [k |-> "template", is |-> d, name |-> name, args |-> args]
Named(t)    == t.k \in {"name", "template"}
Function(d) == [k |-> "function", is |-> d, name |-> "", args |-> << >>]

\* findUniqueTypeResolution
RECURSIVE Unique(_, _)
Unique(w, t) ==
  CASE ~Named(t)   -> t
    [] t.is = 0    -> None
    [] w[t.is].n = "typename" /\ w[t.is].type # None -> Unique(w, w[t.is].type)
    [] OTHER       -> To(t.is)

IsTemplate(id) == id.args # << >>
RECURSIVE Specialized(_, _)
Specialized(w, args) ==
  \A i \in DOMAIN args :
    LET t == w[args[i]].type IN
    t # None /\ (t.k = "template" => Specialized(w, t.args))

-------------------------------------------------------------------------------
(* ResolutionVisitor::compare: a use differs from a declaration, is equal to *)
(* it, or is one that a template fits; or an assertion fails.                *)

RECURSIVE Compare(_, _, _, _)
CompareArg(w, call, use, decl) ==
  LET u == w[use].type  d == w[decl].type IN
  CASE d = None -> "equal"
    [] d # None /\ u.k = "template" /\ d.k = "template" -> Compare(w, call, u, d)
    [] OTHER    -> IF Unique(w, u) = Unique(w, d) THEN "equal" ELSE "differ"

\* Arguments that are left out are those of the declaration, which have a
\* default and no specialization.
CompareArgs(w, call, use, decl) ==
  LET rest == SubSeq(decl, Len(use) + 1, Len(decl))
      full == use \o rest
      open(t)  == Named(t) /\ Unique(w, t) = None
      stops(i) == \/ w[full[i]].type = None
                  \/ open(w[full[i]].type) \/ open(w[decl[i]].type)
      first == SelectInSeq([i \in DOMAIN full |-> stops(i)], LAMBDA s : s)
      each  == [i \in DOMAIN decl |-> CompareArg(w, call, full[i], decl[i])]
      fails == SelectInSeq(each, LAMBDA r : r \in {"differ", "abort"})
  IN CASE w[Last(decl)].name = "..." -> "fits"
       [] Len(decl) < Len(use) -> "differ"
       [] \E i \in DOMAIN rest : w[rest[i]].in = << >> -> "differ"
       [] first # 0 -> IF w[full[first]].type = None THEN "abort" ELSE "differ"
       [] OTHER -> IF fails # 0 THEN each[fails] ELSE "fits"

Compare(w, call, use, decl) ==
  CASE use.name # decl.name -> "differ"
    [] IsTemplate(use) /\ IsTemplate(decl) -> CompareArgs(w, call, use.args, decl.args)
    [] ~IsTemplate(use) /\ ~IsTemplate(decl) -> "equal"
    [] OTHER -> IF call /\ IsTemplate(decl) THEN "equal" ELSE "differ"

-------------------------------------------------------------------------------
(* A search q: path, the names that are left of a nested name; want, what is *)
(* looked for; call, whether the name is what is called; at, where it is.    *)
(* What it finds is a sequence of nodes, with Stop where code is reached     *)
(* that is not to be.                                                        *)

Stop == 0
IsLast(q)  == Len(q.path) = 1
Next1(q)   == [q EXCEPT !.path = Tail(@)]
Does(w, q, d) == Compare(w, q.call, Head(q.path), w[d])
Equals(w, q, d) == Does(w, q, d) = "equal"

\* useCanSeeFunctionScopeDecl: what is declared in a function must come first.
RECURSIVE InFunction(_, _)
InFunction(w, d) == w[d].up # 0 /\ (w[w[d].up].n = "function" \/ InFunction(w, w[d].up))
CanSeeAll(w, q, d) == TRUE \* mutant: wherever it is declared
CanSee(w, q, d) == InFunction(w, d) => w[d].at <= q.at

\* enlist, if the name of the node is the last one.
Enlist(w, q, d) ==
  CASE Does(w, q, d) = "abort"  -> <<Stop>>
    [] Does(w, q, d) = "differ" -> << >>
    [] OTHER -> IF IsLast(q) THEN <<d>> ELSE << >>

RECURSIVE Visit(_, _, _, _)
All(w, q, nodes, matched) ==
  FoldLeft(LAMBDA found, d : found \o Visit(w, q, d, matched), << >>, nodes)

\* What a type specifier is resolved to is followed.
Follow(w, q, t) == IF Named(t) /\ t.is # 0 THEN Visit(w, q, t.is, TRUE) ELSE << >>
FollowAll(w, q, types) ==
  FoldLeft(LAMBDA found, t : found \o Follow(w, q, t), << >>, types)

\* The package of an imported file, which is the innermost.
RECURSIVE Innermost(_, _)
Innermost(w, p) == IF w[p].in = << >> THEN p ELSE Innermost(w, Head(w[p].in))

\* An import is a scope, so that it has always been matched: with an alias,
\* whatever it is, all that is imported is visible.
VisitImport(w, q, d) ==
  LET alias == w[d].name
      roots == w[d].of
  IN CASE q.want # "package" /\ alias # "none" ->
            All(w, q, [i \in DOMAIN roots |-> Innermost(w, roots[i])], TRUE)
       [] q.want = "package" /\ alias # "none" ->
            IF alias # "." /\ Equals(w, q, d) /\ IsLast(q) THEN <<d>> ELSE << >>
       [] OTHER -> All(w, q, roots, TRUE)

\* The objects of a package that has not been matched are tried all the same.
VisitPackage(w, q, d, matched) ==
  LET fits == Equals(w, q, d) IN
  IF w[d].name = "" \/ matched
  THEN All(w, q, w[d].in, FALSE)
       \o IF q.want = "package" THEN << >> ELSE All(w, q, w[d].of, FALSE)
  ELSE (IF fits /\ ~IsLast(q) THEN All(w, Next1(q), w[d].in, FALSE) ELSE << >>)
       \o CASE q.want = "package" -> IF fits /\ IsLast(q) THEN <<d>> ELSE << >>
            [] OTHER -> All(w, q, w[d].of, FALSE)

\* The members of a class or an interface, and those that it inherits.  The
\* name before a member is not passed over in a class.
Members(w, q, d) == All(w, q, w[d].of, FALSE) \o FollowAll(w, q, w[d].in)
VisitClass(w, q, d, matched) ==
  CASE matched ->
         IF q.want = "symbol" /\ IsLast(q) THEN Members(w, q, d) ELSE << >>
    [] ~matched /\ q.want = "package" -> << >>
    [] ~matched /\ q.want = "symbol" /\ Does(w, q, d) \in {"equal", "fits"} /\ ~IsLast(q) ->
         IF w[d].n = "class" THEN Members(w, q, d) ELSE All(w, Next1(q), w[d].of, FALSE)
    [] OTHER ->
         IF q.want = "symbol" /\ w[d].n = "interface" /\ Enlist(w, q, d) # << >>
         THEN <<Stop>> ELSE Enlist(w, q, d)

VisitFunction(w, q, d, matched) ==
  CASE q.want # "symbol" -> << >>
    [] q.want = "symbol" /\ matched ->
         FoldLeft(LAMBDA found, p : found \o Enlist(w, q, p), << >>, w[d].of)
    [] OTHER -> Enlist(w, q, d)

VisitVariable(w, q, d, matched) ==
  CASE matched -> Follow(w, q, w[d].type)
    [] ~matched /\ q.want = "symbol" /\ Does(w, q, d) # "differ" /\ CanSee(w, q, d) ->
         IF IsLast(q) THEN Enlist(w, q, d) ELSE Follow(w, q, w[d].type)
    [] OTHER -> << >>

\* A typedef finds its type, which is no declaration.
VisitTypedef(w, q, d) ==
  IF q.want # "type" \/ Does(w, q, d) = "differ" THEN << >>
  ELSE IF IsLast(q) THEN <<d>> ELSE Follow(w, Next1(q), w[d].type)

\* useCanSeeTemplatedTypenameDecl
VisitTypename(w, q, d, matched) ==
  CASE matched -> <<Stop>>
    [] ~matched /\ Equals(w, q, d) /\ (q.in = w[d].up => w[d].at <= q.at) ->
         IF IsLast(q) THEN <<d>> ELSE <<Stop>>
    [] OTHER -> << >>

Visit(w, q, d, matched) ==
  CASE w[d].n = "import"   -> VisitImport(w, q, d)
    [] w[d].n = "package"  -> VisitPackage(w, q, d, matched)
    [] w[d].n \in {"class", "interface", "enum"} -> VisitClass(w, q, d, matched)
    [] w[d].n = "function" -> VisitFunction(w, q, d, matched)
    [] w[d].n = "variable" -> VisitVariable(w, q, d, matched)
    [] w[d].n = "typedef"  -> VisitTypedef(w, q, d)
    [] w[d].n = "typename" -> VisitTypename(w, q, d, matched)
    [] w[d].n = "block"    ->
         IF q.want = "symbol" THEN All(w, q, w[d].of, FALSE) ELSE << >>
    [] w[d].n = "foreach"  -> IF q.want = "symbol" THEN <<Stop>> ELSE << >>

-------------------------------------------------------------------------------
(* Where a lookup begins: nodes, which have been matched or not. *)

\* The typenames of a template are a scope of their own, around it.
Scope(w, want, s) ==
  <<[node |-> s, matched |-> TRUE]>>
  \o IF w[s].n \in {"class", "interface", "function"} /\ want = "type"
     THEN [i \in DOMAIN w[s].args |-> [node |-> w[s].args[i], matched |-> FALSE]]
     ELSE << >>

\* Resolver::enterScope, leaveScope: the scopes around a node, the imports of
\* its file last.
RECURSIVE ScopesAround(_, _)
ScopesAround(w, n) ==
  CASE n = 0 -> << >>
    [] n # 0 /\ w[n].n = "source" -> Reverse(w[n].of)
    [] OTHER -> <<n>> \o ScopesAround(w, w[n].up)

Around(w, want, n) ==
  FoldLeft(LAMBDA all, s : all \o Scope(w, want, s), << >>, ScopesAround(w, n))

\* ResolutionVisitor::resolve(ASTNode&): an expression stands for what it is
\* resolved to.
Inside(want, left) ==
  LET nodes == IF want = "package" THEN <<left.package>>
               ELSE <<left.symbol, left.package, IF Named(left.type) THEN left.type.is ELSE 0>>
      all(set) == [i \in DOMAIN set |-> [node |-> set[i], matched |-> TRUE]]
  IN all(SelectSeq(nodes, LAMBDA n : n # 0))

\* All are looked at, the innermost first, and each find is kept once.
KeptOnce(found) ==
  FoldLeft(LAMBDA kept, d : IF Contains(kept, d) THEN kept ELSE Append(kept, d),
           << >>, found)
Candidates(w, q, from) ==
  KeptOnce(FoldLeft(LAMBDA found, f : found \o Visit(w, q, f.node, f.matched), << >>, from))
===============================================================================
