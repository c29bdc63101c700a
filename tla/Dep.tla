---------------------------------- MODULE Dep ----------------------------------
(***************************************************************************)
(* ts-dep: ThorScriptDepStage.  addFileDependency walks the imports of the *)
(* source files depth first and adds a vertex for each file and an edge    *)
(* for each import to a Boost graph; analyzeTangle then groups the files   *)
(* that import each other into tangles and writes the graph of tangles to  *)
(* ts.dep, where ts-make (Make.tla) finds it.                              *)
(*                                                                         *)
(* There is no set of visited files: a file is known by its out-edges.  A  *)
(* package that cannot be found ends addFileDependency in the middle: the  *)
(* edges made so far stay, no imported file is visited, and no caller      *)
(* looks at the result.                                                    *)
(***************************************************************************)
EXTENDS Naturals, Sequences, FiniteSets

CONSTANTS
  Files,    \* source files
  Asts,     \* .ast files of imported bundles
  nothing,  \* no file
  Projects  \* the projects: imports and input files

Nodes == Files \cup Asts

\* An import names the package of a bundle (its .ast), a source file or a
\* directory (all the source files below it).  parseFileImportedPackages
\* yields the imports of a file sorted by name; a file that cannot be parsed
\* has none.  Missing is a package that cannot be found.
Missing == {nothing}
Imports == Seq((SUBSET Nodes) \cup {Missing})

ASSUME ProjectAssumption ==
  /\ IsFiniteSet(Files) /\ IsFiniteSet(Asts)
  /\ Files \cap Asts = {}
  /\ nothing \notin Nodes
  /\ Projects \subseteq [imports : [Files -> Imports], inputs : SUBSET Files]

VARIABLES
  phase,    \* progress of execute
  project,  \* the source tree and the command line
  todo,     \* input files addFileDependency has still to be called for
  stack,    \* the active calls of addFileDependency, in their last loop
  vertices, \* the vertices of fileGraph ...
  edges,    \* ... and its edges
  tangles,  \* vertices of the tangle graph: sets of files
  depends   \* its edges: t |-> the tangles t imports from

graphVars == <<vertices, edges>>
outVars   == <<tangles, depends>>
vars      == <<phase, project, todo, stack, graphVars, outVars>>

-------------------------------------------------------------------------------
(* The graph of files *)

\* The imports of f that come before the first missing package.
Found(f) ==
  LET is == project.imports[f] IN
  {i \in DOMAIN is : \A j \in 1..i : is[j] # Missing}

Broken(f) == Found(f) # DOMAIN project.imports[f]

\* The files addFileDependency makes edges to.
Targets(f) == UNION {project.imports[f][i] : i \in Found(f)}

OutEdges(E, n) == {e \in E : e[1] = n}

\* The nodes that are in every set that holds n and is closed under E.
Reach(E, n) ==
  {m \in Nodes : \A S \in SUBSET Nodes :
     (n \in S /\ \A e \in E : e[1] \in S => e[2] \in S) => m \in S}

-------------------------------------------------------------------------------
(* The graph of tangles: the strongly connected components, without loops *)

Component(V, E, n) == {m \in V : m \in Reach(E, n) /\ n \in Reach(E, m)}

Components(V, E) == {Component(V, E, n) : n \in V}

\* (mutant of Below: edges inside a tangle are not filtered out)
BelowWithLoops(V, E, t) ==
  {u \in Components(V, E) : \E e \in E : e[1] \in t /\ e[2] \in u}

\* (mutant of Below: source and target of an edge swapped)
BelowReversed(V, E, t) ==
  {u \in Components(V, E) \ {t} : \E e \in E : e[2] \in t /\ e[1] \in u}

\* The components that have a member with an edge from a member of t.
Below(V, E, t) ==
  {u \in Components(V, E) \ {t} : \E e \in E : e[1] \in t /\ e[2] \in u}

-------------------------------------------------------------------------------

Init ==
  /\ phase = "start"
  /\ project \in Projects
  /\ todo = {}
  /\ stack = <<>>
  /\ vertices = {}
  /\ edges = {}
  /\ tangles = {}
  /\ depends = <<>>

\* The root, `src' or an input file does not exist, a bundle's .ast cannot be
\* read, or there is no input file.
Fail ==
  /\ phase = "start"
  /\ phase' = "failed"
  /\ UNCHANGED <<project, todo, stack, graphVars, outVars>>

Begin ==
  /\ phase = "start"
  /\ project.inputs # {}
  /\ phase' = "collect"
  /\ todo' = project.inputs
  /\ UNCHANGED <<project, stack, graphVars, outVars>>

\* (mutant of Call: no vertex for the targets of the edges)
CallWithoutTargets(f, below) ==
  IF OutEdges(edges, f) # {}
    THEN stack' = below /\ UNCHANGED graphVars
    ELSE /\ vertices' = vertices \cup {f}
         /\ edges' = edges \cup ({f} \X Targets(f))
         /\ stack' = below

\* (mutant of Call: a file is skipped if it has a vertex)
CallUnlessVertex(f, below) ==
  IF f \in vertices
    THEN stack' = below /\ UNCHANGED graphVars
    ELSE /\ vertices' = vertices \cup {f} \cup Targets(f)
         /\ edges' = edges \cup ({f} \X Targets(f))
         /\ stack' = IF Broken(f) THEN below
                     ELSE Append(below, [file |-> f, left |-> Targets(f),
                                         size |-> Cardinality(vertices')])

\* (mutant of Call: no file is skipped)
CallAlways(f, below) ==
  /\ vertices' = vertices \cup {f} \cup Targets(f)
  /\ edges' = edges \cup ({f} \X Targets(f))
  /\ stack' = Append(below, [file |-> f, left |-> Targets(f),
                             size |-> Cardinality(vertices')])

\* addFileDependency(f) up to its last loop, called with `below' the stack of
\* the caller.  It ends at once for a file that has out-edges, and before the
\* loop for a file with a missing package.
Call(f, below) ==
  IF OutEdges(edges, f) # {}
    THEN stack' = below /\ UNCHANGED graphVars
    ELSE /\ vertices' = vertices \cup {f} \cup Targets(f)
         /\ edges' = edges \cup ({f} \X Targets(f))
         /\ stack' = IF Broken(f) THEN below
                     ELSE Append(below, [file |-> f, left |-> Targets(f),
                                         size |-> Cardinality(vertices')])

CallInput(f) ==
  /\ phase = "collect" /\ stack = <<>>
  /\ f \in todo
  /\ todo' = todo \ {f}
  /\ Call(f, <<>>)
  /\ UNCHANGED <<phase, project, outVars>>

Top == stack[Len(stack)]
Callers == SubSeq(stack, 1, Len(stack) - 1)

\* The stack with n visited by the topmost call.
Past(n) ==
  Append(Callers, [file |-> Top.file, left |-> Top.left \ {n}, size |-> Top.size])

\* (mutant of CallTarget: `continue' without advancing the iterator)
CallTargetAgain(n) ==
  /\ phase = "collect" /\ stack # <<>>
  /\ n \in Top.left
  /\ IF n \in Asts THEN UNCHANGED <<stack, graphVars>>
                   ELSE Call(n, Past(n))
  /\ UNCHANGED <<phase, project, todo, outVars>>

\* The loop over the out-edges goes on: .ast files are skipped.
CallTarget(n) ==
  /\ phase = "collect" /\ stack # <<>>
  /\ n \in Top.left
  /\ IF n \in Asts THEN stack' = Past(n) /\ UNCHANGED graphVars
                   ELSE Call(n, Past(n))
  /\ UNCHANGED <<phase, project, todo, outVars>>

Return ==
  /\ phase = "collect" /\ stack # <<>>
  /\ Top.left = {}
  /\ stack' = Callers
  /\ UNCHANGED <<phase, project, todo, graphVars, outVars>>

\* The loop holds iterators into the out-edges of a vertex, and the vertices
\* are in a std::vector: if the calls have added vertices the iterators may be
\* dangling.  The program goes on if the memory still has its contents
\* (CallTarget, Return) and crashes otherwise.
Dangle ==
  /\ phase = "collect" /\ stack # <<>>
  /\ Cardinality(vertices) > Top.size
  /\ phase' = "crashed"
  /\ UNCHANGED <<project, todo, stack, graphVars, outVars>>

AnalyzeTangle ==
  /\ phase = "collect" /\ stack = <<>> /\ todo = {}
  /\ phase' = "done"
  /\ tangles' = Components(vertices, edges)
  /\ depends' = [t \in tangles' |-> Below(vertices, edges, t)]
  /\ UNCHANGED <<project, todo, stack, graphVars>>

Next ==
  \/ Fail \/ Begin \/ Return \/ Dangle \/ AnalyzeTangle
  \/ \E f \in Files : CallInput(f)
  \/ \E n \in Nodes : CallTarget(n)

Spec == Init /\ [][Next]_vars /\ WF_vars(Next)

-------------------------------------------------------------------------------
(* Properties *)

Frame == [file : Files, left : SUBSET Nodes, size : Nat]

TypeOK ==
  /\ phase \in {"start", "collect", "done", "failed", "crashed"}
  /\ project.inputs \subseteq Files
  /\ todo \subseteq Files
  /\ stack \in Seq(Frame)
  /\ vertices \subseteq Nodes
  /\ edges \subseteq vertices \X vertices
  /\ tangles \subseteq SUBSET Nodes
  /\ depends \in [tangles -> SUBSET tangles]

\* The recursion is bounded by the number of files whatever the imports are:
\* no file is in two active calls, though files may import each other and
\* themselves and nothing marks a file as visited.
NoReentry ==
  \A i, j \in DOMAIN stack : stack[i].file = stack[j].file => i = j

\* The files the walk has to visit: the inputs and, transitively, what the
\* files without a missing package import.
Visited ==
  {f \in Files : \A S \in SUBSET Files :
     (/\ project.inputs \subseteq S
      /\ \A g \in S : ~Broken(g) => Targets(g) \cap Files \subseteq S) => f \in S}

\* The graph is a function of the project: it does not depend on the order in
\* which the files are visited, though a visit may be cut short, repeated or
\* skipped.
FileGraphExact ==
  phase = "done" =>
    /\ edges = UNION {{f} \X Targets(f) : f \in Visited}
    /\ vertices = Visited \cup UNION {Targets(f) : f \in Visited}

\* What Make.tla assumes of ts.dep: the tangles are disjoint, every file that
\* was found is in one, the graph has no cycle (every set of tangles has a
\* member that depends on no member), and an .ast is a tangle of its own that
\* depends on nothing.
TangleGraphSound ==
  phase = "done" =>
    /\ UNION tangles = vertices
    /\ \A t, u \in tangles : t = u \/ t \cap u = {}
    /\ \A T \in SUBSET tangles : T # {} => \E t \in T : depends[t] \cap T = {}
    /\ \A a \in vertices \cap Asts : {a} \in tangles /\ depends[{a}] = {}

\* Every import between two tangles is an edge that ts-make waits on.
ImportsAreOrdered ==
  phase = "done" =>
    \A f \in Visited : \A n \in Targets(f) :
      \E t, u \in tangles : f \in t /\ n \in u /\ (t = u \/ u \in depends[t])

\* The walk ends.
Terminates == <>(phase \in {"done", "failed", "crashed"})
===============================================================================
