------------------------------- MODULE DepProofs -------------------------------
(***************************************************************************)
(* Proofs about Dep, for every project.  The first part shows that the     *)
(* strongly connected components of any finite graph form a graph without  *)
(* cycles, which is what ts-make relies on: of the components in a set the *)
(* one that reaches the fewest nodes depends on no other.  The second part *)
(* shows that the walk collects exactly the imports it should.             *)
(***************************************************************************)
EXTENDS Dep, Measures, SequenceTheorems

-------------------------------------------------------------------------------
(* Reachability *)

LEMMA ReachSelf ==
  ASSUME NEW E, NEW n \in Nodes
  PROVE  n \in Reach(E, n)
BY DEF Reach

LEMMA ReachTransitive ==
  ASSUME NEW E, NEW n, NEW m \in Reach(E, n), NEW k \in Reach(E, m)
  PROVE  k \in Reach(E, n)
BY DEF Reach

LEMMA ReachEdge ==
  ASSUME NEW E, NEW e \in E, e[2] \in Nodes
  PROVE  e[2] \in Reach(E, e[1])
BY DEF Reach

LEMMA ComponentsAreDisjoint ==
  ASSUME NEW V \in SUBSET Nodes, NEW E,
         NEW t \in Components(V, E), NEW u \in Components(V, E),
         NEW n \in t, n \in u
  PROVE  t = u
<1>1. PICK a \in V : t = Component(V, E, a)
  BY DEF Components
<1>2. PICK b \in V : u = Component(V, E, b)
  BY DEF Components
<1>3. /\ n \in Reach(E, a) /\ a \in Reach(E, n)
      /\ n \in Reach(E, b) /\ b \in Reach(E, n)
  BY <1>1, <1>2 DEF Component
<1>4. a \in Reach(E, b) /\ b \in Reach(E, a)
  BY <1>3, ReachTransitive
<1>5. ASSUME NEW m \in t PROVE m \in u
  BY <1>1, <1>2, <1>4, <1>5, ReachTransitive DEF Component
<1>6. ASSUME NEW m \in u PROVE m \in t
  BY <1>1, <1>2, <1>4, <1>6, ReachTransitive DEF Component
<1> QED
  BY <1>5, <1>6

LEMMA ComponentsCover ==
  ASSUME NEW V \in SUBSET Nodes, NEW E
  PROVE  /\ UNION Components(V, E) = V
         /\ \A n \in V : n \in Component(V, E, n)
         /\ \A t \in Components(V, E) : t # {} /\ t \subseteq V
BY ReachSelf DEF Components, Component

-------------------------------------------------------------------------------
(* The components have no cycle *)

\* The nodes that can be reached from a set.
ReachSet(E, t) == UNION {Reach(E, n) : n \in t}

LEMMA ReachSetFinite ==
  ASSUME NEW E, NEW t
  PROVE  /\ ReachSet(E, t) \in SUBSET Nodes
         /\ IsFiniteSet(ReachSet(E, t))
         /\ Cardinality(ReachSet(E, t)) \in Nat
<1>1. IsFiniteSet(Nodes)
  BY ProjectAssumption, FS_Union DEF Nodes
<1>2. ReachSet(E, t) \in SUBSET Nodes
  BY DEF ReachSet, Reach
<1> QED
  BY <1>1, <1>2, FS_Subset, FS_CardinalityType

\* A component reaches more than the components it depends on.
LEMMA BelowReachesLess ==
  ASSUME NEW V \in SUBSET Nodes, NEW E \in SUBSET (V \X V),
         NEW t \in Components(V, E), NEW u \in Below(V, E, t)
  PROVE  Cardinality(ReachSet(E, u)) < Cardinality(ReachSet(E, t))
<1>1. u \in Components(V, E) /\ u # t
  BY DEF Below
<1>2. PICK e \in E : e[1] \in t /\ e[2] \in u
  BY DEF Below
<1>3. e[1] \in V /\ e[2] \in V
  OBVIOUS
<1>4. e[2] \in Reach(E, e[1])
  BY <1>3, ReachEdge
<1>5. \A m \in u : m \in Reach(E, e[2])
  <2> TAKE m \in u
  <2>1. PICK b \in V : u = Component(V, E, b)
    BY <1>1 DEF Components
  <2>2. m \in Reach(E, b) /\ b \in Reach(E, e[2])
    BY <1>2, <2>1 DEF Component
  <2> QED
    BY <2>2, ReachTransitive
<1>6. ReachSet(E, u) \subseteq ReachSet(E, t)
  <2> SUFFICES ASSUME NEW m \in u, NEW k \in Reach(E, m)
               PROVE  k \in ReachSet(E, t)
    BY DEF ReachSet
  <2>1. k \in Reach(E, e[1])
    BY <1>4, <1>5, ReachTransitive
  <2> QED
    BY <1>2, <2>1 DEF ReachSet
<1>7. e[1] \in ReachSet(E, t)
  BY <1>2, <1>3, ReachSelf DEF ReachSet
<1>8. e[1] \notin ReachSet(E, u)
  <2> SUFFICES ASSUME NEW m \in u, e[1] \in Reach(E, m) PROVE FALSE
    BY DEF ReachSet
  <2>1. e[1] \in Reach(E, e[2])
    BY <1>5, ReachTransitive
  <2>2. e[1] \in Component(V, E, e[2])
    BY <1>3, <1>4, <2>1 DEF Component
  <2>3. /\ Component(V, E, e[2]) \in Components(V, E)
        /\ e[2] \in Component(V, E, e[2])
    BY <1>3, ComponentsCover DEF Components
  <2>4. Component(V, E, e[2]) = u
    BY <1>1, <1>2, <2>3, ComponentsAreDisjoint
  <2> QED
    BY <1>1, <1>2, <2>2, <2>4, ComponentsAreDisjoint
<1>9. /\ Cardinality(ReachSet(E, u)) <= Cardinality(ReachSet(E, t))
      /\ Cardinality(ReachSet(E, u)) # Cardinality(ReachSet(E, t))
  BY <1>6, <1>7, <1>8, ReachSetFinite, FS_Subset
<1> QED
  BY <1>9, ReachSetFinite

\* A set of natural numbers has a least member.
LEMMA LeastNatural ==
  ASSUME NEW N \in SUBSET Nat, N # {}
  PROVE  \E k \in N : \A j \in N : ~(j < k)
<1>1. PICK k \in N : \A j \in N : ~(<<j, k>> \in OpToRel(<, Nat))
  BY NatLessThanWellFounded, WFMin
<1>2. \A j \in N : j < k => <<j, k>> \in OpToRel(<, Nat)
  BY DEF OpToRel
<1> QED
  BY <1>1, <1>2

\* What ts-make needs to come to an end: every set of tangles has a member
\* that depends on no member of the set.
THEOREM ComponentsHaveNoCycle ==
  ASSUME NEW V \in SUBSET Nodes, NEW E \in SUBSET (V \X V),
         NEW T \in SUBSET Components(V, E), T # {}
  PROVE  \E t \in T : Below(V, E, t) \cap T = {}
<1> DEFINE N == {Cardinality(ReachSet(E, t)) : t \in T}
<1>1. N \in SUBSET Nat /\ N # {}
  BY ReachSetFinite
<1>2. PICK k \in N : \A j \in N : ~(j < k)
  BY <1>1, LeastNatural
<1>3. PICK t \in T : k = Cardinality(ReachSet(E, t))
  OBVIOUS
<1>4. ASSUME NEW u \in Below(V, E, t) \cap T PROVE FALSE
  <2>1. Cardinality(ReachSet(E, u)) < k
    BY <1>3, <1>4, BelowReachesLess
  <2> QED
    BY <1>2, <2>1
<1> QED
  BY <1>3, <1>4

-------------------------------------------------------------------------------
(* The walk *)

TypeInv == TypeOK /\ project \in Projects

\* f has a vertex and all its edges.
Expanded(f) == f \in vertices /\ {f} \X Targets(f) \subseteq edges

\* The active calls are for files that the walk has to visit, and each has
\* still to visit files that its file imports.
GoodFrames ==
  \A i \in DOMAIN stack :
    /\ stack[i].file \in Visited
    /\ ~Broken(stack[i].file)
    /\ Expanded(stack[i].file)
    /\ stack[i].left \subseteq Targets(stack[i].file)

\* A call that has called others is for a file with out-edges ...
CallersHaveEdges ==
  \A i \in DOMAIN stack :
    i < Len(stack) => OutEdges(edges, stack[i].file) # {}

\* ... and a file with out-edges has all of them.
EdgesAreExact ==
  /\ \A f \in Files : OutEdges(edges, f) # {} => Expanded(f)
  /\ \A e \in edges : e[1] \in Visited /\ e[2] \in Targets(e[1])
  /\ \A n \in vertices : n \in Visited \/ \E f \in Visited : n \in Targets(f)

\* A call for f is going to visit n.
Pending(st, f, n) == \E i \in DOMAIN st : st[i].file = f /\ n \in st[i].left

\* What has been left behind is complete: the inputs that have been called,
\* and the imports of a file with its edges unless they are still pending.
ImportsFollowed ==
  \A f \in Files : Expanded(f) /\ ~Broken(f) =>
    \A n \in Targets(f) \cap Files : Expanded(n) \/ Pending(stack, f, n)

NothingForgotten ==
  /\ phase \in {"collect", "done"} =>
       \A f \in project.inputs \ todo : Expanded(f)
  /\ ImportsFollowed

AtEnd ==
  phase = "done" =>
    /\ stack = <<>> /\ todo = {}
    /\ tangles = Components(vertices, edges)
    /\ depends = [t \in tangles |-> Below(vertices, edges, t)]

StackInv == GoodFrames /\ CallersHaveEdges /\ NoReentry /\ EdgesAreExact

WalkInv ==
  /\ todo \subseteq project.inputs
  /\ StackInv
  /\ NothingForgotten
  /\ AtEnd

IInv == TypeInv /\ WalkInv

LEMMA TargetsAreNodes ==
  ASSUME project \in Projects, NEW f \in Files
  PROVE  Targets(f) \subseteq Nodes
<1>1. project.imports[f] \in Imports
  BY ProjectAssumption
<1>2. \A i \in Found(f) : project.imports[f][i] \in SUBSET Nodes
  BY <1>1 DEF Found, Imports
<1> SUFFICES ASSUME NEW n \in Targets(f) PROVE n \in Nodes
  OBVIOUS
<1>3. PICK i \in Found(f) : n \in project.imports[f][i]
  BY DEF Targets
<1> QED
  BY <1>2, <1>3

LEMMA NodesAreFinite ==
  /\ IsFiniteSet(Nodes)
  /\ \A V \in SUBSET Nodes : IsFiniteSet(V) /\ Cardinality(V) \in Nat
<1>1. IsFiniteSet(Nodes)
  BY ProjectAssumption, FS_Union DEF Nodes
<1> QED
  BY <1>1, FS_Subset, FS_CardinalityType

LEMMA CallType ==
  ASSUME TypeInv, NEW f \in Files, NEW below \in Seq(Frame), Call(f, below)
  PROVE  /\ vertices' \subseteq Nodes
         /\ edges' \subseteq vertices' \X vertices'
         /\ stack' \in Seq(Frame)
<1>1. CASE OutEdges(edges, f) # {}
  BY <1>1 DEF Call, TypeInv, TypeOK, graphVars
<1>2. CASE OutEdges(edges, f) = {}
  <2>1. /\ vertices' = vertices \cup {f} \cup Targets(f)
        /\ edges' = edges \cup ({f} \X Targets(f))
    BY <1>2 DEF Call
  <2>2. Targets(f) \subseteq Nodes
    BY TargetsAreNodes DEF TypeInv
  <2>3. vertices' \subseteq Nodes /\ edges' \subseteq vertices' \X vertices'
    BY <2>1, <2>2 DEF TypeInv, TypeOK, Nodes
  <2>4. [file |-> f, left |-> Targets(f), size |-> Cardinality(vertices')] \in Frame
    BY <2>2, <2>3, NodesAreFinite DEF Frame
  <2>5. stack' \in Seq(Frame)
    BY <1>2, <2>4 DEF Call
  <2> QED
    BY <2>3, <2>5
<1> QED
  BY <1>1, <1>2

\* The stack of the caller, and with one target less to visit.
LEMMA CallersType ==
  ASSUME TypeInv, stack # <<>>
  PROVE  /\ Len(stack) \in Nat \ {0} /\ DOMAIN stack = 1..Len(stack)
         /\ Top \in Frame
         /\ Callers \in Seq(Frame)
         /\ Len(Callers) = Len(stack) - 1
         /\ \A i \in 1..(Len(stack) - 1) : Callers[i] = stack[i]
<1>1. Len(stack) \in Nat \ {0} /\ DOMAIN stack = 1..Len(stack) /\ Top \in Frame
  BY DEF TypeInv, TypeOK, Top
<1>2. stack \in Seq(Frame)
  BY DEF TypeInv, TypeOK
<1>3. \A i \in 1..(Len(stack) - 1) : stack[i] \in Frame
  BY <1>1, <1>2
<1> QED
  BY <1>1, <1>2, <1>3, SubSeqProperties DEF Callers

LEMMA PastType ==
  ASSUME TypeInv, stack # <<>>, NEW n
  PROVE  /\ Past(n) \in Seq(Frame)
         /\ Len(Past(n)) = Len(stack)
         /\ \A i \in 1..(Len(stack) - 1) : Past(n)[i] = stack[i]
         /\ Past(n)[Len(stack)] =
              [file |-> Top.file, left |-> Top.left \ {n}, size |-> Top.size]
<1>1. [file |-> Top.file, left |-> Top.left \ {n}, size |-> Top.size] \in Frame
  BY CallersType DEF Frame
<1>2. PICK frame \in Frame :
        frame = [file |-> Top.file, left |-> Top.left \ {n}, size |-> Top.size]
  BY <1>1
<1>3. Past(n) = Append(Callers, frame)
  BY <1>2 DEF Past
<1>4. Callers \in Seq(Frame) /\ Len(Callers) = Len(stack) - 1
  BY CallersType
<1>5. /\ Past(n) \in Seq(Frame)
      /\ Len(Past(n)) = Len(Callers) + 1
      /\ \A i \in 1..Len(Callers) : Past(n)[i] = Callers[i]
      /\ Past(n)[Len(Callers) + 1] = frame
  BY <1>3, <1>4, AppendProperties
<1>6. Len(Callers) + 1 = Len(stack)
  BY <1>4, CallersType
<1> QED
  BY <1>2, <1>4, <1>5, <1>6, CallersType

LEMMA NextTypeInv == TypeInv /\ [Next]_vars => TypeInv'
<1> SUFFICES ASSUME TypeInv, [Next]_vars PROVE TypeInv'
  OBVIOUS
<1> USE DEF graphVars, outVars
<1>1. CASE Fail \/ Dangle \/ UNCHANGED vars
  BY <1>1 DEF Fail, Dangle, vars, TypeInv, TypeOK
<1>2. CASE Begin
  BY <1>2 DEF Begin, TypeInv, TypeOK
<1>3. CASE Return
  BY <1>3, CallersType DEF Return, TypeInv, TypeOK
<1>4. CASE AnalyzeTangle
  <2>1. \A t : Below(vertices, edges, t) \subseteq Components(vertices, edges)
    BY DEF Below
  <2>2. Components(vertices, edges) \subseteq SUBSET Nodes
    BY DEF Components, Component, TypeInv, TypeOK
  <2> QED
    BY <1>4, <2>1, <2>2 DEF AnalyzeTangle, TypeInv, TypeOK
<1>5. ASSUME NEW f \in Files, CallInput(f) PROVE TypeInv'
  BY <1>5, CallType DEF CallInput, TypeInv, TypeOK
<1>6. ASSUME NEW n \in Nodes, CallTarget(n) PROVE TypeInv'
  <2>1. Past(n) \in Seq(Frame)
    BY <1>6, PastType DEF CallTarget
  <2>2. CASE n \in Asts
    BY <1>6, <2>1, <2>2 DEF CallTarget, TypeInv, TypeOK
  <2>3. CASE n \in Files
    <3>1. Call(n, Past(n))
      BY <1>6, <2>3, ProjectAssumption DEF CallTarget
    <3> QED
      BY <1>6, <2>1, <2>3, <3>1, CallType DEF CallTarget, TypeInv, TypeOK
  <2> QED
    BY <2>2, <2>3 DEF Nodes
<1> QED
  BY <1>1, <1>2, <1>3, <1>4, <1>5, <1>6 DEF Next

-------------------------------------------------------------------------------
(* The walk preserves its invariant *)

LEMMA VisitedIsClosed ==
  /\ Visited \subseteq Files
  /\ TypeInv => project.inputs \subseteq Visited
  /\ \A f \in Visited : ~Broken(f) => Targets(f) \cap Files \subseteq Visited
BY DEF Visited, TypeInv, TypeOK

\* The stack st is the stack but that f has been taken off the files to visit.
Shorter(st, f) ==
  /\ st \in Seq(Frame) /\ Len(st) = Len(stack)
  /\ \A i \in 1..Len(stack) :
       /\ st[i].file = stack[i].file
       /\ st[i].left \subseteq stack[i].left
       /\ stack[i].left \subseteq st[i].left \cup {f}

\* The definitions that are about the project only.
LEMMA ProjectUnchanged ==
  ASSUME UNCHANGED project
  PROVE  /\ Visited' = Visited
         /\ \A f : Targets(f)' = Targets(f)
         /\ \A f : Broken(f)' = Broken(f)
BY DEF Visited, Targets, Broken, Found

\* A visit that ends at once: nothing changes but that f is done with.
LEMMA SkipInv ==
  ASSUME TypeInv, StackInv, ImportsFollowed, UNCHANGED <<project, graphVars>>,
         NEW f, f \in Files => Expanded(f),
         NEW below, Shorter(below, f), stack' = below
  PROVE  StackInv' /\ ImportsFollowed'
<1>1. /\ Visited' = Visited
      /\ \A g : /\ Targets(g)' = Targets(g)
                /\ Broken(g)' = Broken(g)
                /\ Expanded(g)' = Expanded(g)
  BY ProjectUnchanged DEF Expanded, graphVars
<1>2. DOMAIN stack = 1..Len(stack) /\ DOMAIN below = 1..Len(stack) /\ Len(stack) \in Nat
  BY DEF Shorter, TypeInv, TypeOK
<1>3. GoodFrames'
  BY <1>1, <1>2 DEF StackInv, GoodFrames, Shorter
<1>4. CallersHaveEdges'
  BY <1>1, <1>2 DEF StackInv, CallersHaveEdges, Shorter, graphVars, OutEdges
<1>5. NoReentry'
  BY <1>1, <1>2 DEF StackInv, NoReentry, Shorter
<1>6. EdgesAreExact'
  BY <1>1 DEF StackInv, EdgesAreExact, graphVars, OutEdges
<1>7. ImportsFollowed'
  <2> SUFFICES ASSUME NEW g \in Files, Expanded(g), ~Broken(g),
                      NEW n \in Targets(g) \cap Files, ~Expanded(n)
               PROVE  Pending(below, g, n)
    BY <1>1 DEF ImportsFollowed
  <2>1. Pending(stack, g, n) /\ n # f
    BY DEF ImportsFollowed
  <2> QED
    BY <1>2, <2>1 DEF Pending, Shorter
<1> QED
  BY <1>3, <1>4, <1>5, <1>6, <1>7 DEF StackInv

\* A visit of f, when all active calls are for files with out-edges.
LEMMA CallInv ==
  ASSUME TypeInv, StackInv, ImportsFollowed, UNCHANGED project,
         NEW f \in Visited, NEW below, Shorter(below, f), Call(f, below),
         \A i \in 1..Len(stack) : OutEdges(edges, stack[i].file) # {}
  PROVE  /\ StackInv' /\ ImportsFollowed'
         /\ Expanded(f)'
         /\ \A g : Expanded(g) => Expanded(g)'
<1> f \in Files
  BY VisitedIsClosed
<1>1. /\ Visited' = Visited
      /\ \A g : Targets(g)' = Targets(g) /\ Broken(g)' = Broken(g)
  BY ProjectUnchanged
<1>2. DOMAIN stack = 1..Len(stack) /\ DOMAIN below = 1..Len(stack) /\ Len(stack) \in Nat
  BY DEF Shorter, TypeInv, TypeOK
<1>3. CASE OutEdges(edges, f) # {}
  <2>1. stack' = below /\ UNCHANGED graphVars
    BY <1>3 DEF Call
  <2>2. Expanded(f)
    BY <1>3 DEF StackInv, EdgesAreExact
  <2> QED
    BY <1>1, <2>1, <2>2, SkipInv DEF Expanded, graphVars
<1>4. CASE OutEdges(edges, f) = {}
  <2>1. /\ vertices' = vertices \cup {f} \cup Targets(f)
        /\ edges' = edges \cup ({f} \X Targets(f))
    BY <1>4 DEF Call
  <2>2. Expanded(f)' /\ \A g : Expanded(g) => Expanded(g)'
    BY <1>1, <2>1 DEF Expanded
  <2>3. /\ DOMAIN stack' = 1..Len(stack') /\ Len(stack') \in Nat
        /\ \A i \in 1..Len(stack) : i \in DOMAIN stack' /\ stack'[i] = below[i]
        /\ \A i \in DOMAIN stack' : i \notin 1..Len(stack) =>
             /\ ~Broken(f) /\ i = Len(stack')
             /\ stack'[i].file = f /\ stack'[i].left = Targets(f)
        /\ ~Broken(f) => Len(stack') \notin 1..Len(stack) /\ Len(stack') \in DOMAIN stack'
    <3>1. below \in Seq(Frame) /\ Len(below) = Len(stack)
      BY DEF Shorter
    <3>2. CASE Broken(f)
      BY <1>2, <1>4, <3>1, <3>2 DEF Call
    <3>3. CASE ~Broken(f)
      <4>1. Targets(f) \subseteq Nodes /\ Cardinality(vertices') \in Nat
        BY <2>1, TargetsAreNodes, NodesAreFinite DEF TypeInv, TypeOK, Nodes
      <4>2. PICK frame \in Frame : frame = [file |-> f, left |-> Targets(f),
                                            size |-> Cardinality(vertices')]
        BY <4>1 DEF Frame
      <4>3. stack' = Append(below, frame)
        BY <1>4, <3>3, <4>2 DEF Call
      <4>4. frame.file = f /\ frame.left = Targets(f)
        BY <4>2
      <4>5. /\ stack' \in Seq(Frame)
            /\ Len(stack') = Len(below) + 1
            /\ \A i \in 1..Len(below) : stack'[i] = below[i]
            /\ stack'[Len(below) + 1] = frame
        BY <3>1, <4>3, AppendProperties
      <4> QED
        BY <1>2, <3>1, <3>3, <4>4, <4>5
    <3> QED
      BY <3>2, <3>3
  <2>4. GoodFrames'
    <3> SUFFICES ASSUME NEW i \in DOMAIN stack'
                 PROVE  /\ stack'[i].file \in Visited
                        /\ ~Broken(stack'[i].file)
                        /\ Expanded(stack[i].file)'
                        /\ stack'[i].left \subseteq Targets(stack'[i].file)
      BY <1>1 DEF GoodFrames, Targets, Broken, Found
    <3>1. CASE i \in 1..Len(stack)
      <4>1. stack'[i].file = stack[i].file /\ stack'[i].left \subseteq stack[i].left
        BY <2>3, <3>1 DEF Shorter
      <4> QED
        BY <1>2, <2>1, <4>1, <3>1, ProjectUnchanged DEF StackInv, GoodFrames, Expanded
    <3>2. CASE i \notin 1..Len(stack)
      <4>1. ~Broken(f) /\ stack'[i].file = f /\ stack'[i].left = Targets(f)
        BY <2>3, <3>2
      <4> QED
        BY <2>2, <4>1 DEF Expanded
    <3> QED
      BY <3>1, <3>2
  <2>5. CallersHaveEdges'
    <3>1. \A g : OutEdges(edges, g) \subseteq OutEdges(edges', g)
      BY <2>1 DEF OutEdges
    <3>2. \A i \in 1..Len(stack) : stack'[i].file = stack[i].file
      BY <2>3 DEF Shorter
    <3>3. \A i \in DOMAIN stack' : i < Len(stack') => i \in 1..Len(stack)
      BY <1>2, <2>3
    <3> QED
      BY <3>1, <3>2, <3>3 DEF CallersHaveEdges, OutEdges
  <2>6. NoReentry'
    <3>1. \A i \in 1..Len(stack) : stack'[i].file = stack[i].file /\ stack[i].file # f
      BY <1>4, <2>3 DEF Shorter
    <3>2. \A i, j \in 1..Len(stack) : stack[i].file = stack[j].file => i = j
      BY <1>2 DEF StackInv, NoReentry
    <3> SUFFICES ASSUME NEW i \in DOMAIN stack', NEW j \in DOMAIN stack',
                        stack'[i].file = stack'[j].file
                 PROVE  i = j
      BY DEF NoReentry
    <3>3. CASE i \in 1..Len(stack) /\ j \in 1..Len(stack)
      BY <3>1, <3>2, <3>3
    <3>4. CASE i \notin 1..Len(stack) /\ j \notin 1..Len(stack)
      BY <2>3, <3>4
    <3>5. CASE i \in 1..Len(stack) /\ j \notin 1..Len(stack)
      BY <2>3, <3>1, <3>5
    <3>6. CASE i \notin 1..Len(stack) /\ j \in 1..Len(stack)
      BY <2>3, <3>1, <3>6
    <3> QED
      BY <3>3, <3>4, <3>5, <3>6
  <2>7. EdgesAreExact'
    <3>1. \A g \in Files : OutEdges(edges, g)' # {} => Expanded(g)'
      BY <2>1, <2>2 DEF StackInv, EdgesAreExact, OutEdges
    <3>2. \A e \in edges' : e[1] \in Visited /\ e[2] \in Targets(e[1])
      BY <2>1 DEF StackInv, EdgesAreExact
    <3>3. \A n \in vertices' : n \in Visited \/ \E g \in Visited : n \in Targets(g)
      BY <2>1 DEF StackInv, EdgesAreExact
    <3> QED
      BY <1>1, <3>1, <3>2, <3>3 DEF EdgesAreExact
  <2>8. ImportsFollowed'
    <3> SUFFICES ASSUME NEW g \in Files, Expanded(g)', ~Broken(g),
                        NEW n \in Targets(g) \cap Files, ~Expanded(n)'
                 PROVE  Pending(stack', g, n)
      BY <1>1 DEF ImportsFollowed
    <3>1. CASE g = f
      <4>1. Len(stack') \in DOMAIN stack' /\ Len(stack') \notin 1..Len(stack)
        BY <2>3, <3>1
      <4>2. stack'[Len(stack')].file = f /\ stack'[Len(stack')].left = Targets(f)
        BY <2>3, <4>1
      <4> QED
        BY <3>1, <4>1, <4>2 DEF Pending
    <3>2. CASE g # f
      <4>1. {g} \X Targets(g) \subseteq edges'
        BY <1>1 DEF Expanded
      <4>2. {g} \X Targets(g) \subseteq edges
        BY <2>1, <3>2, <4>1
      <4>3. <<g, n>> \in edges /\ edges \subseteq vertices \X vertices
        BY <4>2 DEF TypeInv, TypeOK
      <4>4. Expanded(g)
        BY <4>2, <4>3 DEF Expanded
      <4>5. n # f /\ ~Expanded(n)
        BY <2>2
      <4>6. PICK i \in 1..Len(stack) : stack[i].file = g /\ n \in stack[i].left
        BY <1>2, <4>4, <4>5 DEF ImportsFollowed, Pending
      <4>7. i \in DOMAIN stack' /\ stack'[i].file = g /\ n \in stack'[i].left
        BY <2>3, <4>5, <4>6 DEF Shorter
      <4> QED
        BY <4>7 DEF Pending
    <3> QED
      BY <3>1, <3>2
  <2> QED
    BY <2>2, <2>4, <2>5, <2>6, <2>7, <2>8 DEF StackInv
<1> QED
  BY <1>3, <1>4

\* What a call leaves of the other parts of WalkInv.
LEMMA CallKeepsWalkInv ==
  ASSUME TypeInv, WalkInv, phase = "collect", UNCHANGED <<phase, project>>,
         StackInv', ImportsFollowed',
         \A g : Expanded(g) => Expanded(g)',
         todo' \subseteq todo,
         \A f \in todo \ todo' : Expanded(f)'
  PROVE  WalkInv'
<1>1. \A f \in project'.inputs \ todo' : Expanded(f)'
  BY DEF WalkInv, NothingForgotten
<1> QED
  BY <1>1 DEF WalkInv, NothingForgotten, AtEnd

LEMMA CallInputInv ==
  ASSUME IInv, NEW f \in Files, CallInput(f)
  PROVE  WalkInv'
<1>1. f \in Visited
  BY VisitedIsClosed DEF CallInput, IInv, WalkInv
<1>2. Shorter(<<>>, f) /\ stack = <<>>
  BY DEF CallInput, Shorter
<1>3. /\ StackInv' /\ ImportsFollowed' /\ Expanded(f)'
      /\ \A g : Expanded(g) => Expanded(g)'
  BY <1>1, <1>2, CallInv DEF CallInput, IInv, WalkInv, NothingForgotten
<1> QED
  BY <1>3, CallKeepsWalkInv DEF CallInput, IInv

LEMMA CallTargetInv ==
  ASSUME IInv, NEW n \in Nodes, CallTarget(n)
  PROVE  WalkInv'
<1> USE DEF IInv
<1>1. /\ stack # <<>> /\ n \in Top.left /\ phase = "collect"
      /\ UNCHANGED <<phase, project, todo>>
  BY DEF CallTarget
<1>2. /\ Len(stack) \in Nat \ {0} /\ DOMAIN stack = 1..Len(stack)
      /\ Top = stack[Len(stack)]
  BY <1>1, CallersType DEF Top
<1>3. /\ Top.file \in Visited /\ ~Broken(Top.file)
      /\ n \in Targets(Top.file) /\ <<Top.file, n>> \in edges
  BY <1>1, <1>2 DEF WalkInv, StackInv, GoodFrames, Expanded
<1>4. Shorter(Past(n), n)
  <2>1. Past(n)[Len(stack)].file = Top.file /\ Past(n)[Len(stack)].left = Top.left \ {n}
    <3>1. PICK frame : frame = [file |-> Top.file, left |-> Top.left \ {n},
                                size |-> Top.size]
      OBVIOUS
    <3>2. frame.file = Top.file /\ frame.left = Top.left \ {n}
      BY <3>1
    <3>3. Past(n)[Len(stack)] = frame
      BY <1>1, <3>1, PastType
    <3> QED
      BY <3>2, <3>3
  <2> SUFFICES ASSUME NEW i \in 1..Len(stack)
               PROVE  /\ Past(n)[i].file = stack[i].file
                      /\ Past(n)[i].left \subseteq stack[i].left
                      /\ stack[i].left \subseteq Past(n)[i].left \cup {n}
    BY <1>1, PastType DEF Shorter
  <2>2. CASE i = Len(stack)
    BY <1>2, <2>1, <2>2
  <2>3. CASE i \in 1..(Len(stack) - 1)
    BY <1>1, <2>3, PastType
  <2> QED
    BY <1>2, <2>2, <2>3
<1>5. CASE n \in Asts
  <2>1. n \notin Files /\ stack' = Past(n) /\ UNCHANGED graphVars
    BY <1>5, ProjectAssumption DEF CallTarget
  <2>2. StackInv' /\ ImportsFollowed'
    BY <1>1, <1>4, <2>1, SkipInv DEF WalkInv, NothingForgotten
  <2>3. \A g : Expanded(g) => Expanded(g)'
    BY <1>1, <2>1, ProjectUnchanged DEF Expanded, graphVars
  <2> QED
    BY <1>1, <2>2, <2>3, CallKeepsWalkInv
<1>6. CASE n \in Files
  <2>1. n \in Visited
    BY <1>3, <1>6, VisitedIsClosed
  <2>2. Call(n, Past(n))
    BY <1>6, ProjectAssumption DEF CallTarget
  <2>3. \A i \in 1..Len(stack) : OutEdges(edges, stack[i].file) # {}
    <3>1. OutEdges(edges, Top.file) # {}
      BY <1>3 DEF OutEdges
    <3> QED
      BY <1>2, <3>1 DEF WalkInv, StackInv, CallersHaveEdges
  <2>4. /\ StackInv' /\ ImportsFollowed'
        /\ \A g : Expanded(g) => Expanded(g)'
    BY <1>1, <1>4, <2>1, <2>2, <2>3, CallInv DEF WalkInv, NothingForgotten
  <2> QED
    BY <1>1, <2>4, CallKeepsWalkInv
<1> QED
  BY <1>5, <1>6 DEF Nodes

LEMMA ReturnInv ==
  ASSUME IInv, Return
  PROVE  WalkInv'
<1> USE DEF IInv
<1>1. /\ stack # <<>> /\ Top.left = {} /\ phase = "collect" /\ stack' = Callers
      /\ UNCHANGED <<phase, project, todo, graphVars>>
  BY DEF Return
<1>2. /\ Len(stack) \in Nat \ {0} /\ DOMAIN stack = 1..Len(stack)
      /\ Top = stack[Len(stack)]
      /\ stack' \in Seq(Frame) /\ Len(stack') = Len(stack) - 1
      /\ DOMAIN stack' = 1..(Len(stack) - 1)
      /\ \A i \in DOMAIN stack' : i \in DOMAIN stack /\ stack'[i] = stack[i]
  <2>1. /\ Len(stack) \in Nat \ {0} /\ DOMAIN stack = 1..Len(stack)
        /\ stack' \in Seq(Frame) /\ Len(stack') = Len(stack) - 1
        /\ \A i \in 1..(Len(stack) - 1) : stack'[i] = stack[i]
    BY <1>1, CallersType
  <2>2. DOMAIN stack' = 1..(Len(stack) - 1)
    BY <2>1
  <2> QED
    BY <2>1, <2>2 DEF Top
<1>3. /\ Visited' = Visited
      /\ \A g : /\ Targets(g)' = Targets(g)
                /\ Broken(g)' = Broken(g)
                /\ Expanded(g)' = Expanded(g)
  BY <1>1, ProjectUnchanged DEF Expanded, graphVars
<1>4. GoodFrames'
  BY <1>2, <1>3 DEF WalkInv, StackInv, GoodFrames
<1>5. CallersHaveEdges' /\ NoReentry'
  BY <1>1, <1>2 DEF WalkInv, StackInv, CallersHaveEdges, NoReentry, OutEdges, graphVars
<1>6. EdgesAreExact'
  BY <1>1, <1>3 DEF WalkInv, StackInv, EdgesAreExact, OutEdges, graphVars
<1>7. ImportsFollowed'
  <2> SUFFICES ASSUME NEW g \in Files, Expanded(g), ~Broken(g),
                      NEW n \in Targets(g) \cap Files, ~Expanded(n)
               PROVE  Pending(stack', g, n)
    BY <1>3 DEF ImportsFollowed
  <2>1. PICK i \in DOMAIN stack : stack[i].file = g /\ n \in stack[i].left
    BY DEF WalkInv, NothingForgotten, ImportsFollowed, Pending
  <2>2. i # Len(stack)
    BY <1>1, <1>2, <2>1
  <2> QED
    BY <1>2, <2>1, <2>2 DEF Pending
<1> QED
  BY <1>1, <1>3, <1>4, <1>5, <1>6, <1>7, CallKeepsWalkInv DEF StackInv

\* A step that leaves the walk where it is.
LEMMA StillInv ==
  ASSUME IInv, UNCHANGED <<project, stack, graphVars>>
  PROVE  StackInv' /\ ImportsFollowed'
<1>1. /\ Visited' = Visited
      /\ \A g : /\ Targets(g)' = Targets(g)
                /\ Broken(g)' = Broken(g)
                /\ Expanded(g)' = Expanded(g)
  BY ProjectUnchanged DEF Expanded, graphVars
<1>2. GoodFrames' /\ CallersHaveEdges' /\ NoReentry' /\ EdgesAreExact'
  BY <1>1 DEF IInv, WalkInv, StackInv, GoodFrames, CallersHaveEdges, NoReentry,
              EdgesAreExact, OutEdges, graphVars
<1> QED
  BY <1>1, <1>2 DEF IInv, WalkInv, StackInv, NothingForgotten, ImportsFollowed, Pending

LEMMA InitInv == Init => IInv
<1> SUFFICES ASSUME Init PROVE IInv
  OBVIOUS
<1>1. TypeInv
  BY ProjectAssumption DEF Init, TypeInv, TypeOK
<1>2. /\ stack = <<>> /\ edges = {} /\ vertices = {} /\ todo = {} /\ phase = "start"
  BY DEF Init
<1>3. StackInv
  BY <1>2 DEF StackInv, GoodFrames, CallersHaveEdges, NoReentry, EdgesAreExact, OutEdges
<1>4. NothingForgotten
  BY <1>2 DEF NothingForgotten, ImportsFollowed, Expanded
<1> QED
  BY <1>1, <1>2, <1>3, <1>4 DEF IInv, WalkInv, AtEnd

LEMMA NextInv == IInv /\ [Next]_vars => IInv'
<1> SUFFICES ASSUME IInv, [Next]_vars PROVE WalkInv'
  BY NextTypeInv DEF IInv
<1> USE DEF graphVars, outVars
<1>1. CASE Fail \/ Dangle
  BY <1>1, StillInv DEF Fail, Dangle, IInv, WalkInv, NothingForgotten, AtEnd
<1>2. CASE Begin
  BY <1>2, StillInv DEF Begin, IInv, WalkInv, NothingForgotten, AtEnd
<1>3. CASE Return
  BY <1>3, ReturnInv
<1>4. CASE AnalyzeTangle
  <2>1. \A g : Expanded(g) => Expanded(g)'
    BY <1>4, ProjectUnchanged DEF AnalyzeTangle, Expanded
  <2>2. /\ phase' = "done" /\ stack' = <<>> /\ todo' = {}
        /\ tangles' = Components(vertices', edges')
        /\ depends' = [t \in tangles' |-> Below(vertices', edges', t)]
    BY <1>4 DEF AnalyzeTangle
  <2> QED
    BY <1>4, <2>1, <2>2, StillInv
    DEF AnalyzeTangle, IInv, WalkInv, NothingForgotten, AtEnd
<1>5. ASSUME NEW f \in Files, CallInput(f) PROVE WalkInv'
  BY <1>5, CallInputInv
<1>6. ASSUME NEW n \in Nodes, CallTarget(n) PROVE WalkInv'
  BY <1>6, CallTargetInv
<1>7. CASE UNCHANGED vars
  <2>1. \A g : Expanded(g)' = Expanded(g)
    BY <1>7, ProjectUnchanged DEF vars, Expanded
  <2> QED
    BY <1>7, <2>1, StillInv DEF vars, IInv, WalkInv, NothingForgotten, AtEnd
<1> QED
  BY <1>1, <1>2, <1>3, <1>4, <1>5, <1>6, <1>7 DEF Next

-------------------------------------------------------------------------------
(* The walk ends *)

\* What is left to do: files whose imports have not been entered as edges,
\* input files, files to visit in the active calls, and the calls themselves.
Unexpanded == {f \in Files : OutEdges(edges, f) = {} /\ Targets(f) # {}}
ToVisit(st) == {p \in (DOMAIN st) \X Nodes : p[2] \in st[p[1]].left}

Stage == CASE phase = "start" -> 2 [] phase = "collect" -> 1 [] OTHER -> 0

Distance ==
  <<Stage, Cardinality(Unexpanded), Cardinality(todo),
    Cardinality(ToVisit(stack)), Len(stack)>>
Measured == Distance \in Tuples(5)
Closer   == <<Distance', Distance>> \in Falls(5)

LEMMA FinitelyMany ==
  ASSUME TypeInv
  PROVE  /\ IsFiniteSet(Unexpanded) /\ IsFiniteSet(todo)
         /\ IsFiniteSet(ToVisit(stack))
<1>1. IsFiniteSet(DOMAIN stack) /\ IsFiniteSet(Nodes)
  <2>1. stack \in Seq(Frame)
    BY DEF TypeInv, TypeOK
  <2>2. DOMAIN stack = 1..Len(stack) /\ Len(stack) \in Nat
    BY <2>1
  <2> QED
    BY <2>2, FS_Interval, NodesAreFinite
<1>2. IsFiniteSet((DOMAIN stack) \X Nodes)
  BY <1>1, FS_Product
<1>3. IsFiniteSet(Unexpanded) /\ IsFiniteSet(todo)
  BY ProjectAssumption, FewerMembers DEF Unexpanded, TypeInv, TypeOK
<1> QED
  BY <1>2, <1>3, FewerMembers DEF ToVisit

LEMMA DistanceIsTuple ==
  ASSUME TypeInv
  PROVE  Measured
<1>1. Len(stack) \in Nat
  BY DEF TypeInv, TypeOK
<1>2. /\ Cardinality(Unexpanded) \in Nat /\ Cardinality(todo) \in Nat
      /\ Cardinality(ToVisit(stack)) \in Nat
  BY FinitelyMany, FS_CardinalityType
<1>3. Stage \in Nat
  BY DEF Stage
<1> QED
  BY <1>1, <1>2, <1>3 DEF Measured, Distance, Tuples

\* Which of the numbers a step lowers, the ones before it unchanged.
LEMMA Lowers ==
  ASSUME Measured, Measured',
         \/ Stage' < Stage
         \/ /\ Stage' = Stage
            /\ Cardinality(Unexpanded') < Cardinality(Unexpanded)
         \/ /\ Stage' = Stage /\ Unexpanded' = Unexpanded
            /\ Cardinality(todo') < Cardinality(todo)
         \/ /\ Stage' = Stage /\ Unexpanded' = Unexpanded /\ todo' = todo
            /\ Cardinality(ToVisit(stack')) < Cardinality(ToVisit(stack))
         \/ /\ Stage' = Stage /\ Unexpanded' = Unexpanded /\ todo' = todo
            /\ ToVisit(stack') = ToVisit(stack) /\ Len(stack') < Len(stack)
  PROVE  Closer
<1>1. Distance \in Tuples(5) /\ Distance' \in Tuples(5)
  BY DEF Measured
<1>2. /\ Distance[1] = Stage /\ Distance'[1] = Stage'
      /\ Distance[2] = Cardinality(Unexpanded)
      /\ Distance'[2] = Cardinality(Unexpanded')
      /\ Distance[3] = Cardinality(todo) /\ Distance'[3] = Cardinality(todo')
      /\ Distance[4] = Cardinality(ToVisit(stack))
      /\ Distance'[4] = Cardinality(ToVisit(stack'))
      /\ Distance[5] = Len(stack) /\ Distance'[5] = Len(stack')
  BY DEF Distance
<1>3. PICK k \in 1..5 :
        /\ Distance'[k] < Distance[k]
        /\ k > 1 => Distance'[1] = Distance[1]
        /\ k > 2 => Distance'[2] = Distance[2]
        /\ k > 3 => Distance'[3] = Distance[3]
        /\ k > 4 => Distance'[4] = Distance[4]
  BY <1>2
<1>4. \A i \in 1..(k - 1) : Distance'[i] = Distance[i]
  <2>1. \A i \in 1..(k - 1) : (i = 1 \/ i = 2 \/ i = 3 \/ i = 4) /\ k > i
    OBVIOUS
  <2> QED
    BY <1>3, <2>1
<1> QED
  BY <1>1, <1>3, <1>4, FallsAt DEF Closer

\* A call enters the edges of a file that has imports, or adds nothing to
\* visit to what its caller has.
LEMMA CallProgress ==
  ASSUME TypeInv, UNCHANGED project,
         NEW f \in Files, NEW below \in Seq(Frame), Call(f, below)
  PROVE  \/ Cardinality(Unexpanded') < Cardinality(Unexpanded)
         \/ Unexpanded' = Unexpanded /\ ToVisit(stack') = ToVisit(below)
<1>1. \A g : Targets(g)' = Targets(g)
  BY ProjectUnchanged
<1>2. CASE OutEdges(edges, f) # {}
  <2>1. stack' = below /\ edges' = edges
    BY <1>2 DEF Call, graphVars
  <2> QED
    BY <1>1, <2>1 DEF Unexpanded
<1>3. CASE OutEdges(edges, f) = {} /\ Targets(f) # {}
  <2>1. edges' = edges \cup ({f} \X Targets(f))
    BY <1>3 DEF Call
  <2>2. PICK n \in Targets(f) : <<f, n>> \in edges'
    BY <1>3, <2>1
  <2>3. Unexpanded' \subseteq Unexpanded
    BY <1>1, <2>1 DEF Unexpanded, OutEdges
  <2>4. f \in Unexpanded /\ f \notin Unexpanded'
    BY <1>3, <2>2 DEF Unexpanded, OutEdges
  <2> QED
    BY <2>3, <2>4, FinitelyMany, FewerMembers
<1>4. CASE OutEdges(edges, f) = {} /\ Targets(f) = {}
  <2>1. edges' = edges
    BY <1>4 DEF Call
  <2>2. Unexpanded' = Unexpanded
    BY <1>1, <2>1 DEF Unexpanded
  <2>3. CASE Broken(f)
    BY <1>4, <2>2, <2>3 DEF Call
  <2>4. CASE ~Broken(f)
    <3> DEFINE c == Cardinality(vertices')
               new == [file |-> f, left |-> Targets(f), size |-> c]
    <3>1. stack' = Append(below, new) /\ c \in Nat
      <4>1. vertices' \subseteq Nodes
        BY CallType
      <4> QED
        BY <1>4, <2>4, <4>1, NodesAreFinite DEF Call
    <3>2. new.left = {} /\ new \in Frame
      BY <1>4, <3>1 DEF Frame
    <3> HIDE DEF new
    <3>3. /\ Len(stack') = Len(below) + 1 /\ Len(below) \in Nat
          /\ DOMAIN stack' = 1..(Len(below) + 1) /\ DOMAIN below = 1..Len(below)
          /\ \A i \in 1..Len(below) : stack'[i] = below[i]
          /\ stack'[Len(below) + 1] = new
      BY <3>1, <3>2, AppendProperties
    <3>4. \A p \in ToVisit(stack') : p \in ToVisit(below)
      BY <3>2, <3>3 DEF ToVisit
    <3>5. \A p \in ToVisit(below) : p \in ToVisit(stack')
      BY <3>3 DEF ToVisit
    <3> QED
      BY <2>2, <3>4, <3>5
  <2> QED
    BY <2>3, <2>4
<1> QED
  BY <1>2, <1>3, <1>4

\* The loop goes on: its call has one file less to visit.
LEMMA PastProgress ==
  ASSUME TypeInv, stack # <<>>, NEW n \in Nodes, n \in Top.left
  PROVE  Cardinality(ToVisit(Past(n))) < Cardinality(ToVisit(stack))
<1>1. /\ Len(stack) \in Nat \ {0} /\ DOMAIN stack = 1..Len(stack)
      /\ Top = stack[Len(stack)]
  BY CallersType DEF Top
<1>2. /\ DOMAIN Past(n) = DOMAIN stack
      /\ \A i \in 1..(Len(stack) - 1) : Past(n)[i] = stack[i]
      /\ Past(n)[Len(stack)].left = Top.left \ {n}
  <2>1. PICK frame : /\ frame = [file |-> Top.file, left |-> Top.left \ {n},
                                 size |-> Top.size]
                     /\ Past(n)[Len(stack)] = frame
    BY PastType
  <2>2. frame.left = Top.left \ {n}
    BY <2>1
  <2>3. Past(n) \in Seq(Frame) /\ Len(Past(n)) = Len(stack)
    BY PastType
  <2> QED
    BY <1>1, <2>1, <2>2, <2>3, PastType
<1>3. \A i \in DOMAIN stack : Past(n)[i].left \subseteq stack[i].left
  <2> TAKE i \in DOMAIN stack
  <2>1. i = Len(stack) \/ i \in 1..(Len(stack) - 1)
    BY <1>1
  <2> QED
    BY <1>1, <1>2, <2>1
<1>4. ToVisit(Past(n)) \subseteq ToVisit(stack)
  BY <1>2, <1>3 DEF ToVisit
<1>5. /\ <<Len(stack), n>> \in ToVisit(stack)
      /\ <<Len(stack), n>> \notin ToVisit(Past(n))
  BY <1>1, <1>2 DEF ToVisit
<1> QED
  BY <1>4, <1>5, FinitelyMany, FewerMembers

LEMMA ReturnProgress ==
  ASSUME TypeInv, stack # <<>>, Top.left = {}
  PROVE  ToVisit(Callers) = ToVisit(stack) /\ Len(Callers) < Len(stack)
<1>1. /\ Len(stack) \in Nat \ {0} /\ DOMAIN stack = 1..Len(stack)
      /\ Callers \in Seq(Frame) /\ Len(Callers) = Len(stack) - 1
      /\ \A i \in 1..(Len(stack) - 1) : Callers[i] = stack[i]
      /\ stack[Len(stack)].left = {}
  BY CallersType DEF Top
<1>2. DOMAIN Callers = 1..(Len(stack) - 1)
  BY <1>1
<1>3. \A p \in ToVisit(Callers) : p \in ToVisit(stack)
  BY <1>1, <1>2 DEF ToVisit
<1>4. \A p \in ToVisit(stack) : p \in ToVisit(Callers)
  <2> SUFFICES ASSUME NEW i \in DOMAIN stack, NEW n \in Nodes, n \in stack[i].left
               PROVE  i \in DOMAIN Callers /\ n \in Callers[i].left
    BY <1>1, <1>2 DEF ToVisit
  <2>1. i # Len(stack)
    BY <1>1
  <2> QED
    BY <1>1, <1>2, <2>1
<1>5. ToVisit(Callers) = ToVisit(stack)
  BY <1>3, <1>4, Zenon
<1>6. Len(Callers) < Len(stack)
  BY <1>1
<1> QED
  BY <1>5, <1>6

LEMMA DistanceFalls ==
  ASSUME TypeInv, Measured, Measured', Next
  PROVE  Closer
<1>1. CASE Fail \/ Begin \/ Dangle \/ AnalyzeTangle
  <2>1. Stage' < Stage
    BY <1>1 DEF Fail, Begin, Dangle, AnalyzeTangle, Stage
  <2> QED
    BY <2>1, Lowers
<1>2. CASE Return
  <2>1. /\ stack # <<>> /\ Top.left = {} /\ stack' = Callers
        /\ UNCHANGED <<phase, project, todo, edges>>
    BY <1>2 DEF Return, graphVars
  <2>2. Stage' = Stage /\ Unexpanded' = Unexpanded
    BY <2>1, ProjectUnchanged DEF Stage, Unexpanded
  <2> QED
    BY <2>1, <2>2, ReturnProgress, Lowers
<1>3. ASSUME NEW f \in Files, CallInput(f)
      PROVE  Closer
  <2>1. /\ UNCHANGED <<phase, project>> /\ todo' = todo \ {f} /\ f \in todo
        /\ Call(f, <<>>)
    BY <1>3 DEF CallInput
  <2>2. Stage' = Stage
    BY <2>1 DEF Stage
  <2>3. Cardinality(todo') < Cardinality(todo)
    BY <2>1, FinitelyMany, FewerMembers
  <2>4. \/ Cardinality(Unexpanded') < Cardinality(Unexpanded)
        \/ Unexpanded' = Unexpanded
    <3>1. <<>> \in Seq(Frame)
      OBVIOUS
    <3> QED
      BY <2>1, <3>1, CallProgress
  <2> QED
    BY <2>2, <2>3, <2>4, Lowers
<1>4. ASSUME NEW n \in Nodes, CallTarget(n)
      PROVE  Closer
  <2>1. /\ UNCHANGED <<phase, project, todo>>
        /\ stack # <<>> /\ n \in Top.left
    BY <1>4 DEF CallTarget
  <2>2. Stage' = Stage
    BY <2>1 DEF Stage
  <2>3. \/ Cardinality(Unexpanded') < Cardinality(Unexpanded)
        \/ Unexpanded' = Unexpanded /\ ToVisit(stack') = ToVisit(Past(n))
    <3>1. CASE n \in Asts
      <4>1. stack' = Past(n) /\ edges' = edges
        BY <1>4, <3>1 DEF CallTarget, graphVars
      <4> QED
        BY <2>1, <4>1, ProjectUnchanged DEF Unexpanded
    <3>2. CASE n \in Files
      <4>1. Call(n, Past(n))
        BY <1>4, <3>2, ProjectAssumption DEF CallTarget
      <4>2. Past(n) \in Seq(Frame)
        BY <2>1, PastType
      <4> QED
        BY <2>1, <3>2, <4>1, <4>2, CallProgress
    <3> QED
      BY <3>1, <3>2 DEF Nodes
  <2>4. Cardinality(ToVisit(Past(n))) < Cardinality(ToVisit(stack))
    BY <2>1, PastProgress
  <2> QED
    BY <2>1, <2>2, <2>3, <2>4, Lowers
<1> QED
  BY <1>1, <1>2, <1>3, <1>4 DEF Next

-------------------------------------------------------------------------------
(* The theorems *)

\* The invariant: what has been expanded has all its edges, and what it
\* imports is expanded or still pending in an active call.
THEOREM InductiveInvariant == Spec => []IInv
BY InitInv, NextInv, PTL DEF Spec

\* The variables of ts-dep keep their types, for every project.
THEOREM TypeCorrect == Spec => []TypeOK
<1>1. IInv => TypeOK
  BY DEF IInv, TypeInv
<1> QED
  BY <1>1, InductiveInvariant, PTL

\* addFileDependency is never active twice for one file: files that import
\* each other do not send it into an endless recursion.
THEOREM RecursionIsBounded == Spec => []NoReentry
<1>1. IInv => NoReentry
  BY DEF IInv, WalkInv, StackInv
<1> QED
  BY <1>1, InductiveInvariant, PTL

LEMMA AllAreExpanded ==
  ASSUME IInv, phase = "done", NEW f \in Visited
  PROVE  f \in Files /\ Expanded(f)
<1> DEFINE S == {g \in Files : Expanded(g)}
<1>1. project.inputs \subseteq S
  BY DEF IInv, TypeInv, TypeOK, WalkInv, NothingForgotten, AtEnd
<1>2. ASSUME NEW g \in S, ~Broken(g) PROVE Targets(g) \cap Files \subseteq S
  BY <1>2 DEF IInv, WalkInv, NothingForgotten, ImportsFollowed, Pending, AtEnd
<1> HIDE DEF S
<1>3. S \in SUBSET Files
  BY DEF S
<1>4. f \in S
  BY <1>1, <1>2, <1>3 DEF Visited
<1> QED
  BY <1>4 DEF S

\* The file graph is exactly the imports of the files that are to be visited,
\* in whatever order the walk goes and wherever it is cut short.
THEOREM FileGraphCorrect == Spec => []FileGraphExact
<1>1. ASSUME IInv PROVE FileGraphExact
  <2> SUFFICES ASSUME phase = "done"
               PROVE  /\ edges = UNION {{f} \X Targets(f) : f \in Visited}
                      /\ vertices = Visited \cup UNION {Targets(f) : f \in Visited}
    BY DEF FileGraphExact
  <2>1. \A f \in Visited : f \in vertices /\ {f} \X Targets(f) \subseteq edges
    BY <1>1, AllAreExpanded DEF Expanded
  <2>2. edges \subseteq vertices \X vertices
    BY <1>1 DEF IInv, TypeInv, TypeOK
  <2>3. ASSUME NEW e \in edges
        PROVE  \E f \in Visited : e \in {f} \X Targets(f)
    BY <1>1, <2>2 DEF IInv, WalkInv, StackInv, EdgesAreExact
  <2>4. ASSUME NEW f \in Visited, NEW n \in Targets(f) PROVE n \in vertices
    <3>1. <<f, n>> \in edges
      BY <2>1, <2>4
    <3> QED
      BY <2>2, <3>1
  <2>5. \A n \in vertices : n \in Visited \/ \E f \in Visited : n \in Targets(f)
    BY <1>1 DEF IInv, WalkInv, StackInv, EdgesAreExact
  <2> QED
    BY <2>1, <2>3, <2>4, <2>5
<1> QED
  BY <1>1, InductiveInvariant, PTL

\* An .ast imports nothing, so it is a component of its own.
LEMMA AstsAreAlone ==
  ASSUME IInv, NEW a \in vertices \cap Asts
  PROVE  /\ Component(vertices, edges, a) = {a}
         /\ Below(vertices, edges, {a}) = {}
<1>1. ASSUME NEW e \in edges PROVE e[1] # a
  BY ProjectAssumption, VisitedIsClosed DEF IInv, WalkInv, StackInv, EdgesAreExact
<1>2. a \in Nodes
  BY DEF Nodes
<1>3. Reach(edges, a) \subseteq {a}
  <2>1. {a} \in SUBSET Nodes /\ \A e \in edges : e[1] \in {a} => e[2] \in {a}
    BY <1>1, <1>2
  <2> QED
    BY <2>1 DEF Reach
<1>4. Component(vertices, edges, a) = {a}
  BY <1>2, <1>3, ReachSelf DEF Component
<1> QED
  BY <1>1, <1>4 DEF Below

\* The graph that ts-make reads is sound: its tangles partition the files, it
\* has no cycle, and bundles are tangles that depend on nothing.
THEOREM TangleGraphCorrect == Spec => []TangleGraphSound
<1>1. ASSUME IInv PROVE TangleGraphSound
  <2> SUFFICES ASSUME phase = "done" PROVE TangleGraphSound
    BY DEF TangleGraphSound
  <2>1. /\ tangles = Components(vertices, edges)
        /\ depends = [t \in tangles |-> Below(vertices, edges, t)]
    BY <1>1 DEF IInv, WalkInv, AtEnd
  <2>2. vertices \in SUBSET Nodes /\ edges \in SUBSET (vertices \X vertices)
    BY <1>1 DEF IInv, TypeInv, TypeOK
  <2>3. UNION tangles = vertices
    BY <2>1, <2>2, ComponentsCover
  <2>4. \A t, u \in tangles : t = u \/ t \cap u = {}
    BY <2>1, <2>2, ComponentsAreDisjoint
  <2>5. ASSUME NEW T \in SUBSET tangles, T # {}
        PROVE  \E t \in T : depends[t] \cap T = {}
    <3>1. PICK t \in T : Below(vertices, edges, t) \cap T = {}
      BY <2>1, <2>2, <2>5, ComponentsHaveNoCycle
    <3> QED
      BY <2>1, <2>5, <3>1
  <2>6. ASSUME NEW a \in vertices \cap Asts
        PROVE  {a} \in tangles /\ depends[{a}] = {}
    <3>1. {a} \in tangles
      BY <1>1, <2>1, AstsAreAlone DEF Components
    <3> QED
      BY <1>1, <2>1, <3>1, AstsAreAlone
  <2> QED
    BY <2>3, <2>4, <2>5, <2>6 DEF TangleGraphSound
<1> QED
  BY <1>1, InductiveInvariant, PTL

\* Every import between two tangles makes ts-make wait for the imported one.
THEOREM OrderCorrect == Spec => []ImportsAreOrdered
<1>1. ASSUME IInv PROVE ImportsAreOrdered
  <2> SUFFICES ASSUME phase = "done", NEW f \in Visited, NEW n \in Targets(f)
               PROVE  \E t, u \in tangles :
                        f \in t /\ n \in u /\ (t = u \/ u \in depends[t])
    BY DEF ImportsAreOrdered
  <2>1. /\ tangles = Components(vertices, edges)
        /\ depends = [t \in tangles |-> Below(vertices, edges, t)]
    BY <1>1 DEF IInv, WalkInv, AtEnd
  <2>2. vertices \in SUBSET Nodes /\ edges \in SUBSET (vertices \X vertices)
    BY <1>1 DEF IInv, TypeInv, TypeOK
  <2>3. <<f, n>> \in edges
    BY <1>1, AllAreExpanded DEF Expanded
  <2>4. /\ Component(vertices, edges, f) \in tangles
        /\ Component(vertices, edges, n) \in tangles
        /\ f \in Component(vertices, edges, f)
        /\ n \in Component(vertices, edges, n)
    BY <2>1, <2>2, <2>3, ComponentsCover DEF Components
  <2>5. CASE Component(vertices, edges, f) = Component(vertices, edges, n)
    BY <2>4, <2>5
  <2>6. CASE Component(vertices, edges, f) # Component(vertices, edges, n)
    <3>1. Component(vertices, edges, n)
            \in Below(vertices, edges, Component(vertices, edges, f))
      BY <2>1, <2>3, <2>4, <2>6 DEF Below
    <3> QED
      BY <2>1, <2>4, <3>1
  <2> QED
    BY <2>5, <2>6
<1> QED
  BY <1>1, InductiveInvariant, PTL

\* ts-dep comes to an end, for every project: files that import each other are
\* expanded once, and a call that adds no edges leaves its caller less to visit.
\* Any step lowers a measure that nothing lowers for ever.
THEOREM WalkEnds ==
  /\ IsWellFoundedOn(Falls(5), Tuples(5))
  /\ Spec => []Measured
  /\ Spec => [][Closer]_vars
<1>1. IsWellFoundedOn(Falls(5), Tuples(5))
  BY NothingFallsForever
<1>2. IInv => TypeInv
  BY DEF IInv
<1>3. TypeInv => Measured
  BY DistanceIsTuple
<1>4. TypeInv /\ Measured /\ Measured' /\ [Next]_vars => [Closer]_vars
  BY DistanceFalls
<1> QED
  BY <1>1, <1>2, <1>3, <1>4, InductiveInvariant, PTL DEF Spec
===============================================================================
