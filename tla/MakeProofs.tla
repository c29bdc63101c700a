------------------------------ MODULE MakeProofs ------------------------------
(***************************************************************************)
(* Proofs about Make, for every set of tangles and every acyclic graph.    *)
(*                                                                         *)
(* The code keeps no record of what has been compiled: a node runs when    *)
(* every port holds a message.  The inductive invariant is therefore about *)
(* the messages.  Every message is the work of a finished sender           *)
(* (SentWhenDone), a node that has run has none left and will get none     *)
(* (ConsumedOnce), and until it runs none is lost (NothingLost).  The      *)
(* first two give the order of the compilations, the last one gives, with  *)
(* the absence of cycles, that wait_for_all does not return early.         *)
(***************************************************************************)
EXTENDS Make, Measures

\* The .ast of a bundle is never compiled, so TypeOK is not inductive alone.
OnlySourcesCompile == \A t \in Bundles : node[t] \notin {"compiling", "emitted"}
TypeInv == TypeOK /\ OnlySourcesCompile

\* Nothing has been sent.
Unstarted == phase \in {"options", "restore"} \/ result = "false"

\* The state of the main thread.
MainThreadInv ==
  /\ result = "none" <=> phase # "returned"
  /\ Unstarted => /\ \A t \in Tangles : node[t] = "idle"
                  /\ \A s \in Senders : outbox[s] = {}
                  /\ \A t \in Tangles : inbox[t] = {}
  /\ phase = "waiting" \/ result = "true" => outbox[start] = {}
  /\ result = "true" => Quiescent

\* Messages are on the edges of the graph, each in one place only.
OnEdges ==
  /\ \A t \in Tangles : inbox[t] \subseteq Inputs(t)
  /\ \A s \in Senders : \A t \in outbox[s] : s \in Inputs(t) /\ s \notin inbox[t]

\* A tangle has sent messages only if its command is over.
SentWhenDone ==
  \A s, t \in Tangles : s \in inbox[t] \/ t \in outbox[s] => node[s] = "done"

\* A node that has run has taken all its messages, and no other is under way.
ConsumedOnce ==
  \A t \in Tangles : node[t] # "idle" =>
    /\ inbox[t] = {}
    /\ \A s \in Senders : t \notin outbox[s]

\* A node that has not run misses no message of a sender that is done.
NothingLost ==
  \A t \in Tangles : node[t] = "idle" =>
    \A s \in Inputs(t) :
      \/ s \in inbox[t]
      \/ t \in outbox[s]
      \/ s \in Tangles /\ node[s] # "done"
      \/ s = start /\ Unstarted

FlowInv ==
  /\ TypeInv
  /\ MainThreadInv
  /\ OnEdges
  /\ SentWhenDone
  /\ ConsumedOnce
  /\ NothingLost
  /\ DependenciesSettled

\* What a compilation has loaded is what is still there, and a successful
\* command has left its output.
FilesInv ==
  /\ \A t, d \in Tangles : used[t][d] # "none" =>
       /\ d \in graph[t]
       /\ node[t] \in {"compiling", "emitted", "done"}
       /\ used[t][d] = ast[d]
  /\ \A t \in Tangles \ Bundles :
       node[t] \in {"compiling", "emitted"} \/ ok[t] =>
         \A d \in graph[t] : used[t][d] # "none"
  /\ \A t \in Tangles : node[t] = "emitted" => t \in bc
  /\ \A t \in Tangles : ok[t] =>
       /\ node[t] = "done"
       /\ ast[t] = "new"
       /\ t \notin Bundles => t \in bc
  /\ \A t \in Bundles : ast[t] = "new"

IInv == FlowInv /\ FilesInv

-------------------------------------------------------------------------------
(* Type correctness *)

LEMMA InitTypeInv == Init => TypeInv
  BY GraphAssumption
  DEF Init, TypeInv, TypeOK, OnlySourcesCompile, Senders, NodeState, Version

\* The main thread changes its phase, its result and the outbox of start.
LEMMA MainThreadTypeInv == TypeInv /\ MainThread => TypeInv'
<1> SUFFICES ASSUME TypeInv, MainThread PROVE TypeInv'
  OBVIOUS
<1> USE GraphAssumption DEF TypeInv, TypeOK, OnlySourcesCompile, flowVars, fileVars
<1>1. CASE ParseOptions
  BY <1>1 DEF ParseOptions
<1>2. CASE GiveUp
  BY <1>2 DEF GiveUp
<1>3. CASE Wire
  BY <1>3 DEF Wire, FirstBuildTargets, Senders
<1>4. CASE PutDone
  BY <1>4 DEF PutDone
<1>5. CASE WaitForAll
  BY <1>5 DEF WaitForAll
<1> QED
  BY <1>1, <1>2, <1>3, <1>4, <1>5 DEF MainThread

\* A command changes its own node, its own boxes and its own files.
LEMMA WorkerTypeInv ==
  ASSUME TypeInv, NEW t \in Tangles, Worker(t)
  PROVE  TypeInv'
<1> USE GraphAssumption DEF TypeInv, TypeOK, OnlySourcesCompile, flowVars, fileVars, NodeState, Version, Senders
<1>1. CASE RunNode(t)
  BY <1>1 DEF RunNode
<1>2. CASE RunEmptyCommand(t)
  BY <1>2 DEF RunEmptyCommand, Finish, Successors
<1>3. CASE LoadAsts(t)
  <2>1. [d \in Tangles |-> IF d \in graph[t] THEN ast[d] ELSE "none"]
          \in [Tangles -> Version]
    OBVIOUS
  <2> QED
    BY <1>3, <2>1 DEF LoadAsts
<1>4. CASE CompileFails(t)
  BY <1>4 DEF CompileFails, Finish, Successors
<1>5. CASE EmitBc(t)
  BY <1>5 DEF EmitBc
<1>6. CASE EmitAst(t)
  BY <1>6 DEF EmitAst, Finish, Successors
<1> QED
  BY <1>1, <1>2, <1>3, <1>4, <1>5, <1>6 DEF Worker

LEMMA PutTypeInv ==
  ASSUME TypeInv, NEW s \in Senders, NEW t \in Tangles, Put(s, t)
  PROVE  TypeInv'
BY DEF TypeInv, TypeOK, OnlySourcesCompile, Put, fileVars

LEMMA NextTypeInv == TypeInv /\ [Next]_vars => TypeInv'
<1> SUFFICES ASSUME TypeInv, [Next]_vars PROVE TypeInv'
  OBVIOUS
<1>1. CASE UNCHANGED vars
  BY <1>1 DEF TypeInv, TypeOK, OnlySourcesCompile, vars, flowVars, fileVars
<1> QED
  BY <1>1, MainThreadTypeInv, WorkerTypeInv, PutTypeInv DEF Next

\* Every variable keeps its type in every behaviour of ts-make.
THEOREM TypeCorrect == Spec => []TypeOK
<1>1. Init => TypeInv
  BY InitTypeInv
<1>2. TypeInv /\ [Next]_vars => TypeInv'
  BY NextTypeInv
<1>3. TypeInv => TypeOK
  BY DEF TypeInv
<1> QED
  BY <1>1, <1>2, <1>3, PTL DEF Spec
-------------------------------------------------------------------------------
(* The flow of messages *)

\* Every port belongs to a dependency or to start.
LEMMA InputsAreSenders ==
  ASSUME TypeInv, NEW t \in Tangles
  PROVE  /\ Inputs(t) \subseteq Senders
         /\ Inputs(t) # {}
         /\ graph[t] \subseteq Tangles
         /\ start \in Inputs(t) => graph[t] = {}
         /\ \A s \in Inputs(t) : s = start \/ s \in graph[t]
         /\ \A d \in graph[t] : d \in Inputs(t)
BY GraphAssumption
DEF TypeInv, TypeOK, Inputs, FirstBuildTargets, Senders

LEMMA InitFlowInv == Init => FlowInv
<1> SUFFICES ASSUME Init PROVE FlowInv
  OBVIOUS
<1>1. TypeInv
  BY InitTypeInv
<1>2. /\ \A t \in Tangles : node[t] = "idle" /\ inbox[t] = {}
      /\ \A s \in Senders : outbox[s] = {}
      /\ phase = "options" /\ result = "none"
  BY DEF Init
<1>3. MainThreadInv
  BY <1>2 DEF MainThreadInv, Unstarted
<1>4. OnEdges /\ SentWhenDone /\ ConsumedOnce /\ DependenciesSettled
  BY <1>2 DEF OnEdges, SentWhenDone, ConsumedOnce, DependenciesSettled, Senders
<1>5. NothingLost
  BY <1>1, <1>2, InputsAreSenders DEF NothingLost, Unstarted
<1> QED
  BY <1>1, <1>3, <1>4, <1>5 DEF FlowInv

\* What a step has to show that leaves nodes and messages alone.
LEMMA FlowUnchanged ==
  ASSUME FlowInv, TypeInv', MainThreadInv', Unstarted => Unstarted',
         UNCHANGED <<graph, inbox, outbox, node>>
  PROVE  FlowInv'
<1>1. \A t : Inputs(t)' = Inputs(t)
  BY DEF Inputs, FirstBuildTargets
<1>2. NothingLost'
  BY <1>1 DEF FlowInv, NothingLost
<1>3. OnEdges' /\ SentWhenDone' /\ ConsumedOnce' /\ DependenciesSettled'
  BY <1>1 DEF FlowInv, OnEdges, SentWhenDone, ConsumedOnce, DependenciesSettled
<1> QED
  BY <1>2, <1>3 DEF FlowInv

\* The main thread sends the message of start and sees the end of the others.
LEMMA MainThreadFlowInv == FlowInv /\ MainThread => FlowInv'
<1> SUFFICES ASSUME FlowInv, MainThread PROVE FlowInv'
  OBVIOUS
<1> USE DEF FlowInv, flowVars, fileVars
<1>1. TypeInv'
  BY MainThreadTypeInv
<1>2. CASE ParseOptions
  <2>1. MainThreadInv' /\ (Unstarted => Unstarted')
    BY <1>2 DEF ParseOptions, MainThreadInv, Unstarted
  <2> QED
    BY <1>1, <1>2, <2>1, FlowUnchanged DEF ParseOptions
<1>3. CASE GiveUp
  <2>1. MainThreadInv' /\ (Unstarted => Unstarted')
    BY <1>3 DEF GiveUp, MainThreadInv, Unstarted
  <2> QED
    BY <1>1, <1>3, <2>1, FlowUnchanged DEF GiveUp
<1>4. CASE Wire
  <2>1. /\ \A t \in Tangles : node[t] = "idle" /\ inbox[t] = {}
        /\ \A s \in Senders : outbox[s] = {}
        /\ result = "none"
    BY <1>4 DEF Wire, MainThreadInv, Unstarted
  <2>2. /\ outbox'[start] = FirstBuildTargets
        /\ \A s \in Tangles : outbox'[s] = {}
        /\ UNCHANGED <<node, inbox, graph, result>>
        /\ phase' = "putting"
    BY <1>4, <2>1, GraphAssumption DEF Wire, Senders, TypeInv, TypeOK
  <2>3. MainThreadInv'
    BY <2>1, <2>2 DEF MainThreadInv, Unstarted
  <2>4. \A t \in Tangles : Inputs(t)' = Inputs(t)
    BY <2>2 DEF Inputs, FirstBuildTargets
  <2>5. OnEdges'
    BY <2>1, <2>2, <2>4 DEF OnEdges, Senders, Inputs, FirstBuildTargets
  <2>6. SentWhenDone' /\ ConsumedOnce' /\ DependenciesSettled'
    BY <2>1, <2>2 DEF SentWhenDone, ConsumedOnce, DependenciesSettled
  <2>7. NothingLost'
    <3> SUFFICES ASSUME NEW t \in Tangles, NEW s \in Inputs(t)
                 PROVE  t \in outbox'[s] \/ (s \in Tangles /\ node'[s] # "done")
      BY <2>4 DEF NothingLost
    <3>1. CASE s = start
      BY <3>1, <2>2, InputsAreSenders DEF FirstBuildTargets
    <3>2. CASE s \in graph[t]
      BY <3>2, <2>1, <2>2, InputsAreSenders
    <3> QED
      BY <3>1, <3>2, InputsAreSenders
  <2> QED
    BY <1>1, <2>3, <2>5, <2>6, <2>7
<1>5. CASE PutDone
  <2>1. MainThreadInv' /\ (Unstarted => Unstarted')
    BY <1>5 DEF PutDone, MainThreadInv, Unstarted
  <2> QED
    BY <1>1, <1>5, <2>1, FlowUnchanged DEF PutDone
<1>6. CASE WaitForAll
  <2>1. Quiescent'
    BY <1>6 DEF WaitForAll, Quiescent, Inputs, FirstBuildTargets
  <2>2. MainThreadInv' /\ (Unstarted => Unstarted')
    BY <1>6, <2>1 DEF WaitForAll, MainThreadInv, Unstarted
  <2> QED
    BY <1>1, <1>6, <2>2, FlowUnchanged DEF WaitForAll
<1> QED
  BY <1>2, <1>3, <1>4, <1>5, <1>6 DEF MainThread

\* A message moves from the outbox of s to the inbox of t.
LEMMA PutFlowInv ==
  ASSUME FlowInv, NEW s \in Senders, NEW t \in Tangles, Put(s, t)
  PROVE  FlowInv'
<1>1. TypeInv'
  BY PutTypeInv DEF FlowInv
<1>2. /\ t \in outbox[s]
      /\ outbox'[s] = outbox[s] \ {t}
      /\ \A r \in Senders : r # s => outbox'[r] = outbox[r]
      /\ inbox'[t] = inbox[t] \cup {s}
      /\ \A u \in Tangles : u # t => inbox'[u] = inbox[u]
      /\ UNCHANGED <<phase, result, graph, node>>
  BY DEF Put, FlowInv, TypeInv, TypeOK
<1>3. \A u : Inputs(u)' = Inputs(u)
  BY <1>2 DEF Inputs, FirstBuildTargets
<1>4. ~Unstarted /\ result # "true"
  BY <1>2, GraphAssumption
  DEF FlowInv, MainThreadInv, Unstarted, Quiescent, Senders
<1>5. MainThreadInv'
  BY <1>2, <1>4 DEF FlowInv, MainThreadInv, Unstarted, Senders
<1>6. OnEdges'
  <2>1. /\ \A u \in Tangles : inbox[u] \subseteq Inputs(u)
        /\ \A r \in Senders : \A u \in outbox[r] : r \in Inputs(u) /\ r \notin inbox[u]
    BY DEF FlowInv, OnEdges
  <2>2. \A r \in Senders : outbox'[r] \subseteq outbox[r] /\ outbox[r] \subseteq Tangles
    BY <1>2 DEF FlowInv, TypeInv, TypeOK
  <2>3. ASSUME NEW u \in Tangles
        PROVE  inbox'[u] \subseteq Inputs(u)
    BY <1>2, <2>1
  <2>4. ASSUME NEW r \in Senders, NEW u \in outbox'[r]
        PROVE  r \in Inputs(u) /\ r \notin inbox'[u]
    <3>1. u \in Tangles /\ u \in outbox[r] /\ ~(r = s /\ u = t)
      BY <1>2, <2>2, <2>4
    <3>2. r \in Inputs(u) /\ r \notin inbox[u]
      BY <2>1, <3>1
    <3>3. r \notin inbox'[u]
      BY <1>2, <3>1, <3>2
    <3> QED
      BY <3>2, <3>3
  <2> QED
    BY <1>3, <2>3, <2>4 DEF OnEdges
<1>7. SentWhenDone' /\ ConsumedOnce' /\ DependenciesSettled'
  <2>1. SentWhenDone'
    BY <1>2 DEF FlowInv, SentWhenDone, Senders
  <2>2. ConsumedOnce'
    BY <1>2 DEF FlowInv, ConsumedOnce
  <2>3. DependenciesSettled'
    BY <1>2 DEF FlowInv, DependenciesSettled
  <2> QED
    BY <2>1, <2>2, <2>3
<1>8. NothingLost'
  <2> SUFFICES ASSUME NEW u \in Tangles, node[u] = "idle", NEW r \in Inputs(u)
               PROVE  \/ r \in inbox'[u]
                      \/ u \in outbox'[r]
                      \/ r \in Tangles /\ node[r] # "done"
    BY <1>2, <1>3 DEF NothingLost
  <2>1. r \in Senders
    BY InputsAreSenders DEF FlowInv
  <2> QED
    BY <1>2, <1>4, <2>1 DEF FlowInv, NothingLost
<1> QED
  BY <1>1, <1>5, <1>6, <1>7, <1>8 DEF FlowInv

\* The ports of t are full: its dependencies have sent, so they are done, and
\* t has not run before.
LEMMA RunNodeFlowInv ==
  ASSUME FlowInv, NEW t \in Tangles, RunNode(t)
  PROVE  FlowInv'
<1>1. TypeInv'
  BY WorkerTypeInv DEF FlowInv, Worker
<1>2. /\ inbox[t] = Inputs(t)
      /\ inbox'[t] = {} /\ node'[t] = "loading"
      /\ \A u \in Tangles : u # t => inbox'[u] = inbox[u] /\ node'[u] = node[u]
      /\ UNCHANGED <<phase, result, graph, outbox>>
  BY DEF RunNode, FlowInv, TypeInv, TypeOK
<1>3. \A u : Inputs(u)' = Inputs(u)
  BY <1>2 DEF Inputs, FirstBuildTargets
<1>4. node[t] = "idle"
  BY <1>2, InputsAreSenders DEF FlowInv, ConsumedOnce
<1>5. \A s \in Senders : t \notin outbox[s]
  BY <1>2, <1>4 DEF FlowInv, OnEdges
<1>6. \A d \in graph[t] : d # t /\ node[d] = "done"
  BY <1>2, <1>4, InputsAreSenders DEF FlowInv, SentWhenDone
<1>7. ~Unstarted /\ result # "true"
  BY <1>2, InputsAreSenders DEF FlowInv, MainThreadInv, Quiescent
<1>8. MainThreadInv'
  BY <1>2, <1>7 DEF FlowInv, MainThreadInv, Unstarted
<1>9. OnEdges'
  BY <1>2, <1>3, <1>5 DEF FlowInv, OnEdges, TypeInv, TypeOK
<1>10. SentWhenDone'
  <2> SUFFICES ASSUME NEW s \in Tangles, NEW u \in Tangles,
                      s \in inbox'[u] \/ u \in outbox'[s]
               PROVE  node'[s] = "done"
    BY DEF SentWhenDone
  <2>1. node[s] = "done"
    BY <1>2 DEF FlowInv, SentWhenDone
  <2> QED
    BY <1>2, <1>4, <2>1
<1>11. ConsumedOnce'
  BY <1>2, <1>5 DEF FlowInv, ConsumedOnce
<1>12. DependenciesSettled'
  <2> SUFFICES ASSUME NEW u \in Tangles, node'[u] # "idle", NEW d \in graph[u]
               PROVE  node'[d] = "done"
    BY <1>2 DEF DependenciesSettled
  <2>1. d \in Tangles
    BY InputsAreSenders DEF FlowInv
  <2>2. node[d] = "done"
    BY <1>2, <1>6 DEF FlowInv, DependenciesSettled
  <2> QED
    BY <1>2, <1>4, <2>1, <2>2
<1>13. NothingLost'
  <2> SUFFICES ASSUME NEW u \in Tangles, node'[u] = "idle", NEW r \in Inputs(u)
               PROVE  \/ r \in inbox'[u]
                      \/ u \in outbox'[r]
                      \/ r \in Tangles /\ node'[r] # "done"
    BY <1>3 DEF NothingLost
  <2> QED
    BY <1>2, <1>7 DEF FlowInv, NothingLost
<1> QED
  BY <1>1, <1>8, <1>9, <1>10, <1>11, <1>12, <1>13 DEF FlowInv

\* The command of t goes on; nobody can tell.
LEMMA CommandFlowInv ==
  ASSUME FlowInv, NEW t \in Tangles, TypeInv',
         node[t] \notin {"idle", "done"},
         NEW state \in NodeState \ {"idle", "done"},
         node' = [node EXCEPT ![t] = state],
         UNCHANGED <<phase, result, graph, inbox, outbox>>
  PROVE  FlowInv'
<1>1. /\ node'[t] \notin {"idle", "done"}
      /\ \A u \in Tangles : u # t => node'[u] = node[u]
  BY DEF FlowInv, TypeInv, TypeOK
<1>2. \A u : Inputs(u)' = Inputs(u)
  BY DEF Inputs, FirstBuildTargets
<1>3. ~Unstarted /\ result # "true"
  BY DEF FlowInv, MainThreadInv, Quiescent
<1>4. MainThreadInv'
  BY <1>3 DEF FlowInv, MainThreadInv, Unstarted
<1>5. OnEdges'
  BY <1>2 DEF FlowInv, OnEdges
<1>6. SentWhenDone'
  BY <1>1 DEF FlowInv, SentWhenDone
<1>7. ConsumedOnce'
  BY <1>1 DEF FlowInv, ConsumedOnce
<1>8. DependenciesSettled'
  <2> SUFFICES ASSUME NEW u \in Tangles, node'[u] # "idle", NEW d \in graph[u]
               PROVE  node'[d] = "done"
    BY DEF DependenciesSettled
  <2>1. d \in Tangles /\ node[d] = "done"
    BY <1>1, InputsAreSenders DEF FlowInv, DependenciesSettled
  <2> QED
    BY <1>1, <2>1
<1>9. NothingLost'
  BY <1>1, <1>2, <1>3, InputsAreSenders DEF FlowInv, NothingLost, Senders
<1> QED
  BY <1>4, <1>5, <1>6, <1>7, <1>8, <1>9 DEF FlowInv

\* The command of t is over and its message is under way to the successors.
LEMMA FinishFlowInv ==
  ASSUME FlowInv, NEW t \in Tangles, TypeInv',
         node[t] \notin {"idle", "done"},
         NEW success \in BOOLEAN, Finish(t, success)
  PROVE  FlowInv'
<1>1. /\ node'[t] = "done"
      /\ outbox'[t] = Successors(t)
      /\ \A u \in Tangles : u # t => node'[u] = node[u]
      /\ \A r \in Senders : r # t => outbox'[r] = outbox[r]
      /\ UNCHANGED <<phase, result, graph, inbox>>
  BY DEF Finish, FlowInv, TypeInv, TypeOK, Senders
<1>2. \A u : Inputs(u)' = Inputs(u)
  BY <1>1 DEF Inputs, FirstBuildTargets
<1>3. \A u \in Successors(t) :
        u \in Tangles /\ t \in Inputs(u) /\ t \notin inbox[u] /\ node[u] = "idle"
  <2> SUFFICES ASSUME NEW u \in Tangles, t \in graph[u]
               PROVE  t \in Inputs(u) /\ t \notin inbox[u] /\ node[u] = "idle"
    BY DEF Successors
  <2> QED
    BY InputsAreSenders DEF FlowInv, SentWhenDone, DependenciesSettled
<1>4. ~Unstarted /\ result # "true" /\ t # start
  BY GraphAssumption DEF FlowInv, MainThreadInv, Quiescent
<1>5. MainThreadInv'
  BY <1>1, <1>4 DEF FlowInv, MainThreadInv, Unstarted, Senders
<1>6. OnEdges'
  <2>1. \A u \in Tangles : inbox'[u] \subseteq Inputs(u)'
    BY <1>1, <1>2 DEF FlowInv, OnEdges
  <2>2. ASSUME NEW r \in Senders, NEW u \in outbox'[r]
        PROVE  r \in Inputs(u)' /\ r \notin inbox'[u]
    BY <1>1, <1>2, <1>3 DEF FlowInv, OnEdges
  <2> QED
    BY <2>1, <2>2 DEF OnEdges
<1>7. SentWhenDone'
  BY <1>1 DEF FlowInv, SentWhenDone, Senders
<1>8. ConsumedOnce'
  BY <1>1, <1>3 DEF FlowInv, ConsumedOnce
<1>9. DependenciesSettled'
  <2> SUFFICES ASSUME NEW u \in Tangles, node'[u] # "idle", NEW d \in graph[u]
               PROVE  node'[d] = "done"
    BY <1>1 DEF DependenciesSettled
  <2>1. d \in Tangles /\ node[d] = "done"
    BY <1>1, InputsAreSenders DEF FlowInv, DependenciesSettled
  <2> QED
    BY <1>1, <2>1
<1>10. NothingLost'
  <2> SUFFICES ASSUME NEW u \in Tangles, node[u] = "idle", NEW r \in Inputs(u)
               PROVE  \/ r \in inbox[u]
                      \/ u \in outbox'[r]
                      \/ r \in Tangles /\ node'[r] # "done"
    BY <1>1, <1>2 DEF NothingLost
  <2>1. CASE r = t
    BY <2>1, <1>1, <1>4, InputsAreSenders DEF FlowInv, Successors
  <2>2. CASE r # t
    BY <2>2, <1>1, <1>4, InputsAreSenders DEF FlowInv, NothingLost
  <2> QED
    BY <2>1, <2>2
<1> QED
  BY <1>5, <1>6, <1>7, <1>8, <1>9, <1>10 DEF FlowInv

LEMMA WorkerFlowInv ==
  ASSUME FlowInv, NEW t \in Tangles, Worker(t)
  PROVE  FlowInv'
<1>1. TypeInv'
  BY WorkerTypeInv DEF FlowInv
<1>2. CASE RunNode(t)
  BY <1>2, RunNodeFlowInv
<1>3. CASE RunEmptyCommand(t)
  BY <1>1, <1>3, FinishFlowInv DEF RunEmptyCommand
<1>4. CASE LoadAsts(t)
  <2>1. "compiling" \in NodeState \ {"idle", "done"}
    BY DEF NodeState
  <2> QED
    BY <1>1, <1>4, <2>1, CommandFlowInv DEF LoadAsts
<1>5. CASE CompileFails(t)
  BY <1>1, <1>5, FinishFlowInv DEF CompileFails
<1>6. CASE EmitBc(t)
  <2>1. "emitted" \in NodeState \ {"idle", "done"}
    BY DEF NodeState
  <2> QED
    BY <1>1, <1>6, <2>1, CommandFlowInv DEF EmitBc
<1>7. CASE EmitAst(t)
  BY <1>1, <1>7, FinishFlowInv DEF EmitAst
<1> QED
  BY <1>2, <1>3, <1>4, <1>5, <1>6, <1>7 DEF Worker

LEMMA NextFlowInv == FlowInv /\ [Next]_vars => FlowInv'
<1> SUFFICES ASSUME FlowInv, [Next]_vars PROVE FlowInv'
  OBVIOUS
<1>1. CASE UNCHANGED vars
  <2>1. TypeInv'
    BY <1>1, NextTypeInv DEF FlowInv
  <2>2. MainThreadInv' /\ (Unstarted => Unstarted')
    BY <1>1 DEF FlowInv, MainThreadInv, Unstarted, vars, flowVars, Quiescent,
       Inputs, FirstBuildTargets
  <2> QED
    BY <1>1, <2>1, <2>2, FlowUnchanged DEF vars, flowVars
<1> QED
  BY <1>1, MainThreadFlowInv, WorkerFlowInv, PutFlowInv DEF Next

THEOREM FlowCorrect == Spec => []FlowInv
<1>1. Init => FlowInv
  BY InitFlowInv
<1>2. FlowInv /\ [Next]_vars => FlowInv'
  BY NextFlowInv
<1> QED
  BY <1>1, <1>2, PTL DEF Spec

\* No compilation runs while a dependency of it is still being compiled.
THEOREM OrderCorrect == Spec => []DependenciesSettled
<1>1. FlowInv => DependenciesSettled
  BY DEF FlowInv
<1> QED
  BY <1>1, FlowCorrect, PTL

\* A node that has not run, though all its dependencies have, can run.
LEMMA ReadyNode ==
  ASSUME FlowInv, ~Unstarted, outbox[start] = {}, NEW t \in Tangles,
         node[t] = "idle", \A d \in graph[t] : node[d] = "done" /\ outbox[d] = {}
  PROVE  inbox[t] = Inputs(t)
<1>1. \A s \in Inputs(t) : s \in inbox[t]
  BY InputsAreSenders, GraphAssumption DEF FlowInv, NothingLost
<1> QED
  BY <1>1 DEF FlowInv, OnEdges

LEMMA QuiescentIsComplete ==
  ASSUME FlowInv, ~Unstarted, outbox[start] = {}, Quiescent
  PROVE  \A t \in Tangles : node[t] = "done"
<1> DEFINE T == {t \in Tangles : node[t] # "done"}
<1>1. SUFFICES ASSUME T # {} PROVE FALSE
  OBVIOUS
<1>2. PICK t \in T : graph[t] \cap T = {}
  BY <1>1, GraphAssumption DEF Acyclic, FlowInv, TypeInv, TypeOK
<1>3. \A d \in graph[t] : node[d] = "done" /\ outbox[d] = {}
  BY <1>2, InputsAreSenders DEF Quiescent, FlowInv
<1>4. node[t] = "idle"
  BY <1>2 DEF Quiescent
<1>5. inbox[t] = Inputs(t)
  BY <1>2, <1>3, <1>4, ReadyNode
<1> QED
  BY <1>2, <1>5 DEF Quiescent

\* When ts-make returns true no tangle has been left out.  The graph must have
\* no cycle: the nodes of a cycle would wait for each other.
THEOREM CompletionCorrect == Spec => []ReturnedComplete
<1>1. FlowInv => ReturnedComplete
  BY QuiescentIsComplete DEF FlowInv, MainThreadInv, Unstarted, ReturnedComplete
<1> QED
  BY <1>1, FlowCorrect, PTL

-------------------------------------------------------------------------------
(* The files *)

LEMMA InitIInv == Init => IInv
<1> SUFFICES ASSUME Init PROVE IInv
  OBVIOUS
<1>1. \A t, d \in Tangles : used[t][d] = "none" /\ node[t] = "idle" /\ ~ok[t]
  BY DEF Init
<1>2. \A t \in Bundles : ast[t] = "new"
  BY GraphAssumption DEF Init
<1> QED
  BY <1>1, <1>2, InitFlowInv DEF IInv, FilesInv

\* What a step has to show that writes no file and loads none.
LEMMA FilesUnchanged ==
  ASSUME IInv, UNCHANGED <<graph, ok, fileVars>>,
         \A t \in Tangles :
           \/ node'[t] = node[t]
           \/ node[t] = "idle" /\ node'[t] = "loading"
  PROVE  FilesInv'
BY DEF IInv, FilesInv, fileVars

\* A failing command leaves the files as they are; it has not failed before.
LEMMA CompileFailsFilesInv ==
  ASSUME IInv, NEW t \in Tangles, CompileFails(t)
  PROVE  FilesInv'
<1>1. /\ node'[t] = "done" /\ ~ok'[t]
      /\ \A u \in Tangles : u # t => node'[u] = node[u] /\ ok'[u] = ok[u]
      /\ UNCHANGED <<graph, ast, bc, used>>
      /\ node[t] \in {"loading", "compiling", "emitted"}
  BY DEF CompileFails, Finish, fileVars, IInv, FlowInv, TypeInv, TypeOK
<1> QED
  BY <1>1 DEF IInv, FilesInv

LEMMA RunEmptyCommandFilesInv ==
  ASSUME IInv, NEW t \in Tangles, RunEmptyCommand(t)
  PROVE  FilesInv'
<1>1. /\ node'[t] = "done" /\ t \in Bundles
      /\ \A u \in Tangles : u # t => node'[u] = node[u] /\ ok'[u] = ok[u]
      /\ UNCHANGED <<graph, ast, bc, used>>
      /\ node[t] = "loading"
  BY DEF RunEmptyCommand, Finish, fileVars, IInv, FlowInv, TypeInv, TypeOK
<1> QED
  BY <1>1 DEF IInv, FilesInv

\* The files that are loaded are settled.
LEMMA LoadAstsFilesInv ==
  ASSUME IInv, NEW t \in Tangles, LoadAsts(t)
  PROVE  FilesInv'
<1>1. /\ node[t] = "loading" /\ node'[t] = "compiling"
      /\ \A u \in Tangles : u # t => node'[u] = node[u]
      /\ UNCHANGED <<graph, ok, ast, bc>>
      /\ \A d \in graph[t] : d \in Tangles /\ ast[d] # "none"
  BY InputsAreSenders DEF LoadAsts, IInv, FlowInv, TypeInv, TypeOK
<1>2. /\ \A d \in graph[t] : used'[t][d] = ast[d]
      /\ \A d \in Tangles \ graph[t] : used'[t][d] = "none"
      /\ \A u \in Tangles : u # t => used'[u] = used[u]
  BY <1>1 DEF LoadAsts, IInv, FlowInv, TypeInv, TypeOK
<1>3. \A u, d \in Tangles : used'[u][d] # "none" =>
        /\ d \in graph'[u]
        /\ node'[u] \in {"compiling", "emitted", "done"}
        /\ used'[u][d] = ast'[d]
  <2> TAKE u \in Tangles
  <2>1. CASE u = t
    BY <1>1, <1>2, <2>1
  <2>2. CASE u # t
    BY <1>1, <1>2, <2>2 DEF IInv, FilesInv
  <2> QED
    BY <2>1, <2>2
<1>4. \A u \in Tangles \ Bundles :
        node'[u] \in {"compiling", "emitted"} \/ ok'[u] =>
          \A d \in graph'[u] : used'[u][d] # "none"
  <2> TAKE u \in Tangles \ Bundles
  <2>1. CASE u = t
    BY <1>1, <1>2, <2>1
  <2>2. CASE u # t
    BY <1>1, <1>2, <2>2 DEF IInv, FilesInv
  <2> QED
    BY <2>1, <2>2
<1>5. \A u \in Tangles : node'[u] = "emitted" => u \in bc'
  BY <1>1 DEF IInv, FilesInv
<1>6. \A u \in Tangles : ok'[u] =>
        node'[u] = "done" /\ ast'[u] = "new" /\ (u \notin Bundles => u \in bc')
  BY <1>1 DEF IInv, FilesInv
<1> QED
  BY <1>1, <1>3, <1>4, <1>5, <1>6 DEF IInv, FilesInv

LEMMA EmitBcFilesInv ==
  ASSUME IInv, NEW t \in Tangles, EmitBc(t)
  PROVE  FilesInv'
<1>1. /\ node[t] = "compiling" /\ node'[t] = "emitted"
      /\ \A u \in Tangles : u # t => node'[u] = node[u]
      /\ UNCHANGED <<graph, ok, ast, used>>
      /\ bc' = bc \cup {t}
  BY DEF EmitBc, IInv, FlowInv, TypeInv, TypeOK
<1> QED
  BY <1>1 DEF IInv, FilesInv

\* The .ast of t is written; nobody has loaded it, because a node that depends
\* on t has not run.
LEMMA EmitAstFilesInv ==
  ASSUME IInv, NEW t \in Tangles, EmitAst(t)
  PROVE  FilesInv'
<1>1. /\ node[t] = "emitted" /\ node'[t] = "done"
      /\ ast'[t] = "new" /\ ok'[t]
      /\ \A u \in Tangles : u # t =>
           node'[u] = node[u] /\ ast'[u] = ast[u] /\ ok'[u] = ok[u]
      /\ UNCHANGED <<graph, bc, used>>
  BY DEF EmitAst, Finish, IInv, FlowInv, TypeInv, TypeOK
<1>2. \A u \in Tangles : used[u][t] = "none"
  BY <1>1 DEF IInv, FilesInv, FlowInv, DependenciesSettled
<1>3. \A u, d \in Tangles : used[u][d] # "none" => ast'[d] = ast[d]
  BY <1>1, <1>2
<1>4. \A u, d \in Tangles : used'[u][d] # "none" =>
        /\ d \in graph'[u]
        /\ node'[u] \in {"compiling", "emitted", "done"}
        /\ used'[u][d] = ast'[d]
  BY <1>1, <1>3 DEF IInv, FilesInv
<1>5. \A u \in Tangles \ Bundles :
        node'[u] \in {"compiling", "emitted"} \/ ok'[u] =>
          \A d \in graph'[u] : used'[u][d] # "none"
  BY <1>1 DEF IInv, FilesInv
<1>6. \A u \in Bundles : ast'[u] = "new"
  BY <1>1, GraphAssumption DEF IInv, FilesInv
<1>7. \A u \in Tangles : node'[u] = "emitted" => u \in bc'
  BY <1>1 DEF IInv, FilesInv
<1>8. \A u \in Tangles : ok'[u] =>
        node'[u] = "done" /\ ast'[u] = "new" /\ (u \notin Bundles => u \in bc')
  BY <1>1 DEF IInv, FilesInv
<1> QED
  BY <1>4, <1>5, <1>6, <1>7, <1>8 DEF FilesInv

LEMMA NextIInv == IInv /\ [Next]_vars => IInv'
<1> SUFFICES ASSUME IInv, [Next]_vars PROVE FilesInv'
  BY NextFlowInv DEF IInv
<1>1. CASE UNCHANGED vars
  BY <1>1, FilesUnchanged DEF vars, flowVars
<1>2. CASE MainThread
  BY <1>2, FilesUnchanged
  DEF MainThread, ParseOptions, GiveUp, Wire, PutDone, WaitForAll, flowVars
<1>3. ASSUME NEW t \in Tangles, Worker(t) PROVE FilesInv'
  <2>1. CASE RunNode(t)
    <3>1. node[t] = "idle"
      BY <2>1, InputsAreSenders DEF RunNode, IInv, FlowInv, ConsumedOnce
    <3> QED
      BY <2>1, <3>1, FilesUnchanged DEF RunNode, IInv, FlowInv, TypeInv, TypeOK
  <2> QED
    BY <1>3, <2>1, RunEmptyCommandFilesInv, LoadAstsFilesInv,
       CompileFailsFilesInv, EmitBcFilesInv, EmitAstFilesInv DEF Worker
<1>4. ASSUME NEW s \in Senders, NEW t \in Tangles, Put(s, t) PROVE FilesInv'
  BY <1>4, FilesUnchanged DEF Put
<1> QED
  BY <1>1, <1>2, <1>3, <1>4 DEF Next

THEOREM InductiveInvariant == Spec => []IInv
BY InitIInv, NextIInv, PTL DEF Spec

\* An .ast of an earlier build is used only where its compilation has failed.
THEOREM StalenessCorrect == Spec => []OldAstBlamesDependency
<1>1. IInv => OldAstBlamesDependency
  BY DEF IInv, FilesInv, FlowInv, DependenciesSettled, OldAstBlamesDependency
<1> QED
  BY <1>1, InductiveInvariant, PTL

\* If no command fails, ts-make leaves a consistent build directory.
THEOREM CleanBuildCorrect == Spec => []CleanBuildIsConsistent
<1>1. IInv => CleanBuildIsConsistent
  <2> SUFFICES ASSUME IInv, result = "true", \A t \in Tangles : ok[t],
                      NEW t \in Tangles
               PROVE  /\ ast[t] = "new"
                      /\ t \notin Bundles => t \in bc
                      /\ \A d \in graph[t] : used[t][d] = "new"
    BY DEF CleanBuildIsConsistent
  <2>1. \A d \in graph[t] : d \in Tangles /\ t \notin Bundles
    BY InputsAreSenders, GraphAssumption DEF IInv, FlowInv, TypeInv, TypeOK
  <2> QED
    BY <2>1 DEF IInv, FilesInv
<1> QED
  BY <1>1, InductiveInvariant, PTL
-------------------------------------------------------------------------------
(* Steps *)

\* Only the command of d writes the .ast of d, and it runs before any
\* compilation that loads it.
LEMMA LoadedAstStep ==
  ASSUME IInv, [Next]_vars, NEW t \in Tangles, NEW d \in Tangles,
         used[t][d] # "none"
  PROVE  ast'[d] = ast[d]
<1>1. node[d] = "done"
  BY DEF IInv, FilesInv, FlowInv, DependenciesSettled
<1>2. ASSUME NEW u \in Tangles, Worker(u) PROVE ast'[d] = ast[d]
  BY <1>1, <1>2 DEF Worker, RunNode, RunEmptyCommand, LoadAsts, CompileFails,
     EmitBc, EmitAst, Finish, fileVars, IInv, FlowInv, TypeInv, TypeOK
<1> QED
  BY <1>2 DEF Next, MainThread, ParseOptions, GiveUp, Wire, PutDone, WaitForAll,
     Put, vars, fileVars

\* No .ast changes while or after a compilation loads it.
THEOREM FilesDoNotRace == Spec => LoadedAstIsStable
<1>1. IInv /\ [Next]_vars =>
        [\A t, d \in Tangles : used[t][d] # "none" => ast'[d] = ast[d]]_vars
  BY LoadedAstStep
<1> QED
  BY <1>1, InductiveInvariant, PTL DEF Spec, LoadedAstIsStable

\* How a step changes the progress of the nodes.
LEMMA NodeStep ==
  ASSUME FlowInv, [Next]_vars
  PROVE  \/ UNCHANGED node
         \/ \E t \in Tangles :
              /\ node[t] = "idle"
              /\ node' = [node EXCEPT ![t] = "loading"]
              /\ \A d \in graph[t] : node[d] = "done"
              /\ UNCHANGED <<graph, result>>
         \/ \E t \in Tangles :
              /\ node[t] \notin {"idle", "done"}
              /\ \E state \in NodeState \ {"idle", "loading"} :
                   node' = [node EXCEPT ![t] = state]
              /\ UNCHANGED <<graph, result>>
<1>1. ASSUME NEW t \in Tangles, RunNode(t)
      PROVE  node[t] = "idle" /\ \A d \in graph[t] : node[d] = "done"
  BY <1>1, InputsAreSenders DEF RunNode, FlowInv, ConsumedOnce, SentWhenDone
<1>2. ASSUME NEW t \in Tangles, Worker(t), ~RunNode(t)
      PROVE  /\ node[t] \notin {"idle", "done"}
             /\ \E state \in NodeState \ {"idle", "loading"} :
                  node' = [node EXCEPT ![t] = state]
             /\ UNCHANGED <<graph, result>>
  BY <1>2 DEF Worker, RunEmptyCommand, LoadAsts, CompileFails, EmitBc, EmitAst,
     Finish, NodeState
<1>3. ASSUME NEW t \in Tangles, RunNode(t)
      PROVE  node' = [node EXCEPT ![t] = "loading"] /\ UNCHANGED <<graph, result>>
  BY <1>3 DEF RunNode
<1>4. MainThread \/ UNCHANGED vars => UNCHANGED node
  BY DEF MainThread, ParseOptions, GiveUp, Wire, PutDone, WaitForAll, vars,
     flowVars
<1>5. ASSUME NEW s \in Senders, NEW t \in Tangles, Put(s, t)
      PROVE  UNCHANGED node
  BY <1>5 DEF Put
<1> QED
  BY <1>1, <1>2, <1>3, <1>4, <1>5 DEF Next

\* A command starts once and never starts again.
THEOREM RunsOnce == Spec => CompiledOnce
<1>1. FlowInv /\ [Next]_vars =>
        [\A t \in Tangles :
           node[t] # "idle" =>
             node'[t] \notin {"idle", "loading"} \/ UNCHANGED node[t]]_vars
  BY NodeStep DEF FlowInv, TypeInv, TypeOK
<1> QED
  BY <1>1, FlowCorrect, PTL DEF Spec, CompiledOnce

-------------------------------------------------------------------------------
(* The build ends *)

\* What is left to do: the main thread's way, the steps of the commands, and
\* the messages under way.
PhaseLeft ==
  CASE phase = "options" -> 4 [] phase = "restore" -> 3 [] phase = "putting" -> 2
    [] phase = "waiting" -> 1 [] OTHER -> 0
StepsLeft == [idle |-> 4, loading |-> 3, compiling |-> 2, emitted |-> 1, done |-> 0]
Work      == {w \in Tangles \X (1..4) : w[2] <= StepsLeft[node[w[1]]]}
Messages  == {m \in Senders \X Tangles : m[2] \in outbox[m[1]]}

Distance == <<PhaseLeft, Cardinality(Work), Cardinality(Messages)>>
Measured == Distance \in Tuples(3)
Closer   == <<Distance', Distance>> \in Falls(3)

LEMMA FinitelyMany ==
  ASSUME IsFiniteSet(Tangles)
  PROVE  IsFiniteSet(Work) /\ IsFiniteSet(Messages)
<1>0. IsFiniteSet({start})
  BY FS_Singleton
<1>1. IsFiniteSet(1..4)
  <2>1. 1 \in Int /\ 4 \in Int
    OBVIOUS
  <2> QED
    BY <2>1, FS_Interval
<1>2. IsFiniteSet(Senders)
  BY <1>0, FS_Union DEF Senders
<1>3. IsFiniteSet(Tangles \X (1..4)) /\ IsFiniteSet(Senders \X Tangles)
  BY <1>1, <1>2, FS_Product
<1> QED
  BY <1>3, FewerMembers DEF Work, Messages

LEMMA DistanceIsTuple ==
  ASSUME IsFiniteSet(Tangles)
  PROVE  Measured
<1>1. Cardinality(Work) \in Nat /\ Cardinality(Messages) \in Nat
  BY FinitelyMany, FS_CardinalityType
<1>2. PhaseLeft \in Nat
  BY DEF PhaseLeft
<1> QED
  BY <1>1, <1>2 DEF Measured, Distance, Tuples

\* Which of the numbers a step lowers, the ones before it unchanged.
LEMMA Lowers ==
  ASSUME Measured, Measured',
         \/ PhaseLeft' < PhaseLeft
         \/ PhaseLeft' = PhaseLeft /\ Cardinality(Work') < Cardinality(Work)
         \/ /\ PhaseLeft' = PhaseLeft /\ Work' = Work
            /\ Cardinality(Messages') < Cardinality(Messages)
  PROVE  Closer
<1>1. Distance \in Tuples(3) /\ Distance' \in Tuples(3)
  BY DEF Measured
<1>2. /\ Distance[1] = PhaseLeft /\ Distance'[1] = PhaseLeft'
      /\ Distance[2] = Cardinality(Work) /\ Distance'[2] = Cardinality(Work')
      /\ Distance[3] = Cardinality(Messages)
      /\ Distance'[3] = Cardinality(Messages')
  BY DEF Distance
<1> QED
  BY <1>1, <1>2, FallsAt DEF Closer

\* A step of a command leaves less to do.
LEMMA CommandProgress ==
  ASSUME IsFiniteSet(Tangles), TypeInv, NEW t \in Tangles, NEW state \in NodeState,
         node' = [node EXCEPT ![t] = state],
         StepsLeft[state] < StepsLeft[node[t]]
  PROVE  Cardinality(Work') < Cardinality(Work)
<1>1. \A s \in NodeState : StepsLeft[s] \in 0..4
  BY DEF NodeState, StepsLeft
<1>2. /\ \A u \in Tangles : node[u] \in NodeState
      /\ node'[t] = state
      /\ \A u \in Tangles : u # t => node'[u] = node[u]
  BY DEF TypeInv, TypeOK
<1> HIDE DEF StepsLeft
<1>3. Work' \subseteq Work
  <2> SUFFICES ASSUME NEW u \in Tangles, NEW k \in 1..4, k <= StepsLeft[node'[u]]
               PROVE  k <= StepsLeft[node[u]]
    BY DEF Work
  <2> QED
    BY <1>1, <1>2
<1>4. PICK k \in 1..4 : k = StepsLeft[node[t]]
  BY <1>1, <1>2
<1>5. <<t, k>> \in Work /\ <<t, k>> \notin Work'
  BY <1>1, <1>2, <1>4 DEF Work
<1> QED
  BY <1>3, <1>5, FinitelyMany, FewerMembers

LEMMA DistanceFalls ==
  ASSUME IsFiniteSet(Tangles), FlowInv, Measured, Measured', Next
  PROVE  Closer
<1>1. CASE MainThread
  <2>1. PhaseLeft' < PhaseLeft
    BY <1>1 DEF MainThread, ParseOptions, GiveUp, Wire, PutDone, WaitForAll,
                PhaseLeft
  <2> QED
    BY <2>1, Lowers
<1>2. ASSUME NEW t \in Tangles, Worker(t)
      PROVE  Closer
  <2>1. PhaseLeft' = PhaseLeft
    BY <1>2 DEF Worker, RunNode, RunEmptyCommand, LoadAsts, CompileFails, EmitBc,
                EmitAst, Finish, PhaseLeft
  <2>2. \E state \in NodeState :
          /\ node' = [node EXCEPT ![t] = state]
          /\ StepsLeft[state] < StepsLeft[node[t]]
    <3>1. CASE RunNode(t)
      <4>1. node[t] = "idle"
        BY <3>1, InputsAreSenders DEF RunNode, FlowInv, ConsumedOnce
      <4> QED
        BY <3>1, <4>1 DEF RunNode, NodeState, StepsLeft
    <3>2. CASE RunEmptyCommand(t) \/ CompileFails(t) \/ EmitAst(t)
      BY <3>2 DEF RunEmptyCommand, CompileFails, EmitAst, Finish, NodeState,
                  StepsLeft
    <3>3. CASE LoadAsts(t) \/ EmitBc(t)
      BY <3>3 DEF LoadAsts, EmitBc, NodeState, StepsLeft
    <3> QED
      BY <1>2, <3>1, <3>2, <3>3 DEF Worker
  <2> QED
    BY <2>1, <2>2, CommandProgress, Lowers DEF FlowInv
<1>3. ASSUME NEW s \in Senders, NEW t \in Tangles, Put(s, t)
      PROVE  Closer
  <2>1. /\ PhaseLeft' = PhaseLeft /\ Work' = Work /\ t \in outbox[s]
        /\ outbox' = [outbox EXCEPT ![s] = outbox[s] \ {t}]
        /\ outbox \in [Senders -> SUBSET Tangles]
    BY <1>3 DEF Put, PhaseLeft, Work, FlowInv, TypeInv, TypeOK
  <2>2. Messages' \subseteq Messages
    BY <2>1 DEF Messages
  <2>3. <<s, t>> \in Messages /\ <<s, t>> \notin Messages'
    BY <2>1 DEF Messages
  <2> QED
    BY <2>1, <2>2, <2>3, FinitelyMany, FewerMembers, Lowers
<1> QED
  BY <1>1, <1>2, <1>3 DEF Next

\* ts-make comes to an end, for every finite graph: no command is run again and
\* no message put twice, whichever commands fail.  Any step lowers a measure
\* that nothing lowers for ever.
THEOREM StageEnds ==
  ASSUME IsFiniteSet(Tangles)
  PROVE  /\ IsWellFoundedOn(Falls(3), Tuples(3))
         /\ Spec => []Measured
         /\ Spec => [][Closer]_vars
<1>1. IsWellFoundedOn(Falls(3), Tuples(3))
  BY NothingFallsForever
<1>2. FlowInv => Measured
  BY DistanceIsTuple
<1>3. FlowInv /\ Measured /\ Measured' /\ [Next]_vars => [Closer]_vars
  BY DistanceFalls
<1> QED
  BY <1>1, <1>2, <1>3, FlowCorrect, PTL DEF Spec

-------------------------------------------------------------------------------
(* Refinement *)

LEMMA RefinementInit == Init => TB!Init
BY DEF Init, TB!Init

LEMMA RefinementStep == FlowInv /\ [Next]_vars => [TB!Next]_(TB!absVars)
<1> SUFFICES ASSUME FlowInv, [Next]_vars
             PROVE  TB!Next \/ UNCHANGED TB!absVars
  OBVIOUS
<1> DEFINE begun == {t \in Tangles : node[t] # "idle"}
           over  == {t \in Tangles : node[t] = "done"}
<1>1. CASE WaitForAll
  <2>1. /\ result # "true" /\ result' = "true" /\ UNCHANGED <<graph, node>>
        /\ ~Unstarted /\ outbox[start] = {} /\ Quiescent
    BY <1>1 DEF WaitForAll, flowVars, FlowInv, MainThreadInv, Unstarted
  <2>2. over = Tangles
    BY <2>1, QuiescentIsComplete
  <2>3. TB!Return
    BY <2>1, <2>2 DEF TB!Return
  <2> QED
    BY <2>3 DEF TB!Next
<1>2. ASSUME ~WaitForAll, UNCHANGED node
      PROVE  UNCHANGED TB!absVars
  <2>1. UNCHANGED graph /\ (result = "true" <=> result' = "true")
    BY <1>2 DEF Next, MainThread, ParseOptions, GiveUp, Wire, PutDone, Worker,
       RunNode, RunEmptyCommand, LoadAsts, CompileFails, EmitBc, EmitAst, Finish,
       Put, vars, FlowInv, MainThreadInv
  <2> QED
    BY <1>2, <2>1 DEF TB!absVars
<1>3. ASSUME NEW t \in Tangles,
             node[t] = "idle",
             node' = [node EXCEPT ![t] = "loading"],
             \A d \in graph[t] : node[d] = "done",
             UNCHANGED <<graph, result>>
      PROVE  TB!Begin(t)
  <2>1. begun' = begun \cup {t} /\ over' = over /\ t \notin begun
    BY <1>3 DEF FlowInv, TypeInv, TypeOK
  <2>2. graph[t] \subseteq over
    BY <1>3, InputsAreSenders DEF FlowInv
  <2> QED
    BY <1>3, <2>1, <2>2 DEF TB!Begin
<1>4. ASSUME NEW t \in Tangles, NEW state \in NodeState \ {"idle", "loading"},
             node[t] \notin {"idle", "done"},
             node' = [node EXCEPT ![t] = state],
             UNCHANGED <<graph, result>>
      PROVE  TB!Finish(t) \/ UNCHANGED TB!absVars
  <2>1. begun' = begun /\ t \in begun \ over
    BY <1>4 DEF FlowInv, TypeInv, TypeOK
  <2>2. CASE state = "done"
    <3>1. over' = over \cup {t}
      BY <1>4, <2>2 DEF FlowInv, TypeInv, TypeOK
    <3> QED
      BY <1>4, <2>1, <3>1 DEF TB!Finish
  <2>3. CASE state # "done"
    <3>1. over' = over
      BY <1>4, <2>1, <2>3 DEF FlowInv, TypeInv, TypeOK
    <3> QED
      BY <1>4, <2>1, <3>1 DEF TB!absVars
  <2> QED
    BY <2>2, <2>3
<1>5. CASE \E t \in Tangles :
             /\ node[t] = "idle"
             /\ node' = [node EXCEPT ![t] = "loading"]
             /\ \A d \in graph[t] : node[d] = "done"
             /\ UNCHANGED <<graph, result>>
  BY <1>3, <1>5 DEF TB!Next
<1>6. CASE \E t \in Tangles :
             /\ node[t] \notin {"idle", "done"}
             /\ \E state \in NodeState \ {"idle", "loading"} :
                  node' = [node EXCEPT ![t] = state]
             /\ UNCHANGED <<graph, result>>
  BY <1>4, <1>6 DEF TB!Next
<1> QED
  BY <1>1, <1>2, <1>5, <1>6, NodeStep

\* ts-make implements the topological build.
THEOREM ImplementsSpec == Spec => ImplementsTopologicalBuild
<1>1. Init => TB!Init
  BY RefinementInit
<1>2. FlowInv /\ [Next]_vars => [TB!Next]_(TB!absVars)
  BY RefinementStep
<1> QED
  BY <1>1, <1>2, FlowCorrect, PTL
  DEF Spec, TB!Spec, ImplementsTopologicalBuild

-------------------------------------------------------------------------------
(* What the driver sees *)

Progress ==
  CASE phase \in {"putting", "waiting"} -> "running"
    [] result = "true" -> "over"
    [] OTHER -> "idle"

\* Bundles have an empty command.
Those(states) ==
  {t \in Tangles \ Bundles : Progress # "idle" /\ node[t] \in states}
ToEmit    == {"idle", "loading", "compiling"}
MissedNow == {t \in Those({"done"}) : ~ok[t]}

CC == INSTANCE Compilations WITH
  make <- Progress, all <- Those(NodeState), left <- Those(ToEmit),
  half <- Those({"emitted"}), missed <- MissedNow

\* Nothing of what the driver sees changes.
LEMMA UnseenStep ==
  ASSUME UNCHANGED <<node, ok>>, Progress' = Progress
  PROVE  UNCHANGED CC!compilationVars
<1>1. \A states : Those(states)' = Those(states)
  BY DEF Those
<1> QED
  BY <1>1 DEF CC!compilationVars, MissedNow, NodeState, ToEmit

\* The command of t goes on.
LEMMA ThoseStep ==
  ASSUME TypeInv, Progress = "running", Progress' = "running",
         NEW t \in Tangles, NEW state \in NodeState,
         node' = [node EXCEPT ![t] = state]
  PROVE  \A states \in SUBSET NodeState :
           Those(states)' = IF state \in states /\ t \notin Bundles
                            THEN Those(states) \cup {t} ELSE Those(states) \ {t}
<1>1. /\ node'[t] = state
      /\ \A u \in Tangles : u # t => node'[u] = node[u]
  BY DEF TypeInv, TypeOK
<1> QED
  BY <1>1 DEF Those

LEMMA WorkerIsRunning ==
  ASSUME FlowInv, NEW t \in Tangles, Worker(t)
  PROVE  Progress = "running" /\ Progress' = "running"
<1>1. UNCHANGED <<phase, result>>
  BY DEF Worker, RunNode, RunEmptyCommand, LoadAsts, CompileFails, EmitBc, EmitAst,
         Finish
<1>2. node[t] # "idle" \/ inbox[t] # {}
  BY InputsAreSenders
  DEF Worker, RunNode, RunEmptyCommand, LoadAsts, CompileFails, EmitBc, EmitAst,
      FlowInv
<1>3. node[t] \notin {"idle", "done"} \/ inbox[t] = Inputs(t)
  BY DEF Worker, RunNode, RunEmptyCommand, LoadAsts, CompileFails, EmitBc, EmitAst
<1>4. ~Unstarted /\ result # "true"
  BY <1>2, <1>3 DEF FlowInv, MainThreadInv, Quiescent
<1>5. phase \in {"putting", "waiting"}
  BY <1>4 DEF Unstarted, FlowInv, TypeInv, TypeOK, MainThreadInv
<1>6. phase' \in {"putting", "waiting"}
  BY <1>1, <1>5
<1>7. Progress = "running"
  BY <1>4, <1>5 DEF Progress
<1>8. Progress' = "running"
  BY <1>1, <1>4, <1>6 DEF Progress
<1> QED
  BY <1>7, <1>8

LEMMA MainThreadIsSeen ==
  ASSUME FlowInv, MainThread
  PROVE  CC!Next \/ UNCHANGED CC!compilationVars
<1>0. result = "none"
  BY DEF FlowInv, MainThreadInv, MainThread, ParseOptions, GiveUp, Wire, PutDone,
         WaitForAll
<1>1. CASE ParseOptions \/ GiveUp \/ PutDone
  <2>1. UNCHANGED <<node, ok>> /\ Progress' = Progress
    BY <1>0, <1>1 DEF ParseOptions, GiveUp, PutDone, flowVars, Progress
  <2> QED
    BY <2>1, UnseenStep
<1>2. CASE Wire
  <2>1. /\ Progress = "idle" /\ Progress' = "running"
        /\ \A t \in Tangles : node'[t] = "idle"
    BY <1>0, <1>2 DEF Wire, Progress, FlowInv, MainThreadInv, Unstarted
  <2>2. /\ Those(NodeState)' = Tangles \ Bundles /\ Those(ToEmit)' = Tangles \ Bundles
        /\ Those({"emitted"})' = {} /\ MissedNow' = {}
    BY <2>1 DEF Those, NodeState, ToEmit, MissedNow
  <2>3. CC!Start
    BY <2>1, <2>2 DEF CC!Start
  <2> QED
    BY <2>3 DEF CC!Next
<1>3. CASE WaitForAll
  <2>1. /\ Progress = "running" /\ Progress' = "over" /\ UNCHANGED <<node, ok>>
        /\ ~Unstarted /\ outbox[start] = {} /\ Quiescent
    BY <1>0, <1>3
    DEF WaitForAll, Progress, flowVars, FlowInv, MainThreadInv, Unstarted
  <2>2. \A t \in Tangles : node[t] = "done"
    BY <2>1, QuiescentIsComplete
  <2>3. Those(ToEmit) = {} /\ Those({"emitted"}) = {}
    BY <2>2 DEF Those, ToEmit
  <2>4. \A states : Those(states)' = Those(states)
    BY <2>1 DEF Those
  <2>5. CC!Return
    BY <2>1, <2>3, <2>4 DEF CC!Return, MissedNow, NodeState, ToEmit
  <2> QED
    BY <2>5 DEF CC!Next
<1> QED
  BY <1>1, <1>2, <1>3 DEF MainThread

LEMMA WorkerIsSeen ==
  ASSUME FlowInv, NEW t \in Tangles, Worker(t)
  PROVE  CC!Next \/ UNCHANGED CC!compilationVars
<1>1. Progress = "running" /\ Progress' = "running"
  BY WorkerIsRunning
<1>2. TypeInv /\ ok \in [Tangles -> BOOLEAN] /\ node \in [Tangles -> NodeState]
  BY DEF FlowInv, TypeInv, TypeOK
<1>3. {"emitted"} \subseteq NodeState /\ {"done"} \subseteq NodeState
      /\ ToEmit \subseteq NodeState
  BY DEF NodeState, ToEmit
<1>0. /\ "loading" \in ToEmit /\ "compiling" \in ToEmit
      /\ "emitted" \notin ToEmit /\ "done" \notin ToEmit
  BY DEF ToEmit
<1> DEFINE Moved(state) ==
      /\ Those(NodeState)' = IF t \notin Bundles THEN Those(NodeState) \cup {t}
                             ELSE Those(NodeState) \ {t}
      /\ Those(ToEmit)' = IF state \in ToEmit /\ t \notin Bundles
                          THEN Those(ToEmit) \cup {t} ELSE Those(ToEmit) \ {t}
      /\ Those({"emitted"})' = IF state = "emitted" /\ t \notin Bundles
                               THEN Those({"emitted"}) \cup {t}
                               ELSE Those({"emitted"}) \ {t}
      /\ Those({"done"})' = IF state = "done" /\ t \notin Bundles
                            THEN Those({"done"}) \cup {t} ELSE Those({"done"}) \ {t}
<1>4. ASSUME NEW state \in NodeState, node' = [node EXCEPT ![t] = state]
      PROVE  Moved(state)
  <2>1. \A states \in SUBSET NodeState :
           Those(states)' = IF state \in states /\ t \notin Bundles
                            THEN Those(states) \cup {t} ELSE Those(states) \ {t}
    BY <1>1, <1>2, <1>4, ThoseStep
  <2>2. Those(NodeState)' = IF t \notin Bundles THEN Those(NodeState) \cup {t}
                            ELSE Those(NodeState) \ {t}
    BY <2>1, <1>4
  <2> QED
    BY <2>1, <2>2, <1>3
<1>5. t \notin Bundles => t \in Those(NodeState)
  BY <1>1, <1>2 DEF Those
<1>6. t \in Bundles => \A states : t \notin Those(states)
  BY DEF Those
<1> HIDE DEF Moved
<1>7. CASE RunNode(t) \/ LoadAsts(t)
  <2>1. /\ \/ node' = [node EXCEPT ![t] = "loading"] /\ node[t] = "idle"
           \/ node' = [node EXCEPT ![t] = "compiling"] /\ node[t] = "loading"
        /\ ok' = ok
    BY <1>7, InputsAreSenders DEF RunNode, LoadAsts, FlowInv, ConsumedOnce
  <2>2. t \notin Bundles => t \in Those(ToEmit)
    BY <2>1, <1>1 DEF Those, ToEmit
  <2>3. t \notin Those({"emitted"}) /\ t \notin Those({"done"})
    BY <2>1 DEF Those
  <2>4. Moved("loading") \/ Moved("compiling")
    BY <2>1, <1>4 DEF NodeState
  <2>5. /\ Those(NodeState)' = Those(NodeState) /\ Those(ToEmit)' = Those(ToEmit)
        /\ Those({"emitted"})' = Those({"emitted"})
        /\ Those({"done"})' = Those({"done"})
    <3>1. /\ Those(NodeState)' = IF t \notin Bundles
                                 THEN Those(NodeState) \cup {t}
                                 ELSE Those(NodeState) \ {t}
          /\ Those(ToEmit)' = IF t \notin Bundles
                              THEN Those(ToEmit) \cup {t} ELSE Those(ToEmit) \ {t}
          /\ Those({"emitted"})' = Those({"emitted"}) \ {t}
          /\ Those({"done"})' = Those({"done"}) \ {t}
      <4>1. CASE Moved("loading")
        BY <4>1, <1>0 DEF Moved
      <4>2. CASE Moved("compiling")
        BY <4>2, <1>0 DEF Moved
      <4> QED
        BY <2>4, <4>1, <4>2
    <3>2. Those(NodeState)' = Those(NodeState)
      BY <3>1, <1>5, <1>6
    <3>3. Those(ToEmit)' = Those(ToEmit)
      BY <3>1, <2>2, <1>6
    <3>4. Those({"emitted"})' = Those({"emitted"})
      BY <3>1, <2>3
    <3>5. Those({"done"})' = Those({"done"})
      BY <3>1, <2>3
    <3> QED
      BY <3>2, <3>3, <3>4, <3>5
  <2>6. MissedNow' = MissedNow
    BY <2>1, <2>5 DEF MissedNow
  <2> QED
    BY <1>1, <2>5, <2>6 DEF CC!compilationVars
<1>8. CASE EmitBc(t)
  <2>1. /\ node' = [node EXCEPT ![t] = "emitted"] /\ node[t] = "compiling"
        /\ ok' = ok /\ t \notin Bundles
    BY <1>8 DEF EmitBc, FlowInv, TypeInv, OnlySourcesCompile
  <2>2. t \in Those(ToEmit) /\ t \notin Those({"done"})
    BY <2>1, <1>1 DEF Those, ToEmit
  <2>3. Moved("emitted")
    BY <2>1, <1>4 DEF NodeState
  <2>4. /\ Those(NodeState)' = Those(NodeState) /\ Those(ToEmit)' = Those(ToEmit) \ {t}
        /\ Those({"emitted"})' = Those({"emitted"}) \cup {t}
        /\ Those({"done"})' = Those({"done"})
    <3>1. /\ Those(NodeState)' = Those(NodeState) \cup {t}
          /\ Those(ToEmit)' = Those(ToEmit) \ {t}
          /\ Those({"emitted"})' = Those({"emitted"}) \cup {t}
          /\ Those({"done"})' = Those({"done"}) \ {t}
      BY <2>1, <2>3, <1>0 DEF Moved
    <3>2. Those(NodeState)' = Those(NodeState)
      BY <3>1, <2>1, <1>5
    <3>3. Those({"done"})' = Those({"done"})
      BY <3>1, <2>2
    <3> QED
      BY <3>1, <3>2, <3>3
  <2>5. MissedNow' = MissedNow
    BY <2>1, <2>4 DEF MissedNow
  <2>6. CC!EmitBc(t)
    BY <1>1, <2>2, <2>4, <2>5 DEF CC!EmitBc
  <2> QED
    BY <2>6 DEF CC!Next
<1>9. ASSUME NEW success \in BOOLEAN, Finish(t, success)
      PROVE  /\ Moved("done")
             /\ ok' = [ok EXCEPT ![t] = success]
  BY <1>9, <1>4 DEF Finish, NodeState
<1>10. CASE RunEmptyCommand(t)
  <2>1. t \in Bundles /\ Moved("done") /\ ok' = [ok EXCEPT ![t] = TRUE]
    BY <1>9, <1>10 DEF RunEmptyCommand
  <2>2. /\ Those(NodeState)' = Those(NodeState) /\ Those(ToEmit)' = Those(ToEmit)
        /\ Those({"emitted"})' = Those({"emitted"})
        /\ Those({"done"})' = Those({"done"})
    <3>1. /\ Those(NodeState)' = Those(NodeState) \ {t}
          /\ Those(ToEmit)' = Those(ToEmit) \ {t}
          /\ Those({"emitted"})' = Those({"emitted"}) \ {t}
          /\ Those({"done"})' = Those({"done"}) \ {t}
      BY <2>1 DEF Moved
    <3>2. \A states : Those(states) \ {t} = Those(states)
      BY <2>1, <1>6
    <3> QED
      BY <3>1, <3>2
  <2>3. MissedNow' = MissedNow
    BY <2>1, <2>2, <1>2, <1>6 DEF MissedNow, Those
  <2> QED
    BY <1>1, <2>2, <2>3 DEF CC!compilationVars
<1>11. CASE CompileFails(t)
  <2>1. /\ node[t] \in {"loading", "compiling", "emitted"} /\ t \notin Bundles
        /\ Moved("done") /\ ok' = [ok EXCEPT ![t] = FALSE]
    BY <1>9, <1>11 DEF CompileFails
  <2>2. t \in Those(ToEmit) \cup Those({"emitted"}) /\ t \notin Those({"done"})
    BY <2>1, <1>1 DEF Those, ToEmit
  <2>3. /\ Those(NodeState)' = Those(NodeState) /\ Those(ToEmit)' = Those(ToEmit) \ {t}
        /\ Those({"emitted"})' = Those({"emitted"}) \ {t}
        /\ Those({"done"})' = Those({"done"}) \cup {t}
    <3>1. /\ Those(NodeState)' = Those(NodeState) \cup {t}
          /\ Those(ToEmit)' = Those(ToEmit) \ {t}
          /\ Those({"emitted"})' = Those({"emitted"}) \ {t}
          /\ Those({"done"})' = Those({"done"}) \cup {t}
      BY <2>1, <1>0 DEF Moved
    <3>2. Those(NodeState)' = Those(NodeState)
      BY <3>1, <2>1, <1>5
    <3> QED
      BY <3>1, <3>2
  <2>4. MissedNow' = MissedNow \cup {t}
    BY <2>1, <2>2, <2>3, <1>2 DEF MissedNow, Those
  <2>5. CC!Fail(t)
    BY <1>1, <2>2, <2>3, <2>4 DEF CC!Fail
  <2> QED
    BY <2>5 DEF CC!Next
<1>12. CASE EmitAst(t)
  <2>1. /\ node[t] = "emitted" /\ t \notin Bundles
        /\ Moved("done") /\ ok' = [ok EXCEPT ![t] = TRUE]
    BY <1>9, <1>12 DEF EmitAst, FlowInv, TypeInv, OnlySourcesCompile
  <2>2. /\ t \in Those({"emitted"}) /\ t \notin Those({"done"})
        /\ t \notin Those(ToEmit)
    BY <2>1, <1>1 DEF Those, ToEmit
  <2>3. /\ Those(NodeState)' = Those(NodeState) /\ Those(ToEmit)' = Those(ToEmit)
        /\ Those({"emitted"})' = Those({"emitted"}) \ {t}
        /\ Those({"done"})' = Those({"done"}) \cup {t}
    <3>1. /\ Those(NodeState)' = Those(NodeState) \cup {t}
          /\ Those(ToEmit)' = Those(ToEmit) \ {t}
          /\ Those({"emitted"})' = Those({"emitted"}) \ {t}
          /\ Those({"done"})' = Those({"done"}) \cup {t}
      BY <2>1, <1>0 DEF Moved
    <3>2. Those(NodeState)' = Those(NodeState)
      BY <3>1, <2>1, <1>5
    <3>3. Those(ToEmit)' = Those(ToEmit)
      BY <3>1, <2>2
    <3> QED
      BY <3>1, <3>2, <3>3
  <2>4. MissedNow' = MissedNow
    BY <2>1, <2>2, <2>3, <1>2 DEF MissedNow, Those
  <2>5. CC!EmitAst(t)
    BY <1>1, <2>2, <2>3, <2>4 DEF CC!EmitAst
  <2> QED
    BY <2>5 DEF CC!Next
<1> QED
  BY <1>7, <1>8, <1>10, <1>11, <1>12 DEF Worker

\* ts-make does what the driver takes it for: each tangle compiled once, code
\* before interface, and no return before all of them are over.
THEOREM DriverCanRely == Spec => CC!Spec
<1>1. Init => CC!Init
  BY DEF Init, CC!Init, CC!Nothing, Progress, Those, MissedNow
<1>2. FlowInv /\ [Next]_vars => [CC!Next]_(CC!compilationVars)
  <2> SUFFICES ASSUME FlowInv, [Next]_vars
               PROVE  CC!Next \/ UNCHANGED CC!compilationVars
    OBVIOUS
  <2>1. ASSUME NEW s \in Senders, NEW t \in Tangles, Put(s, t)
        PROVE  UNCHANGED CC!compilationVars
    BY <2>1, UnseenStep DEF Put, Progress
  <2>2. CASE UNCHANGED vars
    BY <2>2, UnseenStep DEF vars, flowVars, Progress
  <2> QED
    BY <2>1, <2>2, MainThreadIsSeen, WorkerIsSeen DEF Next
<1> QED
  BY <1>1, <1>2, FlowCorrect, PTL DEF Spec, CC!Spec
===============================================================================
