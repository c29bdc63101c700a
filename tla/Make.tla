--------------------------------- MODULE Make ---------------------------------
(***************************************************************************)
(* ts-make: ThorScriptMakeStage.  The stage restores the tangle graph that *)
(* ts-dep left in ts.dep, builds a TBB flow graph with one node for each   *)
(* tangle, connects the nodes along the dependencies, puts one message     *)
(* into the broadcast node `start' and waits until no task is left.  A     *)
(* node whose input ports all hold a message runs its `ts-compile' command *)
(* in a child process; all the nodes that are ready run concurrently, and  *)
(* they meet in the build directory: a compilation loads the .ast files of *)
(* its direct dependencies and writes its own .bc and .ast.  The exit code *)
(* of the command is the message the node sends on, and nobody looks at it.*)
(***************************************************************************)

CONSTANTS
  Tangles,  \* vertices of the tangle graph
  Bundles,  \* the tangles that are the .ast of an imported bundle
  Graphs,   \* the tangle graphs ts.dep may hold: t |-> direct dependencies
  start     \* the broadcast node

\* No cycle: every set of tangles has a member that depends on no member.
Acyclic(g) ==
  \A T \in SUBSET Tangles : T # {} => \E t \in T : g[t] \cap T = {}

\* ts-dep writes the graph of strongly connected components, which has no
\* cycle, and never looks for the imports of a bundle's .ast.
ASSUME GraphAssumption ==
  /\ Bundles \subseteq Tangles
  /\ start \notin Tangles
  /\ Graphs \subseteq [Tangles -> SUBSET Tangles]
  /\ \A g \in Graphs : Acyclic(g) /\ \A b \in Bundles : g[b] = {}

VARIABLES
  phase,     \* where the main thread is in parseOptions/execute
  result,    \* what the stage returned
  graph,     \* tangleRestored
  inbox,     \* t |-> the senders whose message waits on an input port of t
  outbox,    \* s |-> the nodes the message of s has still to be put to
  node,      \* t |-> progress of the command of t
  ok,        \* t |-> the command of t has produced what it should
  ast,       \* t |-> the .ast of t in the build directory
  bc,        \* the tangles whose .bc in the build directory is of this build
  used       \* t |-> d |-> the .ast of d that the compilation of t loaded

flowVars   == <<inbox, outbox, node>>
fileVars   == <<ast, bc, used>>
vars       == <<phase, result, graph, flowVars, ok, fileVars>>

\* A file of the build directory: absent, left by an earlier build, or of this
\* one.
Version == {"none", "old", "new"}
NodeState == {"idle", "loading", "compiling", "emitted", "done"}

-------------------------------------------------------------------------------
(* The flow graph *)

\* Ports of a node: one for each dependency, or one for `start' if there is
\* none.  These are the nodes findFirstBuildTargets selects.
FirstBuildTargets == {t \in Tangles : graph[t] = {}}

Inputs(t) == IF t \in FirstBuildTargets THEN {start} ELSE graph[t]

Senders == Tangles \cup {start}

\* The nodes that the output port of t is connected to.
Successors(t) == {p \in Tangles : t \in graph[p]}

\* No node can run, is running or has a message to put.
Quiescent ==
  \A t \in Tangles :
    /\ inbox[t] # Inputs(t)
    /\ node[t] \in {"idle", "done"}
    /\ outbox[t] = {}

-------------------------------------------------------------------------------
(* The main thread *)

Init ==
  /\ phase = "options"
  /\ result = "none"
  /\ graph \in Graphs
  /\ inbox = [t \in Tangles |-> {}]
  /\ outbox = [s \in Senders |-> {}]
  /\ node = [t \in Tangles |-> "idle"]
  /\ ok = [t \in Tangles |-> FALSE]
  /\ ast \in [Tangles -> Version]
  /\ \A t \in Tangles : IF t \in Bundles THEN ast[t] = "new" ELSE ast[t] # "new"
  /\ bc = {}
  /\ used = [t \in Tangles |-> [d \in Tangles |-> "none"]]

ParseOptions ==
  /\ phase = "options"
  /\ phase' = "restore"
  /\ UNCHANGED <<result, graph, flowVars, ok, fileVars>>

\* --debug and --release together (parseOptions), or the project directory or
\* ts.dep is missing or cannot be read (execute).
GiveUp ==
  /\ phase \in {"options", "restore"}
  /\ phase' = "returned"
  /\ result' = "false"
  /\ UNCHANGED <<graph, flowVars, ok, fileVars>>

\* The graph is read, the nodes are made and connected, and start.try_put(1)
\* has its message to put to every node connected to `start'.
Wire ==
  /\ phase = "restore"
  /\ phase' = "putting"
  /\ outbox' = [outbox EXCEPT ![start] = FirstBuildTargets]
  /\ UNCHANGED <<result, graph, inbox, node, ok, fileVars>>

PutDone ==
  /\ phase = "putting"
  /\ outbox[start] = {}
  /\ phase' = "waiting"
  /\ UNCHANGED <<result, graph, flowVars, ok, fileVars>>

\* (mutant of WaitForAll: the call is missing)
ReturnAtOnce ==
  /\ phase = "waiting"
  /\ phase' = "returned"
  /\ result' = "true"
  /\ UNCHANGED <<graph, flowVars, ok, fileVars>>

\* (mutant of WaitForAll: waits for results that failed commands do not have)
WaitForResults ==
  /\ phase = "waiting"
  /\ Quiescent /\ \A t \in Tangles : ok[t]
  /\ phase' = "returned"
  /\ result' = "true"
  /\ UNCHANGED <<graph, flowVars, ok, fileVars>>

\* wait_for_all returns when there is no task left, whatever the nodes did.
WaitForAll ==
  /\ phase = "waiting"
  /\ Quiescent
  /\ phase' = "returned"
  /\ result' = "true"
  /\ UNCHANGED <<graph, flowVars, ok, fileVars>>

-------------------------------------------------------------------------------
(* The nodes and their commands *)

\* A message reaches one input port.  The nodes reached first may run before
\* the others have been reached.
Put(s, t) ==
  /\ t \in outbox[s]
  /\ outbox' = [outbox EXCEPT ![s] = @ \ {t}]
  /\ inbox' = [inbox EXCEPT ![t] = @ \cup {s}]
  /\ UNCHANGED <<phase, result, graph, node, ok, fileVars>>

\* (mutant of RunNode: every node is made with one input port)
RunNodeOnAnyMessage(t) ==
  /\ inbox[t] # {}
  /\ inbox' = [inbox EXCEPT ![t] = {}]
  /\ node' = [node EXCEPT ![t] = "loading"]
  /\ UNCHANGED <<phase, result, graph, outbox, ok, fileVars>>

\* The join takes one message from every port and the function runs.
RunNode(t) ==
  /\ inbox[t] = Inputs(t)
  /\ inbox' = [inbox EXCEPT ![t] = {}]
  /\ node' = [node EXCEPT ![t] = "loading"]
  /\ UNCHANGED <<phase, result, graph, outbox, ok, fileVars>>

\* The command is over: its exit code goes to every successor, whatever it is.
Finish(t, success) ==
  /\ node' = [node EXCEPT ![t] = "done"]
  /\ outbox' = [outbox EXCEPT ![t] = Successors(t)]
  /\ ok' = [ok EXCEPT ![t] = success]
  /\ UNCHANGED <<phase, result, graph, inbox>>

\* genCompileCmd gives the empty command to a tangle of .ast files.
RunEmptyCommand(t) ==
  /\ node[t] = "loading"
  /\ t \in Bundles
  /\ Finish(t, TRUE)
  /\ UNCHANGED fileVars

\* (mutant of LoadAsts: the bundle's .ast gets a command too)
LoadAstsOfAnyTangle(t) ==
  /\ node[t] = "loading"
  /\ used' = [used EXCEPT ![t] =
                [d \in Tangles |-> IF d \in graph[t] THEN ast[d] ELSE "none"]]
  /\ node' = [node EXCEPT ![t] = "compiling"]
  /\ UNCHANGED <<phase, result, graph, inbox, outbox, ok, ast, bc>>

\* ts-compile deserialises the .ast of every direct dependency.
LoadAsts(t) ==
  /\ node[t] = "loading"
  /\ t \notin Bundles
  /\ \A d \in graph[t] : ast[d] # "none"
  /\ used' = [used EXCEPT ![t] =
                [d \in Tangles |-> IF d \in graph[t] THEN ast[d] ELSE "none"]]
  /\ node' = [node EXCEPT ![t] = "compiling"]
  /\ UNCHANGED <<phase, result, graph, inbox, outbox, ok, ast, bc>>

\* A source does not parse, an .ast is missing, a name is not resolved, an
\* output file cannot be written: a stage of ts-compile returns false.  What
\* the stages before it have written stays.
CompileFails(t) ==
  /\ node[t] \in {"loading", "compiling", "emitted"}
  /\ t \notin Bundles
  /\ Finish(t, FALSE)
  /\ UNCHANGED fileVars

\* LLVMBitCodeGeneratorStage writes the .bc first ...
EmitBc(t) ==
  /\ node[t] = "compiling"
  /\ bc' = bc \cup {t}
  /\ node' = [node EXCEPT ![t] = "emitted"]
  /\ UNCHANGED <<phase, result, graph, inbox, outbox, ok, ast, used>>

\* (mutant of EmitAst: the stages in the other order, a failed .bc unnoticed)
EmitAstFirst(t) ==
  /\ node[t] \in {"compiling", "emitted"}
  /\ ast' = [ast EXCEPT ![t] = "new"]
  /\ Finish(t, TRUE)
  /\ UNCHANGED <<bc, used>>

\* ... and ASTSerializationStage, the last stage, writes the .ast.
EmitAst(t) ==
  /\ node[t] = "emitted"
  /\ ast' = [ast EXCEPT ![t] = "new"]
  /\ Finish(t, TRUE)
  /\ UNCHANGED <<bc, used>>

-------------------------------------------------------------------------------

MainThread == ParseOptions \/ GiveUp \/ Wire \/ PutDone \/ WaitForAll

Worker(t) ==
  \/ RunNode(t) \/ RunEmptyCommand(t) \/ LoadAsts(t)
  \/ CompileFails(t) \/ EmitBc(t) \/ EmitAst(t)

Next ==
  \/ MainThread
  \/ \E t \in Tangles : Worker(t)
  \/ \E s \in Senders, t \in Tangles : Put(s, t)

\* The main thread runs on, TBB schedules every task it has spawned, and a
\* command ends, one way or the other.
Fairness ==
  /\ WF_vars(MainThread)
  /\ \A t \in Tangles : WF_vars(Worker(t))
  /\ \A s \in Senders, t \in Tangles : WF_vars(Put(s, t))

Spec == Init /\ [][Next]_vars /\ Fairness

-------------------------------------------------------------------------------
(* Properties *)

TypeOK ==
  /\ phase \in {"options", "restore", "putting", "waiting", "returned"}
  /\ result \in {"none", "false", "true"}
  /\ graph \in Graphs
  /\ inbox \in [Tangles -> SUBSET Senders]
  /\ outbox \in [Senders -> SUBSET Tangles]
  /\ node \in [Tangles -> NodeState]
  /\ ok \in [Tangles -> BOOLEAN]
  /\ ast \in [Tangles -> Version]
  /\ bc \subseteq Tangles \ Bundles
  /\ used \in [Tangles -> [Tangles -> Version]]

\* A compilation never runs while the .ast it loads may still be written: from
\* the moment its node runs, the commands of all its dependencies are over.
\* (The ports of the nodes and the edges made in execute say so only
\* indirectly: by counting messages.)
DependenciesSettled ==
  \A t \in Tangles : node[t] # "idle" =>
    \A d \in graph[t] : node[d] = "done"

\* wait_for_all says that nothing is running, not that everything has run.
\* When the stage returns true, every tangle has been compiled.
ReturnedComplete ==
  result = "true" => \A t \in Tangles : node[t] = "done"

\* A compilation that loaded the .ast of an earlier build did so because the
\* compilation of that dependency has failed in this one.
OldAstBlamesDependency ==
  \A t, d \in Tangles :
    used[t][d] = "old" => node[d] = "done" /\ ~ok[d]

\* When every command has succeeded the build directory holds this build's
\* output for every tangle, compiled against this build's .ast files only.
CleanBuildIsConsistent ==
  (result = "true" /\ \A t \in Tangles : ok[t]) =>
    \A t \in Tangles :
      /\ ast[t] = "new"
      /\ t \notin Bundles => t \in bc
      /\ \A d \in graph[t] : used[t][d] = "new"

\* No two commands race on a file: an .ast does not change once a compilation
\* has loaded it.
LoadedAstIsStable ==
  [][\A t, d \in Tangles : used[t][d] # "none" => ast'[d] = ast[d]]_vars

\* Every command runs at most once, and what it left stays.
CompiledOnce ==
  [][\A t \in Tangles :
       node[t] # "idle" => node'[t] \notin {"idle", "loading"} \/ UNCHANGED node[t]]_vars

\* ts-make always comes to an end, also when commands fail.
Terminates == <>(phase = "returned")

\* ts-make implements the topological build of TopologicalBuild.tla.
TB == INSTANCE TopologicalBuild WITH
        started  <- {t \in Tangles : node[t] # "idle"},
        finished <- {t \in Tangles : node[t] = "done"},
        complete <- result = "true"
ImplementsTopologicalBuild == TB!Spec
===============================================================================
