--------------------------- MODULE TopologicalBuild ---------------------------
(***************************************************************************)
(* What ts-make promises to the rest of the build, with nothing said about *)
(* how it schedules the work: every tangle of the dependency graph is      *)
(* compiled at most once, a compilation begins only when the compilations  *)
(* it depends on are over, and ts-make does not return success before all  *)
(* of them are.  Make.tla is shown to implement it.                        *)
(***************************************************************************)

CONSTANTS
  Tangles,  \* vertices of ts.dep: the groups of mutually importing files
  Graphs    \* the dependency graphs ts.dep may hold: t |-> direct dependencies

VARIABLES
  graph,    \* the dependency graph of this invocation
  started,  \* tangles whose compilation has begun
  finished, \* tangles whose compilation is over, with or without success
  complete  \* ts-make has returned success

absVars == <<graph, started, finished, complete>>

Init ==
  /\ graph \in Graphs
  /\ started = {}
  /\ finished = {}
  /\ complete = FALSE

Begin(t) ==
  /\ t \notin started
  /\ graph[t] \subseteq finished
  /\ started' = started \cup {t}
  /\ UNCHANGED <<graph, finished, complete>>

Finish(t) ==
  /\ t \in started \ finished
  /\ finished' = finished \cup {t}
  /\ UNCHANGED <<graph, started, complete>>

Return ==
  /\ ~complete
  /\ finished = Tangles
  /\ complete' = TRUE
  /\ UNCHANGED <<graph, started, finished>>

Next ==
  \/ \E t \in Tangles : Begin(t) \/ Finish(t)
  \/ Return

Spec == Init /\ [][Next]_absVars
===============================================================================
