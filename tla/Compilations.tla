----------------------------- MODULE Compilations -----------------------------
(***************************************************************************)
(* What tsc takes ts-make for, and what ts-make does: the tangles are      *)
(* compiled in any order and at the same time, each once, its code before  *)
(* its interface; whichever compilations fail, the others go on, and       *)
(* ts-make does not return before all are over.  Driver.tla builds on it   *)
(* and Make.tla does it: both are shown to implement it.                   *)
(***************************************************************************)
CONSTANT Tangles

VARIABLES
  make,    \* "idle", "running", or "over" while its success counts
  all,     \* the tangles to compile
  left,    \* those that have still to write their code
  half,    \* those that have written it, and their interface not yet
  missed   \* those whose compilation has failed

Nothing == all = {} /\ left = {} /\ half = {} /\ missed = {}

Init == make = "idle" /\ Nothing

Start ==
  /\ make = "idle" /\ make' = "running"
  /\ all' \in SUBSET Tangles
  /\ left' = all' /\ half' = {} /\ missed' = {}

EmitBc(t) ==
  /\ make = "running" /\ t \in left
  /\ left' = left \ {t} /\ half' = half \cup {t}
  /\ UNCHANGED <<make, all, missed>>

EmitAst(t) ==
  /\ make = "running" /\ t \in half
  /\ half' = half \ {t}
  /\ UNCHANGED <<make, all, left, missed>>

Fail(t) ==
  /\ make = "running" /\ t \in left \cup half
  /\ left' = left \ {t} /\ half' = half \ {t} /\ missed' = missed \cup {t}
  /\ UNCHANGED <<make, all>>

Return ==
  /\ make = "running" /\ left = {} /\ half = {}
  /\ make' = "over"
  /\ UNCHANGED <<all, left, half, missed>>

\* The driver is killed and ts-make with it, or it has no more use for what
\* ts-make has left.
Forget == make # "idle" /\ make' = "idle" /\ Nothing'

Next ==
  \/ Start \/ Return \/ Forget
  \/ \E t \in Tangles : EmitBc(t) \/ EmitAst(t) \/ Fail(t)

compilationVars == <<make, all, left, half, missed>>
Spec == Init /\ [][Next]_compilationVars
===============================================================================
