------------------------------ MODULE Compilation ------------------------------
(***************************************************************************)
(* What ts-make and the driver may rely on in one run of ts-compile: the   *)
(* code is written before the interface, an exit code of 0 means that      *)
(* every file asked for was written, and nothing is written afterwards.    *)
(***************************************************************************)
VARIABLES
  requested, \* files asked for on the command line
  written,   \* files written so far
  result     \* "running", or how it ended

Files == {"bc", "ast"}

Init ==
  /\ requested \in SUBSET Files
  /\ written = {}
  /\ result = "running"

Write(file) ==
  /\ result = "running"
  /\ file \in requested \ written
  /\ file = "bc" => "ast" \notin written
  /\ file = "ast" /\ "bc" \in requested => "bc" \in written
  /\ written' = written \cup {file}
  /\ UNCHANGED <<requested, result>>

End(how) ==
  /\ result = "running"
  /\ how = "ok" => written = requested
  /\ result' = how
  /\ UNCHANGED <<requested, written>>

Next ==
  \/ \E file \in Files : Write(file)
  \/ \E how \in {"ok", "failed"} : End(how)

Spec == Init /\ [][Next]_<<requested, written, result>>
===============================================================================
