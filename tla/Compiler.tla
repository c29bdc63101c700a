------------------------------- MODULE Compiler -------------------------------
(***************************************************************************)
(* ts-compile: one process that parses some sources, imports the .ast of   *)
(* others and takes the tangle of them through the stages of a mode.       *)
(* StageBuilder picks the stages, StageConductor runs them until one       *)
(* fails.  The stages share a parser context (the tangle and the active    *)
(* source) and a generator context (the LLVM module).                      *)
(*                                                                         *)
(* A tree is abstracted to its sources and, for each, the passes that have *)
(* worked on it.  Whether a file can be parsed, loaded or written, all     *)
(* names resolve and a pass meets a construct it asserts on is left open.    *)
(***************************************************************************)
EXTENDS Naturals, FiniteSets, Sequences

CONSTANTS
  Sources,  \* the .t files
  Asts,     \* the .ast files to load; each stands for the sources it holds
  Others,   \* inputs that are no .t file
  NoSource, \* active_source is null
  MaxModes, \* bound: modes on the command line
  MaxInputs \* bound: inputs on the command line

Options == {"help", "emit-llvm", "emit-ast", "no-llvm", "dump-llvm", "debug",
            "keep-going-on-resolution-fail", "enable-static-test",
            "skip-mangling"}
Passes  == {"compact", "restructure", "resolve", "convert", "mangle"}

\* (mutant of DefaultMode: the interface is written before the code)
InterfaceFirstMode ==
  <<"parse", "deserialize", "verify0", "compact", "restructure", "resolve",
    "convert", "verify1", "test", "mangle", "serialize", "generate", "describe",
    "bitcode">>

DefaultMode ==
  <<"parse", "deserialize", "verify0", "compact", "restructure", "resolve",
    "convert", "verify1", "test", "mangle", "generate", "describe", "bitcode",
    "serialize">>

\* The other modes, without the `mode-' of their names, and the stages of each.
StagesOf ==
  [parse                |-> <<"parse", "deserialize", "test">>,
   semantic_verify_0    |-> <<"parse", "deserialize", "verify0", "test">>,
   xform                |-> <<"parse", "deserialize", "compact", "restructure", "test">>,
   resolution           |-> <<"parse", "deserialize", "compact", "restructure",
                              "resolve", "test">>,
   mangling             |-> <<"parse", "deserialize", "compact", "restructure",
                              "resolve", "test", "mangle">>,
   semantic_verify_1    |-> <<"parse", "deserialize", "verify0", "compact",
                              "restructure", "resolve", "verify1", "test">>,
   resolution_test      |-> <<"parse", "deserialize", "verify0", "compact",
                              "restructure", "resolve", "test">>]
Modes == DOMAIN StagesOf

\* The options a stage declares in getOptions.
OptionsOf(stage) ==
  CASE stage = "resolve"   -> {"keep-going-on-resolution-fail"}
    [] stage = "test"      -> {"enable-static-test"}
    [] stage = "mangle"    -> {"skip-mangling"}
    [] stage = "generate"  -> {"no-llvm"}
    [] stage = "describe"  -> {"debug"}
    [] stage = "bitcode"   -> {"emit-llvm", "dump-llvm"}
    [] stage = "serialize" -> {"emit-ast"}
    [] OTHER               -> {}

VARIABLES
  (* the command line *)
  modes, options, inputs, asts,
  (* StageConductor *)
  pc, stages, at, exit,
  (* the parser context, and what has become of its tree *)
  tangle,        \* the sources in it, own and imported
  active_source,
  seen,          \* the sources each pass has worked on
  complete,      \* resolution left nothing unresolved
  (* the generator context *)
  modules,       \* NoContext, or what the LLVM module has code and
                 \* debugging information of
  (* outputs *)
  bc, ast

command == <<modes, options, inputs, asts>>
context == <<tangle, active_source, seen, complete, modules>>
outputs == <<bc, ast>>
vars    == <<command, pc, stages, at, exit, context, outputs>>

Source == [name : Sources \cup Asts, is_imported : BOOLEAN]
Names(tree)  == {s.name : s \in tree}
NoContext    == [set |-> FALSE, code |-> {}, info |-> {}]
Absent       == [written |-> FALSE, of |-> {}]
Written(set) == [written |-> TRUE, of |-> set]

-------------------------------------------------------------------------------
(* The conductor *)

Init ==
  /\ modes \in {m \in SUBSET Modes : Cardinality(m) <= MaxModes}
  /\ options \in SUBSET Options
  /\ inputs \in UNION {[1..n -> Sources \cup Others] : n \in 0..MaxInputs}
  /\ \A i, j \in DOMAIN inputs : inputs[i] = inputs[j] => i = j
  /\ asts \in SUBSET Asts
  /\ pc = "build" /\ stages = << >> /\ at = 1 /\ exit = "none"
  /\ tangle = {} /\ active_source = NoSource
  /\ seen = [pass \in Passes |-> {}] /\ complete = FALSE
  /\ modules = NoContext
  /\ bc = Absent /\ ast = Absent

Exit(how) ==
  /\ pc' = "done" /\ exit' = how
  /\ UNCHANGED <<command, stages, at>>

\* A stage returns false, and StageConductor::main with -1.
Fail == Exit("failed") /\ UNCHANGED <<context, outputs>>

\* A null pointer, an assertion or unimplemented code.
Crash == Exit("crashed") /\ UNCHANGED <<context, outputs>>

\* StageBuilder::main; with several modes the first has appended its stages
\* when the second is refused.
Build ==
  /\ pc = "build"
  /\ \/ /\ "help" \in options
        /\ Exit("ok")
     \/ /\ "help" \notin options /\ Cardinality(modes) > 1
        /\ Exit("failed")
     \/ /\ "help" \notin options /\ Cardinality(modes) <= 1
        /\ stages' = IF modes = {} THEN DefaultMode
                     ELSE StagesOf[CHOOSE m \in modes : TRUE]
        /\ pc' = "options"
        /\ UNCHANGED <<command, at, exit>>
  /\ UNCHANGED <<context, outputs>>

Known == UNION {OptionsOf(stages[i]) : i \in DOMAIN stages}

\* An option that no stage declares is an error of the command line; the
\* parser stage refuses to go without inputs.
ParseOptions ==
  /\ pc = "options"
  /\ \/ /\ ~(options \subseteq Known) \/ inputs = << >>
        /\ Exit("failed")
     \/ /\ options \subseteq Known /\ inputs # << >>
        /\ pc' = "execute"
        /\ UNCHANGED <<command, stages, at, exit>>
  /\ UNCHANGED <<context, outputs>>

Executes(stage) ==
  pc = "execute" /\ at <= Len(stages) /\ stages[at] = stage

\* The stage returns true; the conductor goes to the next.
Proceed == at' = at + 1 /\ UNCHANGED <<command, pc, stages, exit>>

Return ==
  /\ pc = "execute" /\ at > Len(stages)
  /\ Exit("ok")
  /\ UNCHANGED <<context, outputs>>

-------------------------------------------------------------------------------
(* The front end *)

Own == {inputs[i] : i \in DOMAIN inputs} \cap Sources

\* Every parsed source is made the active one: the last stays it.
Parse ==
  /\ Executes("parse")
  /\ \/ Own # {} /\ Fail      \* one of them cannot be read or parsed
     \/ /\ tangle' = [name : Own, is_imported : {FALSE}]
        /\ \/ Own = {} /\ active_source' = NoSource
           \/ \E i \in DOMAIN inputs :
                /\ inputs[i] \in Own
                /\ \A j \in DOMAIN inputs : inputs[j] \in Own => j <= i
                /\ active_source' = inputs[i]
        /\ Proceed
        /\ UNCHANGED <<seen, complete, modules, outputs>>

\* (mutant of Deserialize: without markImported)
DeserializeAsOwn ==
  /\ Executes("deserialize")
  /\ tangle' = tangle \cup [name : asts, is_imported : {FALSE}]
  /\ Proceed
  /\ UNCHANGED <<active_source, seen, complete, modules, outputs>>

\* markImported before the merge.
Deserialize ==
  /\ Executes("deserialize")
  /\ \/ asts # {} /\ Fail
     \/ /\ tangle' = tangle \cup [name : asts, is_imported : {TRUE}]
        /\ Proceed
        /\ UNCHANGED <<active_source, seen, complete, modules, outputs>>

\* SemanticVerificationStage0 and 1 log what they find and return true: the
\* stages that follow take no notice of the errors.
Verify(n) ==
  /\ Executes(IF n = 0 THEN "verify0" ELSE "verify1")
  /\ Proceed
  /\ UNCHANGED <<context, outputs>>

\* StaticTestVerificationStage
Test ==
  /\ Executes("test")
  /\ \/ /\ "enable-static-test" \in options \* an annotation does not match
        /\ Fail
     \/ Proceed /\ UNCHANGED <<context, outputs>>

-------------------------------------------------------------------------------
(* The transformations *)

\* A pass over a set of sources, which needs an active one.  Every visitor
\* asserts on nodes that it was not written for.
Pass(pass, scope) ==
  \/ active_source = NoSource /\ Fail
  \/ active_source # NoSource /\ Crash
  \/ /\ active_source # NoSource
     /\ seen' = [seen EXCEPT ![pass] = scope]
     /\ Proceed
     /\ UNCHANGED <<tangle, active_source, complete, modules, outputs>>

\* LiteralCompactionStage visits the active source only.
Compact == Executes("compact") /\ Pass("compact", {active_source})

Restructure == Executes("restructure") /\ Pass("restructure", Names(tangle))

\* (mutant of Resolve: returns true whatever is unresolved)
ResolveQuietly ==
  /\ Executes("resolve")
  /\ complete' \in BOOLEAN
  /\ seen' = [seen EXCEPT !["resolve"] = Names(tangle)]
  /\ Proceed
  /\ UNCHANGED <<tangle, active_source, modules, outputs>>

\* ResolutionStage (see Resolution.tla).  Without an active source nothing is
\* resolved; to keep going makes the stage return true all the same.
Resolve ==
  /\ Executes("resolve")
  /\ \/ active_source # NoSource /\ Crash
     \/ \E all \in IF active_source = NoSource THEN {FALSE} ELSE BOOLEAN :
          IF all \/ "keep-going-on-resolution-fail" \in options
          THEN /\ complete' = all
               /\ seen' = [seen EXCEPT !["resolve"] =
                     IF active_source = NoSource THEN {} ELSE Names(tangle)]
               /\ Proceed
               /\ UNCHANGED <<tangle, active_source, modules, outputs>>
          ELSE Fail

Convert == Executes("convert") /\ Pass("convert", Names(tangle))

Mangle ==
  /\ Executes("mangle")
  /\ \/ /\ "skip-mangling" \in options
        /\ Proceed /\ UNCHANGED <<context, outputs>>
     \/ "skip-mangling" \notin options /\ Pass("mangle", Names(tangle))

-------------------------------------------------------------------------------
(* The back end *)

\* LLVMGeneratorStage: a new context, and the code of the active source.  The
\* visitor asserts where it does not know what to generate, in a tree without
\* any error as well (break, continue, !, new, <<, a lambda: see Codegen.tla).
Generate ==
  /\ Executes("generate")
  /\ \/ /\ "no-llvm" \in options
        /\ Proceed /\ UNCHANGED <<context, outputs>>
     \/ /\ "no-llvm" \notin options
        /\ \/ Crash
           \/ /\ modules' = [set |-> TRUE, code |-> {active_source}, info |-> {}]
              /\ Proceed
              /\ UNCHANGED <<tangle, active_source, seen, complete,
                             outputs>>

\* LLVMDebugInfoGeneratorStage does not ask whether there is a context.
Describe ==
  /\ Executes("describe")
  /\ \/ /\ "debug" \notin options
        /\ Proceed /\ UNCHANGED <<context, outputs>>
     \/ "debug" \in options /\ ~modules.set /\ Crash
     \/ /\ "debug" \in options /\ modules.set
        /\ modules' = [set |-> TRUE, code |-> modules.code, info |-> {active_source}]
        /\ Proceed
        /\ UNCHANGED <<tangle, active_source, seen, complete, outputs>>

\* A module that LLVM's verifier rejects is reported, and written.
Bitcode ==
  /\ Executes("bitcode")
  /\ \/ /\ options \cap {"dump-llvm", "emit-llvm"} = {}
        /\ Proceed /\ UNCHANGED <<context, outputs>>
     \/ /\ options \cap {"dump-llvm", "emit-llvm"} # {} /\ ~modules.set
        /\ Fail
     \/ /\ "emit-llvm" \notin options /\ "dump-llvm" \in options /\ modules.set
        /\ Proceed /\ UNCHANGED <<context, outputs>>
     \/ /\ "emit-llvm" \in options /\ modules.set
        /\ \/ Fail            \* the file cannot be opened
           \/ /\ bc' = Written(modules.code)
              /\ Proceed
              /\ UNCHANGED <<tangle, active_source, seen, complete, modules, ast>>

\* Tangle::save leaves imported sources out.
Saved == {s.name : s \in {t \in tangle : ~t.is_imported}}

Serialize ==
  /\ Executes("serialize")
  /\ \/ /\ "emit-ast" \notin options
        /\ Proceed /\ UNCHANGED <<context, outputs>>
     \/ /\ "emit-ast" \in options
        /\ \/ Fail            \* the file cannot be opened
           \/ /\ ast' = Written(Saved)
              /\ Proceed
              /\ UNCHANGED <<context, bc>>

Next ==
  \/ Build \/ ParseOptions \/ Return
  \/ Parse \/ Deserialize
  \/ \E n \in {0, 1} : Verify(n)
  \/ Test
  \/ Compact \/ Restructure \/ Resolve \/ Convert \/ Mangle
  \/ Generate \/ Describe \/ Bitcode \/ Serialize

Spec == Init /\ [][Next]_vars

-------------------------------------------------------------------------------
(* Properties *)

\* An .ast holds the sources on the command line and no imported one (the
\* compilation that loads it would get them twice), and every pass over the
\* tangle that was not switched off has seen each of them.
AstIsComplete ==
  ast.written =>
    /\ ast.of = Own
    /\ \A pass \in {"restructure", "resolve", "convert"} : Own \subseteq seen[pass]
    /\ Own \subseteq seen["mangle"] \/ "skip-mangling" \in options

\* Code of a tree with unresolved names is written only by who asked to keep
\* going; and the names in it are mangled unless that was switched off.
CodeIsResolved ==
  bc.written =>
    /\ complete \/ "keep-going-on-resolution-fail" \in options
    /\ bc.of \subseteq seen["mangle"] \/ "skip-mangling" \in options

\* A compilation that fails or crashes, in whatever mode and at whatever stage,
\* leaves the interface of an earlier one as it was, which others may go on to
\* load; and new code only where it was the interface that could not be written.
FailureKeepsInterface ==
  exit \in {"failed", "crashed"} =>
    /\ ~ast.written
    /\ bc.written => stages[at] = "serialize"

Requested ==
  IF "help" \in options THEN {}
  ELSE {f \in {"bc", "ast"} : (IF f = "bc" THEN "emit-llvm" ELSE "emit-ast") \in options}

Produced == {f \in {"bc", "ast"} : (IF f = "bc" THEN bc ELSE ast).written}

Result == CASE exit = "none" -> "running" [] exit = "ok" -> "ok" [] OTHER -> "failed"

\* What ts-make and the driver see of it: code before interface, both or a
\* failure.
Abstract == INSTANCE Compilation WITH
  requested <- Requested, written <- Produced, result <- Result

ImplementsCompilation == Abstract!Spec

\* What the comment in LLVMGeneratorStage.cpp:89 says: the visitor walks
\* through the entire tree, so the code is that of every source compiled.
WholeTreeIsGenerated == bc.written => bc.of = Own
===============================================================================
