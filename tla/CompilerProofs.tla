---------------------------- MODULE CompilerProofs ----------------------------
(***************************************************************************)
(* Proofs about Compiler, for any sources, imported .ast files and inputs. *)
(*                                                                         *)
(* The stages of a mode share two contexts and no stage asks which others  *)
(* have run: what it finds there depends on its place in the mode.  The    *)
(* inductive invariant follows the default mode stage by stage (AfterFront *)
(* and AfterBack: what holds once `at' is past a stage), and says of every *)
(* other mode that it has no stage that writes (ShortModes).               *)
(***************************************************************************)
EXTENDS Compiler, TLAPS

Stages == {"parse", "deserialize", "verify0", "compact", "restructure", "resolve",
           "convert", "verify1", "test", "mangle", "generate", "describe", "bitcode",
           "serialize"}

TypeInv ==
  /\ modes \subseteq Modes /\ options \subseteq Options
  /\ Own \subseteq Sources /\ asts \subseteq Asts
  /\ pc \in {"build", "options", "execute", "done"}
  /\ stages \in Seq(Stages) /\ at \in Nat \ {0}
  /\ exit \in {"none", "ok", "failed", "crashed"}
  /\ tangle \subseteq Source
  /\ active_source \in Own \cup {NoSource}
  /\ seen \in [Passes -> SUBSET (Sources \cup Asts)]
  /\ complete \in BOOLEAN
  /\ modules.set \in BOOLEAN
  /\ bc.written \in BOOLEAN /\ ast.written \in BOOLEAN

\* The stages that only the default mode has.
BackEnd == {"convert", "generate", "describe", "bitcode", "serialize"}

\* The conductor: nothing happens before the command line is read, and it is
\* in agreement with the stages then.
ConductorInv ==
  /\ exit = "none" <=> pc # "done"
  /\ pc \in {"build", "options"} => at = 1
  /\ pc = "build" => stages = << >>
  /\ pc \in {"options", "execute"} => "help" \notin options
  /\ pc = "execute" => options \subseteq Known
  /\ stages # DefaultMode => \A i \in DOMAIN stages : stages[i] \notin BackEnd
  /\ stages = DefaultMode /\ pc = "execute" => at <= 15
  /\ stages = DefaultMode /\ exit \in {"failed", "crashed"} => at <= 14

\* A mode without a back end writes nothing.
ShortModes ==
  stages # DefaultMode => ~bc.written /\ ~ast.written /\ ~modules.set

\* The default mode: once `at' is past a stage, what that stage leaves behind.
AfterFront ==
  stages = DefaultMode =>
    /\ at > 1 => Saved = Own
    /\ at > 4 => active_source # NoSource
    /\ at > 5 => Own \subseteq seen["restructure"]
    /\ at > 6 => /\ Own \subseteq seen["resolve"]
                 /\ complete \/ "keep-going-on-resolution-fail" \in options
    /\ at > 7 => Own \subseteq seen["convert"]
    /\ at > 10 => Own \subseteq seen["mangle"] \/ "skip-mangling" \in options

AfterBack ==
  stages = DefaultMode =>
    /\ modules.set => at > 11 /\ modules.code = {active_source}
    /\ at > 11 => modules.set \/ "no-llvm" \in options
    /\ bc.written => at > 13 /\ bc.of = {active_source} /\ "emit-llvm" \in options
    /\ at > 13 => bc.written \/ "emit-llvm" \notin options
    /\ ast.written => at > 14 /\ ast.of = Own /\ "emit-ast" \in options
    /\ at > 14 => ast.written \/ "emit-ast" \notin options

IInv ==
  /\ TypeInv
  /\ ConductorInv
  /\ ShortModes
  /\ AfterFront
  /\ AfterBack

-------------------------------------------------------------------------------
(* Stages *)

FrontStage == \/ Parse \/ Deserialize \/ Verify(0) \/ Verify(1) \/ Test
              \/ Compact \/ Restructure \/ Resolve \/ Convert \/ Mangle
BackStage  == Generate \/ Describe \/ Bitcode \/ Serialize

LEMMA NextCases ==
  Next <=> Build \/ ParseOptions \/ Return \/ FrontStage \/ BackStage
BY DEF Next, FrontStage, BackStage

\* What a step may do to the conductor.
Control ==
  \/ Proceed
  \/ \E how \in {"failed", "crashed"} : Exit(how) /\ UNCHANGED <<context, outputs>>

\* A stage has its turn, and returns, fails or crashes.
LEMMA StageControl ==
  ASSUME FrontStage \/ BackStage
  PROVE  pc = "execute" /\ at <= Len(stages) /\ Control
<1> USE DEF Executes, Control, Fail, Crash
<1>1. CASE Parse \/ Deserialize \/ Verify(0) \/ Verify(1) \/ Test
  BY <1>1 DEF Parse, Deserialize, Verify, Test
<1>2. CASE Compact \/ Restructure \/ Resolve
  BY <1>2 DEF Compact, Restructure, Resolve, Pass
<1>3. CASE Convert \/ Mangle
  BY <1>3 DEF Convert, Mangle, Pass
<1>4. CASE Generate \/ Describe
  BY <1>4 DEF Generate, Describe
<1>5. CASE Bitcode \/ Serialize
  BY <1>5 DEF Bitcode, Serialize
<1> QED
  BY <1>1, <1>2, <1>3, <1>4, <1>5 DEF FrontStage, BackStage

\* A step of a stage leaves the command line and the list of stages alone.
LEMMA ControlKeeps ==
  ASSUME Control
  PROVE  /\ UNCHANGED <<modes, options, inputs, asts, stages>>
         /\ Own' = Own /\ Known' = Known
BY DEF Control, Proceed, Exit, command, Own, Known

\* In the default mode every stage has its place.
LEMMA Places ==
  ASSUME stages = DefaultMode, at \in Nat \ {0}
  PROVE  /\ Len(stages) = 14
         /\ Executes("parse") => at = 1
         /\ Executes("deserialize") => at = 2
         /\ Executes("verify0") => at = 3
         /\ Executes("compact") => at = 4
         /\ Executes("restructure") => at = 5
         /\ Executes("resolve") => at = 6
         /\ Executes("convert") => at = 7
         /\ Executes("verify1") => at = 8
         /\ Executes("test") => at = 9
         /\ Executes("mangle") => at = 10
         /\ Executes("generate") => at = 11
         /\ Executes("describe") => at = 12
         /\ Executes("bitcode") => at = 13
         /\ Executes("serialize") => at = 14
BY DEF Executes, DefaultMode

LEMMA ActionPlaces ==
  ASSUME stages = DefaultMode, at \in Nat \ {0}
  PROVE  /\ Parse => at = 1
         /\ Deserialize => at = 2
         /\ Verify(0) => at = 3
         /\ Compact => at = 4
         /\ Restructure => at = 5
         /\ Resolve => at = 6
         /\ Convert => at = 7
         /\ Verify(1) => at = 8
         /\ Test => at = 9
         /\ Mangle => at = 10
         /\ Generate => at = 11
         /\ Describe => at = 12
         /\ Bitcode => at = 13
         /\ Serialize => at = 14
<1>1. /\ Parse => Executes("parse")
      /\ Deserialize => Executes("deserialize")
      /\ Test => Executes("test")
      /\ Compact => Executes("compact")
      /\ Restructure => Executes("restructure")
      /\ Resolve => Executes("resolve")
  BY Zenon DEF Parse, Deserialize, Test, Compact, Restructure, Resolve
<1>2. /\ Verify(0) => Executes("verify0")
      /\ Verify(1) => Executes("verify1")
  BY DEF Verify, Executes
<1>3. /\ Convert => Executes("convert")
      /\ Mangle => Executes("mangle")
      /\ Generate => Executes("generate")
      /\ Describe => Executes("describe")
      /\ Bitcode => Executes("bitcode")
      /\ Serialize => Executes("serialize")
  BY Zenon DEF Convert, Mangle, Generate, Describe, Bitcode, Serialize
<1> QED
  BY <1>1, <1>2, <1>3, Places

\* A stage that has returned has neither failed nor crashed.
LEMMA ProceedIsNoExit ==
  ASSUME TypeInv, Proceed
  PROVE  /\ ~Fail /\ ~Crash /\ at' = at + 1 /\ at \in Nat
         /\ UNCHANGED <<modes, options, inputs, asts, stages>>
BY DEF TypeInv, Proceed, Fail, Crash, Exit, command

\* No other mode has a back end.
LEMMA ShortStages ==
  ASSUME NEW m \in Modes
  PROVE  /\ StagesOf[m] \in Seq(Stages) /\ StagesOf[m] # DefaultMode
         /\ \A i \in DOMAIN StagesOf[m] : StagesOf[m][i] \notin BackEnd
<1>1. CASE StagesOf[m] = <<"parse", "deserialize", "test">>
  BY <1>1 DEF DefaultMode, BackEnd, Stages
<1>2. CASE StagesOf[m] = <<"parse", "deserialize", "verify0", "test">>
  BY <1>2 DEF DefaultMode, BackEnd, Stages
<1>3. CASE StagesOf[m] = <<"parse", "deserialize", "compact", "restructure", "test">>
  BY <1>3 DEF DefaultMode, BackEnd, Stages
<1>4. CASE StagesOf[m] = <<"parse", "deserialize", "compact", "restructure", "resolve",
                           "test">>
  BY <1>4 DEF DefaultMode, BackEnd, Stages
<1>5. CASE StagesOf[m] = <<"parse", "deserialize", "compact", "restructure", "resolve",
                           "test", "mangle">>
  BY <1>5 DEF DefaultMode, BackEnd, Stages
<1>6. CASE StagesOf[m] = <<"parse", "deserialize", "verify0", "compact", "restructure",
                           "resolve", "verify1", "test">>
  BY <1>6 DEF DefaultMode, BackEnd, Stages
<1>7. CASE StagesOf[m] = <<"parse", "deserialize", "verify0", "compact", "restructure",
                           "resolve", "test">>
  BY <1>7 DEF DefaultMode, BackEnd, Stages
<1> QED
  BY <1>1, <1>2, <1>3, <1>4, <1>5, <1>6, <1>7 DEF Modes, StagesOf

LEMMA ShortExecutes ==
  ASSUME TypeInv, ConductorInv, stages # DefaultMode, NEW s \in BackEnd
  PROVE  ~Executes(s)
BY DEF TypeInv, ConductorInv, Executes

-------------------------------------------------------------------------------
(* Types *)

LEMMA InitTypeInv == Init => TypeInv
<1> SUFFICES ASSUME Init PROVE TypeInv
  OBVIOUS
<1>1. Own \subseteq Sources
  BY DEF Own
<1>2. seen \in [Passes -> SUBSET (Sources \cup Asts)]
  BY DEF Init
<1>3. modules.set \in BOOLEAN
  BY DEF Init, NoContext
<1>4. bc.written \in BOOLEAN /\ ast.written \in BOOLEAN
  BY DEF Init, Absent
<1>5. stages \in Seq(Stages) /\ at \in Nat \ {0}
  BY DEF Init
<1>6. modes \subseteq Modes /\ options \subseteq Options /\ asts \subseteq Asts
  BY DEF Init
<1>7. tangle \subseteq Source /\ active_source \in Own \cup {NoSource}
  BY DEF Init
<1>8. complete \in BOOLEAN /\ pc = "build" /\ exit = "none"
  BY DEF Init
<1> QED
  BY <1>1, <1>2, <1>3, <1>4, <1>5, <1>6, <1>7, <1>8 DEF TypeInv

LEMMA MainTypeInv ==
  ASSUME TypeInv, Build \/ ParseOptions \/ Return
  PROVE  TypeInv'
<1> USE DEF TypeInv, command, context, outputs, Exit, Own
<1>1. CASE Build
  <2>1. DefaultMode \in Seq(Stages)
    BY DEF DefaultMode, Stages
  <2>2. modes # {} => (CHOOSE m \in modes : TRUE) \in Modes
    OBVIOUS
  <2>3. stages' \in Seq(Stages)
    BY <1>1, <2>1, <2>2, ShortStages DEF Build
  <2> QED
    BY <1>1, <2>3 DEF Build
<1>2. CASE ParseOptions
  BY <1>2 DEF ParseOptions
<1>3. CASE Return
  BY <1>3 DEF Return
<1> QED
  BY <1>1, <1>2, <1>3

\* The conductor's part of TypeInv.
LEMMA ControlTypeInv ==
  ASSUME TypeInv, pc = "execute", Control
  PROVE  /\ modes' \subseteq Modes /\ options' \subseteq Options
         /\ Own' \subseteq Sources /\ asts' \subseteq Asts
         /\ pc' \in {"build", "options", "execute", "done"}
         /\ stages' \in Seq(Stages) /\ at' \in Nat \ {0}
         /\ exit' \in {"none", "ok", "failed", "crashed"}
BY ControlKeeps DEF TypeInv, Control, Proceed, Exit

LEMMA NamesType == ASSUME TypeInv PROVE Names(tangle) \subseteq Sources \cup Asts
BY DEF TypeInv, Names, Source

LEMMA FrontTypeInv ==
  ASSUME TypeInv, FrontStage
  PROVE  TypeInv'
<1>1. /\ pc = "execute" /\ Control
      /\ Own' = Own
  BY StageControl, ControlKeeps
<1> USE <1>1, ControlTypeInv, NamesType DEF TypeInv, context, outputs, Fail, Crash, Exit
<1>2. CASE UNCHANGED <<context, outputs>>
  BY <1>2
<1>3. CASE Parse
  <2>1. [name : Own, is_imported : {FALSE}] \subseteq Source
    BY DEF Source
  <2> QED
    BY <1>3, <2>1 DEF Parse
<1>4. CASE Deserialize
  <2>1. [name : asts, is_imported : {TRUE}] \subseteq Source
    BY DEF Source
  <2> QED
    BY <1>4, <2>1 DEF Deserialize
<1>5. CASE Verify(0) \/ Verify(1)
  BY <1>5 DEF Verify
<1>6. CASE Test
  BY <1>6 DEF Test
<1>7. CASE Compact
  BY <1>7 DEF Compact, Pass
<1>8. CASE Restructure
  BY <1>8 DEF Restructure, Pass
<1>9. CASE Resolve
  BY <1>9 DEF Resolve
<1>10. CASE Convert
  BY <1>10 DEF Convert, Pass
<1>11. CASE Mangle
  BY <1>11 DEF Mangle, Pass
<1> QED
  BY <1>3, <1>4, <1>5, <1>6, <1>7, <1>8, <1>9, <1>10, <1>11 DEF FrontStage

LEMMA WrittenType == ASSUME NEW of PROVE Written(of).written = TRUE /\ Written(of).of = of
BY DEF Written

LEMMA BackTypeInv ==
  ASSUME TypeInv, BackStage
  PROVE  TypeInv'
<1>1. /\ pc = "execute" /\ Control
      /\ Own' = Own
  BY StageControl, ControlKeeps
<1>2. UNCHANGED <<tangle, active_source, seen, complete>>
  BY <1>1 DEF BackStage, Generate, Describe, Bitcode, Serialize, Fail, Crash, context
<1>3. \/ UNCHANGED modules
      \/ modules'.set = TRUE
  BY DEF BackStage, Generate, Describe, Bitcode, Serialize, Fail, Crash, context
<1>4. bc' = bc \/ \E code : bc' = Written(code)
  BY DEF BackStage, Generate, Describe, Bitcode, Serialize, Fail, Crash, outputs
<1>5. ast' = ast \/ \E of : ast' = Written(of)
  BY DEF BackStage, Generate, Describe, Bitcode, Serialize, Fail, Crash, outputs
<1>6. modules'.set \in BOOLEAN
  BY <1>3 DEF TypeInv
<1>7. bc'.written \in BOOLEAN
  BY <1>4, WrittenType DEF TypeInv
<1>8. ast'.written \in BOOLEAN
  BY <1>5, WrittenType DEF TypeInv
<1> QED
  BY <1>1, <1>2, <1>6, <1>7, <1>8, ControlTypeInv DEF TypeInv

LEMMA NextTypeInv == TypeInv /\ [Next]_vars => TypeInv'
<1> SUFFICES ASSUME TypeInv, [Next]_vars PROVE TypeInv'
  OBVIOUS
<1>1. CASE UNCHANGED vars
  BY <1>1 DEF TypeInv, vars, command, context, outputs, Own
<1> QED
  BY <1>1, NextCases, MainTypeInv, FrontTypeInv, BackTypeInv

-------------------------------------------------------------------------------
(* The conductor *)

LEMMA InitConductorInv == Init => ConductorInv
BY DEF Init, ConductorInv, DefaultMode

LEMMA DefaultLength == Len(DefaultMode) = 14 /\ DefaultMode # << >>
BY DEF DefaultMode

LEMMA NextConductorInv == TypeInv /\ ConductorInv /\ [Next]_vars => ConductorInv'
<1> SUFFICES ASSUME TypeInv, ConductorInv, [Next]_vars PROVE ConductorInv'
  OBVIOUS
<1> USE DEF ConductorInv
<1>1. CASE UNCHANGED vars
  BY <1>1 DEF vars, command, Known
<1>2. CASE Build
  <2>1. CASE \E how \in {"ok", "failed"} : Exit(how)
    BY <1>2, <2>1, DefaultLength DEF Exit, command, Build
  <2>2. CASE /\ "help" \notin options /\ UNCHANGED <<command, at, exit>>
             /\ stages' = IF modes = {} THEN DefaultMode
                          ELSE StagesOf[CHOOSE m \in modes : TRUE]
             /\ pc' = "options"
    <3>1. modes # {} => (CHOOSE m \in modes : TRUE) \in Modes
      BY DEF TypeInv
    <3>2. stages' # DefaultMode => \A i \in DOMAIN stages' : stages'[i] \notin BackEnd
      BY <2>2, <3>1, ShortStages
    <3> QED
      BY <1>2, <2>2, <3>2 DEF command, Build
  <2> QED
    BY <1>2, <2>1, <2>2 DEF Build
<1>3. CASE ParseOptions
  BY <1>3, DefaultLength DEF ParseOptions, Exit, command, Known
<1>4. CASE Return
  BY <1>4 DEF Return, Exit, command, Known
<1>5. CASE FrontStage \/ BackStage
  <2>1. pc = "execute" /\ at <= Len(stages) /\ Control
    BY <1>5, StageControl
  <2>2. stages = DefaultMode => at <= 14
    BY <2>1, DefaultLength
  <2> QED
    BY <2>1, <2>2, ControlKeeps DEF Control, Proceed, Exit, TypeInv
<1> QED
  BY <1>1, <1>2, <1>3, <1>4, <1>5, NextCases

-------------------------------------------------------------------------------
(* What is written, and from what *)

LEMMA InitWritten ==
  ASSUME Init
  PROVE  ~bc.written /\ ~ast.written /\ ~modules.set
BY DEF Init, Absent, NoContext

\* The main thread of the conductor touches neither contexts nor outputs.
LEMMA MainKeeps ==
  ASSUME Build \/ ParseOptions \/ Return
  PROVE  UNCHANGED <<context, outputs>>
BY DEF Build, ParseOptions, Return

\* Stages before the back end write nothing.
LEMMA FrontKeeps ==
  ASSUME FrontStage
  PROVE  UNCHANGED <<modules, outputs>>
<1> USE DEF Fail, Crash, context
<1>1. CASE Parse \/ Deserialize \/ Verify(0) \/ Verify(1) \/ Test
  BY <1>1 DEF Parse, Deserialize, Verify, Test
<1>2. CASE Compact \/ Restructure \/ Resolve
  BY <1>2 DEF Compact, Restructure, Resolve, Pass
<1>3. CASE Convert \/ Mangle
  BY <1>3 DEF Convert, Mangle, Pass
<1> QED
  BY <1>1, <1>2, <1>3 DEF FrontStage

\* And the back end leaves the tree alone.
LEMMA BackKeeps ==
  ASSUME BackStage
  PROVE  UNCHANGED <<tangle, active_source, seen, complete>>
BY DEF BackStage, Generate, Describe, Bitcode, Serialize, Fail, Crash, context

LEMMA NextShortModes ==
  TypeInv /\ ConductorInv /\ ShortModes /\ [Next]_vars => ShortModes'
<1> SUFFICES ASSUME TypeInv, ConductorInv, ShortModes, [Next]_vars PROVE ShortModes'
  OBVIOUS
<1> USE DEF ShortModes, outputs
<1>1. CASE UNCHANGED vars
  BY <1>1 DEF vars, context
<1>2. CASE Build
  BY <1>2, DefaultLength DEF Build, context, ConductorInv
<1>3. CASE ParseOptions \/ Return
  BY <1>3, MainKeeps DEF ParseOptions, Return, Exit, context
<1>4. CASE FrontStage
  BY <1>4, FrontKeeps, StageControl, ControlKeeps
<1>5. CASE BackStage
  <2>1. stages = DefaultMode
    BY <1>5, ShortExecutes DEF BackStage, Generate, Describe, Bitcode, Serialize, BackEnd
  <2> QED
    BY <1>5, <2>1, StageControl, ControlKeeps
<1> QED
  BY <1>1, <1>2, <1>3, <1>4, <1>5, NextCases

\* Once stages are chosen the conductor does not change them.
LEMMA MainStages ==
  ASSUME ConductorInv, Build \/ ParseOptions \/ Return
  PROVE  /\ UNCHANGED <<options, at>> /\ Own' = Own
         /\ stages' = stages \/ at = 1
BY DEF ConductorInv, Build, ParseOptions, Return, Exit, command, Own

LEMMA InitAfter == Init => ShortModes /\ AfterFront /\ AfterBack
<1> SUFFICES ASSUME Init PROVE ShortModes /\ AfterFront /\ AfterBack
  OBVIOUS
<1>1. at = 1 /\ stages = << >>
  BY DEF Init
<1> QED
  BY <1>1, InitWritten, DefaultLength DEF ShortModes, AfterFront, AfterBack

\* What is saved of a tree: the sources that are not imported.
LEMMA SavedOfParsed ==
  ASSUME tangle' = [name : Own, is_imported : {FALSE}]
  PROVE  Saved' = Own
<1>1. ASSUME NEW n \in Own PROVE n \in Saved'
  <2> DEFINE t == [name |-> n, is_imported |-> FALSE]
  <2>1. t \in tangle' /\ t.name = n /\ ~t.is_imported
    OBVIOUS
  <2> QED
    BY <2>1 DEF Saved
<1>2. ASSUME NEW n \in Saved' PROVE n \in Own
  BY <1>2 DEF Saved
<1> QED
  BY <1>1, <1>2

LEMMA SavedOfMerged ==
  ASSUME tangle' = tangle \cup [name : asts, is_imported : {TRUE}]
  PROVE  Saved' = Saved
<1>1. \A t \in [name : asts, is_imported : {TRUE}] : t.is_imported = TRUE
  OBVIOUS
<1> QED
  BY <1>1 DEF Saved

\* What a stage before the back end changes when it returns.
LEMMA FrontEffects ==
  ASSUME TypeInv, stages = DefaultMode, Proceed, FrontStage
  PROVE  /\ at \in 1..10
         /\ at = 1 => tangle' = [name : Own, is_imported : {FALSE}]
         /\ at = 2 => tangle' = tangle \cup [name : asts, is_imported : {TRUE}]
         /\ at \in {3, 8, 9} => UNCHANGED <<tangle, active_source, seen, complete>>
         /\ at = 4 => active_source # NoSource /\ UNCHANGED <<tangle, active_source>>
         /\ at = 5 => /\ seen' = [seen EXCEPT !["restructure"] = Names(tangle)]
                      /\ UNCHANGED <<tangle, active_source>>
         /\ at = 6 => /\ active_source # NoSource =>
                           seen' = [seen EXCEPT !["resolve"] = Names(tangle)]
                      /\ complete' \/ "keep-going-on-resolution-fail" \in options
                      /\ UNCHANGED <<tangle, active_source>>
         /\ at = 7 => /\ seen' = [seen EXCEPT !["convert"] = Names(tangle)]
                      /\ UNCHANGED <<tangle, active_source, complete>>
         /\ at = 10 => /\ \/ "skip-mangling" \in options /\ UNCHANGED seen
                          \/ seen' = [seen EXCEPT !["mangle"] = Names(tangle)]
                       /\ UNCHANGED <<tangle, active_source, complete>>
<1>1. at \in Nat \ {0} /\ ~Fail /\ ~Crash
  BY ProceedIsNoExit DEF TypeInv
<1>2. CASE Parse
  <2>1. at = 1
    BY <1>1, <1>2, ActionPlaces, Zenon
  <2>2. tangle' = [name : Own, is_imported : {FALSE}]
    BY <1>1, <1>2 DEF Parse
  <2> QED
    BY <2>1, <2>2
<1>3. CASE Deserialize
  <2>1. at = 2
    BY <1>1, <1>3, ActionPlaces, Zenon
  <2>2. tangle' = tangle \cup [name : asts, is_imported : {TRUE}]
    BY <1>1, <1>3 DEF Deserialize
  <2> QED
    BY <2>1, <2>2
<1>4. CASE Verify(0) \/ Verify(1)
  <2>1. at = 3 \/ at = 8
    BY <1>1, <1>4, ActionPlaces, Zenon
  <2>2. UNCHANGED <<tangle, active_source, seen, complete>>
    BY <1>4 DEF Verify, context
  <2>3. CASE at = 3
    BY <2>2, <2>3
  <2>4. CASE at = 8
    BY <2>2, <2>4
  <2> QED
    BY <2>1, <2>3, <2>4
<1>5. CASE Test
  <2>1. at = 9
    BY <1>1, <1>5, ActionPlaces, Zenon
  <2>2. UNCHANGED <<tangle, active_source, seen, complete>>
    BY <1>1, <1>5 DEF Test, context
  <2> QED
    BY <2>1, <2>2
<1>6. CASE Compact
  <2>1. at = 4
    BY <1>1, <1>6, ActionPlaces, Zenon
  <2>2. active_source # NoSource /\ UNCHANGED <<tangle, active_source>>
    BY <1>1, <1>6 DEF Compact, Pass
  <2> QED
    BY <2>1, <2>2
<1>7. CASE Restructure
  <2>1. at = 5
    BY <1>1, <1>7, ActionPlaces, Zenon
  <2>2. /\ seen' = [seen EXCEPT !["restructure"] = Names(tangle)]
        /\ UNCHANGED <<tangle, active_source>>
    BY <1>1, <1>7 DEF Restructure, Pass
  <2> QED
    BY <2>1, <2>2
<1>8. CASE Resolve
  <2>1. at = 6
    BY <1>1, <1>8, ActionPlaces, Zenon
  <2>2. /\ active_source # NoSource => seen' = [seen EXCEPT !["resolve"] = Names(tangle)]
        /\ complete' \/ "keep-going-on-resolution-fail" \in options
        /\ UNCHANGED <<tangle, active_source>>
    BY <1>1, <1>8 DEF Resolve
  <2> QED
    BY <2>1, <2>2
<1>9. CASE Convert
  <2>1. at = 7
    BY <1>1, <1>9, ActionPlaces, Zenon
  <2>2. /\ seen' = [seen EXCEPT !["convert"] = Names(tangle)]
        /\ UNCHANGED <<tangle, active_source, complete>>
    BY <1>1, <1>9 DEF Convert, Pass
  <2> QED
    BY <2>1, <2>2
<1>10. CASE Mangle
  <2>1. at = 10
    BY <1>1, <1>10, ActionPlaces, Zenon
  <2>2. /\ \/ "skip-mangling" \in options /\ UNCHANGED seen
           \/ seen' = [seen EXCEPT !["mangle"] = Names(tangle)]
        /\ UNCHANGED <<tangle, active_source, complete>>
    BY <1>1, <1>10 DEF Mangle, Pass, context
  <2> QED
    BY <2>1, <2>2
<1> QED
  BY <1>2, <1>3, <1>4, <1>5, <1>6, <1>7, <1>8, <1>9, <1>10 DEF FrontStage

\* The place of the back end.
LEMMA BackPlace ==
  ASSUME TypeInv, stages = DefaultMode, BackStage
  PROVE  at \in {11, 12, 13, 14}
<1>1. at \in Nat \ {0}
  BY DEF TypeInv
<1>2. at = 11 \/ at = 12 \/ at = 13 \/ at = 14
  BY <1>1, ActionPlaces, Zenon DEF BackStage
<1> QED
  BY <1>2

LEMMA FrontAfterFront ==
  ASSUME TypeInv, AfterFront, stages = DefaultMode, Proceed, FrontStage
  PROVE  AfterFront'
<1>1. /\ at' = at + 1 /\ at \in Nat /\ UNCHANGED <<options, stages>>
      /\ Own' = Own
  BY ProceedIsNoExit DEF Own
<1>2. at > 1 => Saved = Own /\ Own \subseteq Names(tangle)
  BY DEF AfterFront, Saved, Names
<1>3. DOMAIN seen = Passes
  BY DEF TypeInv
<1>4. UNCHANGED tangle => Saved' = Saved
  BY DEF Saved
<1>5. CASE at = 1
  <2>1. tangle' = [name : Own, is_imported : {FALSE}]
    BY <1>5, FrontEffects
  <2>2. Saved' = Own
    BY <2>1, SavedOfParsed
  <2> QED
    BY <1>1, <1>5, <2>2 DEF AfterFront
<1>6. CASE at = 2
  <2>1. tangle' = tangle \cup [name : asts, is_imported : {TRUE}]
    BY <1>6, FrontEffects
  <2>2. Saved' = Saved
    BY <2>1, SavedOfMerged
  <2> QED
    BY <1>1, <1>2, <1>6, <2>2 DEF AfterFront
<1>7. CASE at \in {3, 8, 9}
  <2>1. UNCHANGED <<tangle, active_source, seen, complete>>
    BY <1>7, FrontEffects
  <2> QED
    BY <1>1, <1>4, <1>7, <2>1 DEF AfterFront
<1>8. CASE at = 4
  BY <1>1, <1>4, <1>8, FrontEffects DEF AfterFront
<1>9. CASE at = 5
  BY <1>1, <1>2, <1>3, <1>4, <1>9, FrontEffects DEF AfterFront, Passes
<1>10. CASE at = 6
  BY <1>1, <1>2, <1>3, <1>4, <1>10, FrontEffects DEF AfterFront, Passes
<1>11. CASE at = 7
  BY <1>1, <1>2, <1>3, <1>4, <1>11, FrontEffects DEF AfterFront, Passes
<1>12. CASE at = 10
  BY <1>1, <1>2, <1>3, <1>4, <1>12, FrontEffects DEF AfterFront, Passes
<1> QED
  BY FrontEffects, <1>5, <1>6, <1>7, <1>8, <1>9, <1>10, <1>11, <1>12

LEMMA NextAfterFront ==
  TypeInv /\ ConductorInv /\ AfterFront /\ [Next]_vars => AfterFront'
<1> SUFFICES ASSUME TypeInv, ConductorInv, AfterFront, [Next]_vars PROVE AfterFront'
  OBVIOUS
<1>1. CASE UNCHANGED vars
  BY <1>1 DEF AfterFront, vars, command, context, Own, Saved
<1>2. CASE Build \/ ParseOptions \/ Return
  BY <1>2, MainKeeps, MainStages DEF AfterFront, context, Saved
<1>3. CASE FrontStage \/ BackStage
  <2>1. Control /\ UNCHANGED <<options, stages>> /\ Own' = Own
    BY <1>3, StageControl, ControlKeeps
  <2>2. CASE stages # DefaultMode
    BY <2>1, <2>2 DEF AfterFront
  <2>3. CASE ~Proceed
    <3>1. UNCHANGED <<context, at>>
      BY <2>1, <2>3 DEF Control, Exit
    <3> QED
      BY <2>1, <3>1 DEF context, Saved, AfterFront
  <2>4. CASE stages = DefaultMode /\ Proceed /\ FrontStage
    BY <2>4, FrontAfterFront
  <2>5. CASE stages = DefaultMode /\ Proceed /\ BackStage
    <3>1. at \in {11, 12, 13, 14} /\ at' = at + 1
      BY <2>5, BackPlace, ProceedIsNoExit
    <3>2. UNCHANGED <<tangle, active_source, seen, complete>>
      BY <2>5, BackKeeps
    <3> QED
      BY <2>1, <2>5, <3>1, <3>2 DEF Saved, AfterFront
  <2> QED
    BY <1>3, <2>2, <2>3, <2>4, <2>5
<1> QED
  BY <1>1, <1>2, <1>3, NextCases

\* What a stage of the back end changes when it returns.
LEMMA BackEffects ==
  ASSUME TypeInv, stages = DefaultMode, Proceed, BackStage
  PROVE  /\ at \in 11..14
         /\ at = 11 =>
              /\ \/ "no-llvm" \in options /\ UNCHANGED modules
                 \/ modules' = [set |-> TRUE, code |-> {active_source}, info |-> {}]
              /\ UNCHANGED outputs
         /\ at = 12 =>
              /\ \/ UNCHANGED modules
                 \/ modules.set /\ modules'.set /\ modules'.code = modules.code
              /\ UNCHANGED outputs
         /\ at = 13 =>
              /\ \/ "emit-llvm" \notin options /\ UNCHANGED bc
                 \/ "emit-llvm" \in options /\ modules.set /\ bc' = Written(modules.code)
              /\ UNCHANGED <<modules, ast>>
         /\ at = 14 =>
              /\ \/ "emit-ast" \notin options /\ UNCHANGED ast
                 \/ "emit-ast" \in options /\ ast' = Written(Saved)
              /\ UNCHANGED <<modules, bc>>
<1>1. at \in Nat \ {0} /\ ~Fail /\ ~Crash
  BY ProceedIsNoExit DEF TypeInv
<1> USE DEF context, outputs
<1>2. CASE Generate
  <2>1. at = 11
    BY <1>1, <1>2, ActionPlaces, Zenon
  <2>2. /\ \/ "no-llvm" \in options /\ UNCHANGED modules
           \/ modules' = [set |-> TRUE, code |-> {active_source}, info |-> {}]
        /\ UNCHANGED outputs
    BY <1>1, <1>2 DEF Generate
  <2> QED
    BY <2>1, <2>2
<1>3. CASE Describe
  <2>1. at = 12
    BY <1>1, <1>3, ActionPlaces, Zenon
  <2>2. /\ \/ UNCHANGED modules
           \/ modules.set /\ modules'.set /\ modules'.code = modules.code
        /\ UNCHANGED outputs
    BY <1>1, <1>3 DEF Describe
  <2> QED
    BY <2>1, <2>2
<1>4. CASE Bitcode
  <2>1. at = 13
    BY <1>1, <1>4, ActionPlaces, Zenon
  <2>2. /\ \/ "emit-llvm" \notin options /\ UNCHANGED bc
           \/ "emit-llvm" \in options /\ modules.set /\ bc' = Written(modules.code)
        /\ UNCHANGED <<modules, ast>>
    BY <1>1, <1>4 DEF Bitcode
  <2> QED
    BY <2>1, <2>2
<1>5. CASE Serialize
  <2>1. at = 14
    BY <1>1, <1>5, ActionPlaces, Zenon
  <2>2. /\ \/ "emit-ast" \notin options /\ UNCHANGED ast
           \/ "emit-ast" \in options /\ ast' = Written(Saved)
        /\ UNCHANGED <<modules, bc>>
    BY <1>1, <1>5 DEF Serialize
  <2> QED
    BY <2>1, <2>2
<1> QED
  BY <1>2, <1>3, <1>4, <1>5 DEF BackStage

LEMMA BackAfterBack ==
  ASSUME TypeInv, AfterFront, AfterBack, stages = DefaultMode, Proceed, BackStage
  PROVE  AfterBack'
<1>1. /\ at' = at + 1 /\ at \in Nat /\ UNCHANGED <<options, stages>>
      /\ Own' = Own /\ UNCHANGED active_source
  BY ProceedIsNoExit, BackKeeps DEF Own
<1> USE <1>1, BackEffects DEF outputs
<1>2. CASE at = 11
  BY <1>2 DEF AfterBack
<1>3. CASE at = 12
  BY <1>3 DEF AfterBack
<1>4. CASE at = 13
  <2>1. CASE "emit-llvm" \notin options
    BY <1>4, <2>1 DEF AfterBack
  <2>2. CASE "emit-llvm" \in options
    <3>1. bc'.written = TRUE /\ bc'.of = modules.code /\ modules.set
      BY <1>4, <2>2, WrittenType
    <3> QED
      BY <1>4, <2>2, <3>1 DEF AfterBack
  <2> QED
    BY <2>1, <2>2
<1>5. CASE at = 14
  <2>1. CASE "emit-ast" \notin options
    BY <1>5, <2>1 DEF AfterBack
  <2>2. CASE "emit-ast" \in options
    <3>1. Saved = Own
      BY <1>5 DEF AfterFront
    <3>2. ast' = Written(Saved) /\ UNCHANGED <<modules, bc>>
      BY <1>5, <2>2
    <3>3. ast'.written = TRUE /\ ast'.of = Own
      BY <3>1, <3>2, WrittenType
    <3> QED
      BY <1>5, <2>2, <3>2, <3>3 DEF AfterBack
  <2> QED
    BY <2>1, <2>2
<1> QED
  BY <1>2, <1>3, <1>4, <1>5

LEMMA FrontAfterBack ==
  ASSUME TypeInv, AfterBack, stages = DefaultMode, Proceed, FrontStage
  PROVE  AfterBack'
<1>1. /\ at' = at + 1 /\ at \in Nat /\ UNCHANGED <<options, stages>>
      /\ UNCHANGED <<modules, outputs>>
  BY ProceedIsNoExit, FrontKeeps
<1>2. at \in 1..10
  BY FrontEffects
<1> QED
  BY <1>1, <1>2 DEF AfterBack, outputs

LEMMA NextAfterBack ==
  TypeInv /\ ConductorInv /\ ShortModes /\ AfterFront /\ AfterBack /\ [Next]_vars
    => AfterBack'
<1> SUFFICES ASSUME TypeInv, ConductorInv, ShortModes, AfterFront, AfterBack, [Next]_vars
             PROVE  AfterBack'
  OBVIOUS
<1>1. CASE UNCHANGED vars
  BY <1>1 DEF AfterBack, vars, command, context, outputs, Own
<1>2. CASE Build \/ ParseOptions \/ Return
  BY <1>2, MainKeeps, MainStages DEF AfterBack, ShortModes, context, outputs
<1>3. CASE FrontStage \/ BackStage
  <2>1. Control /\ UNCHANGED <<options, stages>> /\ Own' = Own
    BY <1>3, StageControl, ControlKeeps
  <2>2. CASE stages # DefaultMode
    BY <2>1, <2>2 DEF AfterBack
  <2>3. CASE ~Proceed
    <3>1. UNCHANGED <<context, outputs, at>>
      BY <2>1, <2>3 DEF Control, Exit
    <3> QED
      BY <2>1, <3>1 DEF context, outputs, AfterBack
  <2>4. CASE stages = DefaultMode /\ Proceed /\ FrontStage
    BY <2>4, FrontAfterBack
  <2>5. CASE stages = DefaultMode /\ Proceed /\ BackStage
    BY <2>5, BackAfterBack
  <2> QED
    BY <1>3, <2>2, <2>3, <2>4, <2>5
<1> QED
  BY <1>1, <1>2, <1>3, NextCases

-------------------------------------------------------------------------------
(* The theorems *)

LEMMA InitIInv == Init => IInv
  BY InitTypeInv, InitConductorInv, InitAfter DEF IInv

LEMMA NextIInv == IInv /\ [Next]_vars => IInv'
  BY NextTypeInv, NextConductorInv, NextShortModes, NextAfterFront, NextAfterBack
     DEF IInv

\* The conductor and the two contexts are as the parts of IInv say.
THEOREM Invariance == Spec => []IInv
<1> QED
  BY InitIInv, NextIInv, PTL DEF Spec

\* A compilation that fails or crashes keeps the interface of an earlier one,
\* and writes code only if it is the writing of the interface that fails.
THEOREM InterfaceKept == Spec => []FailureKeepsInterface
<1>1. IInv => FailureKeepsInterface
  <2> SUFFICES ASSUME IInv, exit \in {"failed", "crashed"}
               PROVE  ~ast.written /\ (bc.written => stages[at] = "serialize")
    BY DEF FailureKeepsInterface
  <2>1. CASE stages # DefaultMode
    BY <2>1 DEF IInv, ShortModes
  <2>2. CASE stages = DefaultMode
    <3>1. at \in Nat /\ at <= 14
      BY <2>2 DEF IInv, TypeInv, ConductorInv
    <3>2. ~ast.written
      BY <2>2, <3>1 DEF IInv, AfterBack
    <3>3. bc.written => at = 14
      BY <2>2, <3>1 DEF IInv, AfterBack
    <3>4. DefaultMode[14] = "serialize"
      BY DEF DefaultMode
    <3> QED
      BY <2>2, <3>2, <3>3, <3>4
  <2> QED
    BY <2>1, <2>2
<1> QED
  BY <1>1, Invariance, PTL

\* An .ast holds the sources of the command line and no other, and every pass
\* that was not switched off has seen each of them.
THEOREM AstComplete == Spec => []AstIsComplete
<1>1. IInv => AstIsComplete
  <2> SUFFICES ASSUME IInv, ast.written PROVE AstIsComplete
    BY DEF AstIsComplete
  <2>1. stages = DefaultMode
    BY DEF IInv, ShortModes
  <2>2. at > 14 /\ ast.of = Own /\ at \in Nat
    BY <2>1 DEF IInv, AfterBack, TypeInv
  <2> QED
    BY <2>1, <2>2 DEF IInv, AfterFront, AstIsComplete
<1> QED
  BY <1>1, Invariance, PTL

\* Code is of a tree whose names are resolved, or was asked for nevertheless;
\* and they are mangled unless that was switched off.
THEOREM CodeResolved == Spec => []CodeIsResolved
<1>1. IInv => CodeIsResolved
  <2> SUFFICES ASSUME IInv, bc.written PROVE CodeIsResolved
    BY DEF CodeIsResolved
  <2>1. stages = DefaultMode
    BY DEF IInv, ShortModes
  <2>2. at > 13 /\ bc.of = {active_source} /\ at \in Nat
    BY <2>1 DEF IInv, AfterBack, TypeInv
  <2>3. active_source \in Own
    BY <2>1, <2>2 DEF IInv, AfterFront, TypeInv
  <2> QED
    BY <2>1, <2>2, <2>3 DEF IInv, AfterFront, CodeIsResolved
<1> QED
  BY <1>1, Invariance, PTL

-------------------------------------------------------------------------------
(* The promise of Compilation *)

Seen == <<Requested, Produced, Result>>

LEMMA ProducedIs ==
  /\ Produced \subseteq {"bc", "ast"}
  /\ "bc" \in Produced <=> bc.written
  /\ "ast" \in Produced <=> ast.written
BY DEF Produced

LEMMA ProducedWill ==
  /\ Produced' \subseteq {"bc", "ast"}
  /\ "bc" \in Produced' <=> bc'.written
  /\ "ast" \in Produced' <=> ast'.written
BY DEF Produced

LEMMA RequestedIs ==
  /\ Requested \subseteq {"bc", "ast"}
  /\ "help" \in options => Requested = {}
  /\ "help" \notin options =>
       /\ "bc" \in Requested <=> "emit-llvm" \in options
       /\ "ast" \in Requested <=> "emit-ast" \in options
BY DEF Requested

LEMMA ResultIs ==
  /\ exit = "none" => Result = "running"
  /\ exit = "ok" => Result = "ok"
  /\ exit \in {"failed", "crashed"} => Result = "failed"
BY DEF Result

\* Between two visible steps nothing changes that the caller sees.
LEMMA Unseen ==
  ASSUME UNCHANGED <<options, exit>>, bc'.written = bc.written, ast'.written = ast.written
  PROVE  UNCHANGED Seen
BY DEF Seen, Requested, Produced, Result

\* A set of files is known by its members.
LEMMA TwoFiles ==
  ASSUME NEW S \in SUBSET {"bc", "ast"}, NEW T \in SUBSET {"bc", "ast"},
         "bc" \in S <=> "bc" \in T, "ast" \in S <=> "ast" \in T
  PROVE  S = T
<1>1. \A f : f \in S <=> f \in T
  OBVIOUS
<1> QED
  BY <1>1

LEMMA InitImplements == Init => Abstract!Init
<1> SUFFICES ASSUME Init PROVE Abstract!Init
  OBVIOUS
<1>1. Produced = {}
  BY InitWritten, ProducedIs
<1>2. Result = "running"
  BY ResultIs DEF Init
<1> QED
  BY <1>1, <1>2, RequestedIs DEF Abstract!Init, Abstract!Files

\* Who asks a mode without back end for a file is refused.
LEMMA ShortModesAreAskedNothing ==
  ASSUME TypeInv, ConductorInv, pc = "execute", stages # DefaultMode
  PROVE  Requested = {}
<1>1. \A i \in DOMAIN stages : stages[i] # "bitcode" /\ stages[i] # "serialize"
  BY DEF ConductorInv, BackEnd
<1>2. "emit-llvm" \notin Known /\ "emit-ast" \notin Known
  BY <1>1 DEF Known, OptionsOf
<1> QED
  BY <1>2, RequestedIs DEF ConductorInv

\* An exit is an end of the abstract run.
LEMMA ExitImplements ==
  ASSUME IInv, NEW how \in {"ok", "failed", "crashed"}, pc # "done",
         Exit(how), UNCHANGED outputs, how = "ok" => Produced = Requested
  PROVE  Abstract!Next
<1>1. Result = "running" /\ UNCHANGED <<Requested, Produced>>
  BY ResultIs DEF IInv, ConductorInv, Exit, command, outputs, Requested, Produced
<1>2. exit' = how
  BY DEF Exit
<1>3. CASE how = "ok"
  <2>1. Result' = "ok"
    BY <1>2, <1>3 DEF Result
  <2>2. Abstract!End("ok")
    BY <1>1, <1>3, <2>1 DEF Abstract!End
  <2> QED
    BY <2>2 DEF Abstract!Next
<1>4. CASE how \in {"failed", "crashed"}
  <2>1. Result' = "failed"
    BY <1>2, <1>4 DEF Result
  <2>2. Abstract!End("failed")
    BY <1>1, <2>1 DEF Abstract!End
  <2> QED
    BY <2>2 DEF Abstract!Next
<1> QED
  BY <1>3, <1>4

\* The conductor returns 0 when the last stage has, and all is written then.
LEMMA ReturnImplements == ASSUME IInv, Return PROVE Abstract!Next
<1>1. pc = "execute" /\ at > Len(stages) /\ Exit("ok") /\ UNCHANGED outputs
  BY DEF Return
<1>2. CASE stages # DefaultMode
  <2>1. Requested = {} /\ Produced = {}
    BY <1>1, <1>2, ShortModesAreAskedNothing, ProducedIs DEF IInv, ShortModes
  <2> QED
    BY <1>1, <2>1, ExitImplements
<1>3. CASE stages = DefaultMode
  <2>1. at > 14
    BY <1>1, <1>3, DefaultLength
  <2>2. "help" \notin options
    BY <1>1 DEF IInv, ConductorInv
  <2>3. /\ bc.written <=> "emit-llvm" \in options
        /\ ast.written <=> "emit-ast" \in options
    BY <1>3, <2>1 DEF IInv, AfterBack, TypeInv
  <2>4. /\ "bc" \in Produced <=> "bc" \in Requested
        /\ "ast" \in Produced <=> "ast" \in Requested
    BY <2>2, <2>3, ProducedIs, RequestedIs, Zenon
  <2>5. Produced \subseteq {"bc", "ast"} /\ Requested \subseteq {"bc", "ast"}
    BY ProducedIs, RequestedIs, Zenon
  <2>6. Produced = Requested
    BY <2>4, <2>5, TwoFiles
  <2> QED
    BY <1>1, <2>6, ExitImplements
<1> QED
  BY <1>2, <1>3

LEMMA MainImplements ==
  ASSUME IInv, Build \/ ParseOptions
  PROVE  Abstract!Next \/ UNCHANGED Seen
<1>1. UNCHANGED outputs /\ pc # "done"
  BY DEF Build, ParseOptions
<1>2. CASE Exit("failed")
  BY <1>1, <1>2, ExitImplements
<1>3. CASE Exit("ok") /\ "help" \in options /\ pc = "build"
  <2>1. ~bc.written /\ ~ast.written
    BY <1>3, DefaultLength DEF IInv, ConductorInv, ShortModes
  <2>2. Produced = {} /\ Requested = {}
    BY <1>3, <2>1, ProducedIs, RequestedIs
  <2> QED
    BY <1>1, <1>3, <2>2, ExitImplements
<1>4. CASE UNCHANGED <<command, exit>>
  BY <1>1, <1>4, Unseen DEF command, outputs
<1> QED
  BY <1>2, <1>3, <1>4 DEF Build, ParseOptions

\* A stage writes a file at its turn, or nothing.
LEMMA StageImplements ==
  ASSUME IInv, FrontStage \/ BackStage
  PROVE  Abstract!Next \/ UNCHANGED Seen
<1>1. pc = "execute" /\ Control
  BY StageControl
<1>2. CASE \E how \in {"failed", "crashed"} : Exit(how) /\ UNCHANGED <<context, outputs>>
  BY <1>1, <1>2, ExitImplements
<1>3. CASE Proceed
  <2>1. UNCHANGED <<options, exit>> /\ UNCHANGED Requested
    BY <1>3 DEF Proceed, command, Requested
  <2>2. CASE UNCHANGED outputs
    BY <2>1, <2>2, Unseen DEF outputs
  <2>3. CASE BackStage /\ ~UNCHANGED outputs
    <3>1. stages = DefaultMode
      BY <2>3, ShortExecutes DEF BackStage, Generate, Describe, Bitcode, Serialize, BackEnd, IInv
    <3>2. at \in {13, 14}
      BY <1>3, <2>3, <3>1, BackEffects DEF IInv
    <3>3. Result = "running" /\ Result' = "running" /\ "help" \notin options
      BY <1>1, <2>1, ResultIs DEF IInv, ConductorInv, Result
    <3>4. CASE at = 13
      <4>1. "emit-llvm" \in options /\ bc' = Written(modules.code) /\ ast' = ast
        BY <1>3, <2>3, <3>1, <3>4, BackEffects DEF outputs, IInv
      <4>2. ~bc.written /\ ~ast.written
        BY <3>1, <3>4 DEF IInv, AfterBack
      <4>3. bc'.written
        BY <4>1, WrittenType
      <4>4. "bc" \in Requested \ Produced /\ "ast" \notin Produced
        BY <3>3, <4>1, <4>2, ProducedIs, RequestedIs
      <4>5. /\ "bc" \in Produced'
            /\ "ast" \in Produced' <=> "ast" \in Produced
            /\ Produced \subseteq {"bc", "ast"} /\ Produced' \subseteq {"bc", "ast"}
        BY <4>1, <4>3, ProducedIs, ProducedWill, Zenon
      <4>6. Produced' = Produced \cup {"bc"}
        BY <4>5
      <4>7. Abstract!Write("bc")
        BY <2>1, <3>3, <4>4, <4>6 DEF Abstract!Write
      <4> QED
        BY <4>7 DEF Abstract!Next, Abstract!Files
    <3>5. CASE at = 14
      <4>1. "emit-ast" \in options /\ ast' = Written(Saved) /\ bc' = bc
        BY <1>3, <2>3, <3>1, <3>5, BackEffects DEF outputs, IInv
      <4>2. ~ast.written /\ (bc.written <=> "emit-llvm" \in options)
        BY <3>1, <3>5 DEF IInv, AfterBack
      <4>3. ast'.written
        BY <4>1, WrittenType
      <4>4. "ast" \in Requested \ Produced /\ ("bc" \in Requested => "bc" \in Produced)
        BY <3>3, <4>1, <4>2, ProducedIs, RequestedIs
      <4>5. /\ "ast" \in Produced'
            /\ "bc" \in Produced' <=> "bc" \in Produced
            /\ Produced \subseteq {"bc", "ast"} /\ Produced' \subseteq {"bc", "ast"}
        BY <4>1, <4>3, ProducedIs, ProducedWill, Zenon
      <4>6. Produced' = Produced \cup {"ast"}
        BY <4>5
      <4>7. Abstract!Write("ast")
        BY <2>1, <3>3, <4>4, <4>6 DEF Abstract!Write
      <4> QED
        BY <4>7 DEF Abstract!Next, Abstract!Files
    <3> QED
      BY <3>2, <3>4, <3>5
  <2> QED
    BY <2>2, <2>3, FrontKeeps
<1> QED
  BY <1>1, <1>2, <1>3 DEF Control

LEMMA NextImplements ==
  IInv /\ [Next]_vars => [Abstract!Next]_<<Requested, Produced, Result>>
<1> SUFFICES ASSUME IInv, [Next]_vars PROVE Abstract!Next \/ UNCHANGED Seen
  BY DEF Seen
<1>1. CASE UNCHANGED vars
  BY <1>1, Unseen DEF vars, command, outputs
<1> QED
  BY <1>1, NextCases, MainImplements, ReturnImplements, StageImplements

\* ts-compile keeps the promise that ts-make and the driver build on: code
\* before interface, and an exit code of 0 only with every file asked for.
THEOREM ImplementsSpec == Spec => ImplementsCompilation
<1> QED
  BY InitImplements, NextImplements, Invariance, PTL
     DEF Spec, ImplementsCompilation, Abstract!Spec
===============================================================================
