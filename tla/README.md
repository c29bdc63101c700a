# Verification of the ThorScript tool chain

ThorScript is compiled by a chain of programs. `tsc` (the driver) runs
`ts-bundle` to unpack imported bundles, `ts-dep` to group the source files into
tangles, `ts-make` to compile the tangles in parallel with `ts-compile`, and
`ts-link` to make the shared object. They talk to each other through exit codes
and through the files of a build directory that no tool ever cleans.

The TLA+ modules here model that chain, TLC checks them on small instances, and
TLAPS proves the main results for every instance. Source paths below are
relative to the root of the repository; `stages/` stands for
`src/libzillians-language-stages/` and `lib/` for
`src/libzillians-language/language/`.

## 1. Inventory

| Component | State | Operations | What is hard | What makes it correct |
|---|---|---|---|---|
| **ts-make** `stages/make/.../ThorScriptMakeStage.cpp` | the graph of ts.dep, a TBB flow graph, the files of the build directory | `parseOptions`, `execute`: wire the graph, start, wait; per node a child process | concurrency of the compilations, ignored exit codes, ports and messages that have to match | order, completeness, no race on a file, no stale input unless a failure explains it, the end |
| **ts-dep** `stages/dep/.../ThorScriptDepStage.cpp` | the graph of files, the graph of tangles | `addFileDependency` (recursive), `analyzeTangle`, scanning bundles | cyclic imports, missing packages in mid-function, iterators into a growing vector | the graph is exact, acyclic, and orders every import |
| **tsc** `stages/driver/.../ThorScriptDriver.cpp` | the build directory: cache, ts.dep, .bc, .ast, stub, shared object, bundle | `build [debug\|release]`, `generate bundle`, `generate ...-stub`, `generate doc`, `project create` | what earlier builds left, kills between steps, edits during a build, results not looked at | what is linked and bundled can be explained |
| **ts-bundle** `stages/bundle/.../ThorScriptBundleStage.cpp` | archive, directory of the bundle | compress, extract | random names inside, ignored linker errors, temporary file | a bundle has code and interface of the same sources |
| **ts-link** `stages/link/.../ThorScriptLinkerStage.cpp` | .s files, shared object | assemble each .bc, call the native compiler | results of passes taken for success | - |
| **ts-compile** `stages/compile/...`, `lib/stage/StageConductor.cpp`, `include/language/stage/StageBuilder.h` | parser and generator contexts | modes, 14 stages in order | a stage that fails or stops the rest; several sources and one `active_source` | outputs are written only after the checks |
| **Resolution** `lib/stage/transformer/ResolutionStage.cpp`, `ResolutionStageVisitor.h` | unresolved nodes, resolved types and symbols | `resolveTypes`, `resolveSymbols`, error reports | a fixed point over two passes that undo each other's completion | it ends; success means all is resolved |
| **Name lookup** `include/language/tree/visitor/ResolutionVisitor.h`, `resolver/Resolver.h` | scopes, candidates | `resolveType`, `resolveSymbol`, `resolvePackage` | nested scopes, imports and aliases; conversions that tie; specializations; assertions in mid-search | the nearest declaration, the best callee, the most specialized template |
| **Tree** `include/language/tree/` | nodes, parents, contexts | merge, save, load, replace, garbage collection | imported sources, pointers across tangles, sweeping; five operations written by hand for every class | an .ast holds exactly its own sources; nothing reachable is freed |
| **Transformations** `lib/stage/transformer/` | the tree | compaction, restructuring, implicit conversion | repeat-until-none loops, work collected in a visit and done after it | they end and leave nothing to do |
| **Mangling** `include/language/tree/visitor/NameManglingVisitor.h` | the slots of what was printed | a symbol per declaration | a recursive walk steered by flags, slots that move | one symbol, one signature |
| **Verification** `lib/stage/verifier/` | programs, errors | semantic checks 0 and 1, static tests | errors that do not stop the compilation, marks on blocks | what is reported as dead is dead, and an end that is reached is reported |
| **Code generation** `lib/stage/generator/`, `include/language/stage/generator/` | LLVM modules, blocks, the insertion mask | visitor, debug information, bit code | blocks linked after they were visited, what follows a return | code that LLVM accepts and that does what the function means |
| **Parser** `lib/stage/parser/`, `include/language/grammar/`, `include/language/action/` | source text, `active_source` | parse | - | - |
| **VM launcher, ts-stub, ts-strip, logging** | - | - | small and sequential | - |

The hazards of the code, each at its line, are listed in `PROJECT.json` with
the properties that would catch them.

How the components interact: the driver starts the tools one after the other
and stops at the first exit code that is not 0; ts-dep hands the graph of
tangles to ts-make in `ts.dep`; a compilation reads the .ast of its direct
dependencies and writes its .bc and its .ast; the linker takes every .bc, and
the bundler every .ast and .bc, of the build directory.

## 2. Plan

Done:

1. `TopologicalBuild`, `Make`, `MakeProofs`: the parallel build, its abstract
   specification and the proofs.
2. `Dep`, `DepProofs`: the graph that ts-make relies on. The theorem
   `DepProofs!TangleGraphCorrect` is what `Make!GraphAssumption` assumes.
3. `Driver`: the life of a build directory over several builds. It takes the
   results of 1 and 2 as given: ts-dep yields the tangles of the sources,
   ts-make starts every compilation once, in some order.
4. `Compilation`, `Compiler`: one compilation, stage by stage, and what the
   other tools may rely on. `Make` and `Driver` take from it the order of the
   two outputs and that success means both.
5. `Resolution`: the fixed point of the resolution stage, which is one step of
   `Compiler` (`Compiler!Resolve`).

6. `Tree`, `Transform`: the tree as the stages between the parser and the code
   generator change it.
7. `Lookup`, `Ranking`, `Overloads`, `Mangling`, `Checks`, `Codegen`: the
   algorithms of the compiler, as operators; `Meaning` and `Semantics`, what they
   are compared with; `Backend`, which composes them in the order of the stages.
8. `DriverProofs`, `CompilerProofs`, `ResolutionProofs`: the safety properties of
   3, 4 and 5 and the refinement of 4 as theorems; `RankingProofs`: the choice
   among overloads.
9. `Measures`, with a theorem in each of `MakeProofs`, `DepProofs`, `DriverProofs`
   and `ResolutionProofs`: why the four loops end. `Compilations`, with a theorem
   in `MakeProofs` and one in `DriverProofs`: that 3 takes of 1 no more than it
   gives.

Not planned: `Tree`, `Lookup`, `Codegen` and what extends them are written with
recursive operators, since what they model recurses over the tree, and what they
promise is about whole trees; the prover takes neither the operators nor the
induction. The operations on a single node (`Adopt`, `InsertObjectAfter`,
`ReplaceUseWith`) could be split off, but a theorem about one of them would only
repeat its assignments, and `HasHome` is about all that is reached.

## 3. What is modelled

### Make (ts-make)

One state machine for the stage and its child processes. `graph` is the graph
read from ts.dep; `inbox` and `outbox` are the input ports and the messages on
their way of the TBB nodes; `node` is the progress of a tangle's command;
`ast`, `bc` and `used` are the files of the build directory and what each
compilation read. The main thread (`ParseOptions`, `GiveUp`, `Wire`, `PutDone`,
`WaitForAll`) follows `parseOptions` and `execute`; `Put`, `RunNode` and
`Finish` are the flow graph, modelled from its use in `execute` since
`JoinFunctionModule` and TBB are not in the repository; `LoadAsts`, `EmitBc`,
`EmitAst` and `CompileFails` are what a compilation does to the build
directory, in the order of the stages in `ThorScriptCompiler.cpp:45-60`.
Messages of `start` are put one at a time, so nodes run while others have not
been reached. Files from earlier builds are there from the beginning, in any
combination.

`TopologicalBuild` is the promise: every tangle is compiled at most once, only
after what it depends on, and success is not returned before all are over.
`Make!ImplementsTopologicalBuild` is the refinement. `Compilations` is the same
stage as the driver sees it, with the outputs of each command and without the
order: compilations in any order and at the same time, code before interface,
some of them failing, and no return before the last.

### Dep (ts-dep)

`stack` holds the active calls of `addFileDependency`, each in its last loop
with the targets it has still to visit; `Call` is the function up to that loop
with its two early returns, `CallTarget` and `Return` the loop, `Dangle` the
crash that dangling edge iterators can cause once a vertex has been added
(`ThorScriptDepStage.cpp:288-296`; reading overwritten memory and going on
with garbage is not modelled). The targets are visited in any order, which
includes the order of the edge list. A package is found (a set of files) or
missing; names, paths, parsing and globbing are abstracted into `Imports`.
`analyzeTangle` is defined by reachability, not by Tarjan's algorithm, which is
Boost's.

### Driver (tsc)

The state is the build directory and the invocation in progress. One action
per step: the two halves of `saveCache`, `Unbundle`, `RunDep`, `StartMake`,
the outputs and failures of compilations, `FinishMake`, `Link`; `StepFails` for
any tool that does not exit with 0; `Killed` anywhere. `EditSource` and
`ReplaceBundle` are the user's and happen at any time; `Clean` removes the
build directory. A revision stands for the contents of the sources, a layout
for how they group into tangles. What a release build leaves open (`buildType`
uninitialised) is a choice of `StartMake`. `Ended` forgets what a process knew
when it ends. Variables under "history" exist for the properties only. While
ts-make runs, the driver is a `Compilations` too.

Simplifications: several bundles are one; imports between tangles are left to
`Make`; files are written at once (a half-written .bc or .ast is not
modelled); tools that were started are killed with the driver; a failed
ts-link leaves the old shared object; the shared object is not packed into the
bundle; a build directory that belongs to two builds at once is not modelled.

### Compiler (ts-compile)

One process without concurrency: `Build` is `StageBuilder::main`,
`ParseOptions` the first part of `StageConductor::main` with the
`parseOptions` of the stages, `Proceed`, `Fail` and `Return` its loop, and each
stage is an action. What makes it hard is the number of combinations: eight
modes, nine options, the inputs, and any stage failing. The stages talk through
the parser context (`tangle`, `active_source`) and the generator context
(`modules`); `seen` records which sources each pass has worked on, `complete`
whether resolution left nothing open. What a stage does to the nodes of a tree
is abstracted to that; whether names resolve, checks find errors, files open and
assertions hold is left open. Every pass over the tree and the generator may go
down in the middle, on a tree without errors as well: each visitor asserts on
nodes that it was not written for (the generator on `break`, `continue`, `!`,
`new`, `<<`, lambdas and casts between types of one size). What a compilation
that ends like that leaves for the next build is `FailureKeepsInterface`.

`Compilation` is what ts-make and the driver build on: code before interface,
success only with all that was asked for. Options that only print or dump
graphs are left out, and so are abbreviated option names.

### Resolution (the resolution stage of ts-compile)

A program is the sequence of its nodes in the order `GenericDoubleVisitor`
visits them: the callee before the arguments, the call after both. `typed` and
`bound` are the nodes with a `ResolvedType` and a `ResolvedSymbol`. One action
per kind of node stands for the visitor's `resolve` of it with what it calls:
some are visited for one target only, some are counted when unresolved
(specifiers, names, callees, assignments, unary expressions), some are silent
while an operand has no type (calls, arithmetic), and a comparison has its type at
once. A type is abstracted to what the visitor asks of it (`Types`): a call of what
is no function (CALL_NONFUNC) and an operand of arithmetic that is no number
(INVALID_ARITHMETIC) are counted, an assignment between types that do not fit
(INVALID_CONV) is logged and not counted, and one to something of a class is not
implemented (`Abort`). `EndPass` is the end of `resolveTypes` and `resolveSymbols`, which
differ in nothing that matters, the wrong counter included; `Settle` and
`Finish` are the end of a round and of `execute`. Instances of templates come
into the tree by `EndPass` and are at its end, where `addObject` puts them. The
first pass after the loop is the one that collects the errors (`summary`).

What the scopes hold is abstracted to an outcome for each name. The variable of
a name is a node of its own (its type specifier), because the resolver asserts
that it has a type: `Abort`, and for builds without assertions the branch in
which the name is bound without a type. Left out: members, packages, `new`, the
ternary operator, casts in the program, the result of `return`, lambda
expressions, `super`, functions and variables without a declared type, and
`keep-going`, which is in `Compiler`. A function that is assigned to a variable of
a function type may go down or not (`NotImplemented`), because its signature is not
modelled. A name that is called is searched as a function, so that `x()` for a
variable x (`CALL_NONFUNC.t` of the static tests) follows a null pointer in
`filterViableByParameterNumber` (`ResolveCallee`), and what gets as far as
CALL_NONFUNC is a call of an expression, such as `f()()`.

### Tree and Transform (the tree between parser and code generator)

`Tree!Fields` has every class of node with its fields in the order in which the
visitors follow them, and for each field the operations of the class that leave
it out: comparison, replacement, copy, adoption, serialization and visit are
written by hand for each of the 38 classes, and what one of them forgets is what
goes wrong. The tree is a heap, so that a node may be shared, may have a parent
that does not have it as a child, and may be left behind.

`Transform` has one action per step that changes the tree: `Merge` (imported
tangles), `Restructure` and the four transformations that a visit collects and
that are done after it (`AddConstructor`, `SplitLocal`, `MoveMember`,
`SplitCompound`), `Resolve` (an instance of a template, a cast or a comparison
is inserted), `Convert` (casts of arguments), `SaveAndLoad`, `Collect`. An
assertion that fails or a null pointer that is followed is `crashed`. Known and
stated by the properties: what is without a parent or shared; which fields no
visitor comes by, so that a collection frees them; that contexts go to the wrong
nodes when imported sources precede a tangle's own; and which programs stop the
compiler (`AbortHasCulprit`). An instance gets a type for every typename of its
template, in the place of one that is partial (`SetSpecializedType`); default
types of typenames never get there, because the search for the template asserts
before (`TemplateIsBest` in `Backend`), and the `specialize()` of a class that is an
argument finds nothing without a type.

### Backend (names, symbols, checks and code of a program)

`Backend` is the order of the stages for one program, which is a tree of
declarations, uses of names in it, and the bodies of functions: `Verify0`,
`ResolveName` for one use after the other, `Resolved`, `Verify1`, `Mangle`, then
`StartFunction`, `GenerateStatement` and `FinishFunction` with the one context
that the generator keeps from function to function.

`Lookup` is `ResolutionVisitor`: `Visit` has one operator per kind of node, the
search is the record q (the rest of a nested name, what is looked for, where
from), and `Candidates` goes through the scopes that `Resolver` has entered (`Around`),
or through what stands before a dot (`Inside`).
`Overloads` is `Resolver`: conversion ranks, deduction, the three filters for
callees (`Ranking` is what they compare), the comparison of class templates. `Meaning` says the same without
visitor and filters. What the comparison has shown, and the properties name:

- all scopes are searched and an inner declaration does not hide an outer one,
  so that the use is ambiguous (as `FunctionResolutionTest` expects);
- an unqualified name also finds the objects of every other package, whether it
  was named or not; a dotted name `p.x` finds the objects of the packages below
  p and not those of p itself, which are found through the member expression;
- of two methods of one class that need the same conversions, each removes the
  other, and what is called, if anything, is a third one that needs as much;
- but for that, the three filters, of which each sees only what the one before has
  left, find the candidate that `Ranking!Preferred` prefers among all of them;
- deduction looks up the class of a parameter among the typenames, so that a
  template with a parameter of a class stops at an assertion; so do arguments
  that are left out for a template with defaults, and the comparison of
  specializations for a class and for a primitive type;
- the number of parameters is asked of every candidate of a call, and a variable
  or a class has none: a null pointer.

`Mangling` is `NameManglingVisitor` with its slots; `Mangle` makes the symbols of
all declarations in the order of the tree. The operators were compared with the
gold symbols of `ThorScriptCompilerManglingTest` (functions 36, 39, 51, 62, 63,
73 and 83 of `data/input.t`). A name with other characters than letters is
encoded by two characters per byte, so that some are encoded alike
(`Meaning!Signature` takes them for one name); the symbols of classes depend on
what was mangled before, because only a function empties the slots, and those of
functions do not.

`Checks` has the marks with which the two verification visitors find dead code
and missing returns. `Codegen` is `LLVMGeneratorStageVisitor` for the control
flow: blocks of instructions, the block the builder is in, the mask, the value
of the last expression, which is an address, a number, the store that an
assignment leaves, or nothing; what is read-only cannot be assigned or
incremented. `Semantics` defines the runs of a function from its
statements and the runs of its code from the blocks. Known and stated by
`WellFormed`: a while loop whose body ends in a return, a ternary in a condition
or in a ternary, and variables and assignments as conditions give code that LLVM
does not take.

Left out: default values of parameters, function types as arguments, 128-bit
integers, lambdas in code, `switch` and `foreach` (which the generator does not
implement), attributes, what literals are, and the types of casts but for whether
they give a value.

## 4. What is checked

| Run | Instance | States | Shows |
|---|---|---|---|
| `make` | a bundle and three source tangles, 32 graphs, all leftovers | 176,702 | `OldAstBlamesDependency`, `CleanBuildIsConsistent`, `LoadedAstIsStable`, `ImplementsTopologicalBuild`, `Terminates` |
| `dep` | three files and a bundle, two imports per file, 7,296 projects | 192,218 | `NoReentry`, `FileGraphExact`, `TangleGraphSound`, `ImportsAreOrdered`, `Terminates` |
| `driver` | two files as two tangles or one, two revisions of sources and bundle, two builds | 1.1 million | `OldCodeIsExplained`, `CleanDirectoryBuildIsExact`, `InterfaceIsNotAheadOfCode`, `BundleIsExact` |
| `driver_ends` | the same with one revision and three builds | 194,040 | `PlainBuildRepeatsLast`, `EveryBuildEnds` |
| `driver_release` | one revision | violation | a release build may link debug code |
| `driver_plain` | one revision | violation | `tsc build` reports success when a step failed |
| `compiler` | two sources, an imported .ast, another file; up to two modes and two inputs; all options | 757,318 | `AstIsComplete`, `CodeIsResolved`, `FailureKeepsInterface`, `ImplementsCompilation` |
| `compiler_tree` | the same | violation | of two sources one has code |
| `resolution` | 4,392 programs: nested calls as operands, operands of every sort of type, a class and a function template | 365,802 | `SuccessIsComplete`, `ShallowProgramsAreResolved`, `AbortHasCulprit`, `Terminates` |
| `resolution_early` | the same | violation | `f(g(x))` with all names defined is rejected |
| `transform` | 91 programs with every class of node, imported tangles in every order | 2,206 | `HasHome`, `Restructured`, `AbortHasCulprit`, `InstanceIsWhole`, `TreeIsReached` |
| `backend` | 12,243 programs: scopes, overloads, templates, functions to mangle and functions to generate | 76,397 | `NameIsLexical`, `CalleeIsBest`, `TemplateIsBest`, `DistinctNames`, `WellFormed`, `SameTraces`, `EndIsReported`, `DeadIsDead` |

Bounds. Three source tangles and a bundle give every shape that matters to a
node: no, one and several dependencies, chains, diamonds and joins; the proofs
cover the rest. Three files give components of one, two and three files and a
file that reaches a cycle; two imports per file are enough for a missing
package before, after and between the others. Two builds are enough for the
driver because a build depends on earlier ones only through the files, and the
properties relate a build to one earlier; two revisions tell old from new. What
a plain build repeats takes three: one that writes the configuration, one that
is killed while it writes the cache, and the plain one. That run has one
revision, which the cache does not depend on. The `driver` run uses the symmetry
of the two files; the one with the liveness property does not. A
compilation distinguishes the last source from the others and its own from the
imported, so two sources and one .ast give every case; a second mode is refused
whatever the first is. A program of the resolution has one statement with up to
two nested calls, alone or as operand of each operator, because a call whose argument is a call is what needs another
round, or two operands of any two types under each operator; the callees are defined, undefined or templates, so that instances come
in every round, and the templates' own texts use what can be unresolved in them.

A program of `transform` has one declaration of each kind with every statement
and expression in some body, one and two constructors and members, and a template
of each kind; the operations work on one node at a time, so that a field that is
forgotten shows in the smallest tree that has it. In `backend` the name x is given
to up to three of ten declarations around one use, which has every pair of scopes
with one more that interferes; up to three functions of a pool of sixteen meet
calls of up to two arguments, so that a third decides between two that tie; up to
three templates of two arguments cover each other in every way, and one of each
kind has a template as its argument; functions to mangle take all lists of up to
three of three types, so that every slot is taken, found again and moved; and
functions of up to three levels of statements cover each statement within each
other, followed by a second function that inherits the context. Seven events of a
run are compared, and a loop is run through as often.

Fairness. `Make`: the main thread goes on, TBB runs every task that was
spawned, and a command ends one way or another; no fairness says that it ends
well. `Dep` and `Resolution`: one sequential process. `Driver`: the tools end and the driver,
which waits for them in `system()`, goes on; nothing is assumed of the user.

Findings. Four runs end in a violation and stand for disagreements of the code
with its documentation: `tsc build release` does not make ts-make build in release
mode; `tsc build` does not report what the explicit build reports; and the code
generator, which is said to walk through the entire tree, visits the source that
was parsed last, so that in a tangle of several files, which ts-make compiles
with one command, the others have no code; the resolution stage, which is said
to try all nodes in multiple passes, stops early because one counter is compared
with the other, and rejects calls nested two deep unless something else makes
progress in the same round. A function template that assigns to a variable is
rejected for the same reason, since its text is first counted when the total is
already 0; the test of one (`ThorScriptDebugInfoTest/call_expression/function_template`)
is commented out in its `CMakeLists.txt`. `SuccessIsComplete` names a limit of the same kind:
when the pass over types that instantiates a class template resolves the last
open type, the types within the instance are never visited.

## 5. What is proved

All theorems hold for every value of the constants under the assumptions named
in the modules, which TLC evaluates for its instances.

`MakeProofs`, from `GraphAssumption` (the graph has no cycle, bundles have no
dependencies): type correctness and every safety property of the `make` run,
and the refinement of `TopologicalBuild`. The properties are not inductive: the
order of compilations is enforced only by messages, so the invariant says where
the message of each dependency is (not sent, on its way, on the port, consumed)
as a function of the progress of the two nodes, and when the main thread is
past which point. Completeness (`CompletionCorrect`) takes the tangles that are
not done when nothing can move, uses that every set of tangles has a member
that depends on no member, and finds for that member that all its messages have
arrived.

`DepProofs`, from `ProjectAssumption` (finitely many files; imports are files):
first, that the strongly connected components of any finite graph have no cycle
(`ComponentsHaveNoCycle`): of a set of components the one that reaches the
fewest nodes depends on no other. Second, the walk: the invariant says that a
file with out-edges has all of them, that the callers on the stack have
out-edges, hence no file is on the stack twice, and that every import of an
expanded file is expanded or still pending in an active call
(`ImportsFollowed`). At the end nothing is pending, so the expanded files
contain all that is to be visited. `FileGraphCorrect`, `TangleGraphCorrect` and
`OrderCorrect` follow; together they discharge what `Make` assumes of ts.dep, and that tangles are
disjoint and not empty what `Driver` assumes of a layout.

`DriverProofs`, from `DriverAssumption` (the bounds are numbers, those of the
revisions positive; a layout groups the files into disjoint, nonempty tangles) -
for every layout, any number of
builds and of revisions: the type invariant and the five properties of the
`driver` and `driver_ends` runs. A build directory outlives its builds, so the
invariant has two halves. Of the directory, whatever came before: one .bc and
one .ast for a tangle, none newer than the sources, an .ast with a .bc at least
as new (`FilesInv`), and a cache that holds what was last written to it
(`CacheInv`). Of the build under way: what the tangles it has done with have
left (`CompiledInv`), what is there at all when the directory was empty at its
beginning (`FreshInv`), and that code and interface are of the same tree when no
other build came by (`PristineInv`). The properties about linking and bundling
speak of one step and follow from the invariant before it. In proving
`PlainBuildRepeatsLast` the induction failed for a cache that an earlier kill
had left empty: with two builds TLC cannot reach it, with three it does, and the
property names that case.

`CompilerProofs`, which assumes nothing of the constants - for any sources and
inputs: `AstIsComplete`, `CodeIsResolved`, `FailureKeepsInterface` and the refinement
of `Compilation`. No stage asks which others have
run, so what it finds depends on its place in the mode. The invariant follows
the default mode and says what holds once `at` is past a stage (`AfterFront`,
`AfterBack`); of every other mode it says that it has no stage that writes
(`ShortModes`). The refinement has one step for each output and one for the
end; every other stage stutters.

`ResolutionProofs`, from `ProgramAssumption` (`WellFormed`: operands come before
what uses them and are of the same text; a variable's specifier is in the same
text or in the program's) - for every such program, and so for any nesting of calls
and any number of templates: `SuccessIsComplete`, `AbortHasCulprit` and
`ShallowProgramsAreResolved`. The stage
decides by counting, and three things escape the count: the nodes that a pass
adds, a variable bound without a type, and an expression that is silent because
its operand has none. The invariant says what a pass has seen when its count is
0 and it asks for nothing (`SpecsInv`, `SymbolsInv`), and who is to blame when
what was bound earlier has no type (`KnownInv`). The argument goes along the
order of the visit: an operand is resolved because it comes earlier in the same
pass; that the counts were of the same tree follows from the coupling of the two
flags in `Settle` (`StageInv`). That the loop does not give up on a shallow
program is a claim about its progress, and its invariant (`ShallowInv`) goes by
rounds: the first pass over types counts less than the total begins with
(`Early`); the pass over symbols after it resolves all of the program's own text
but for the calls of templates (`FirstSymbols`); and from then on no pass counts
anything (`Later`), so each one is complete or asks for an instance, which is
progress. `Shallow` asks for what the code demands of the types too, and no more:
that callees are functions, that what is added up are numbers, and that what is
assigned to is a variable (`Fits`).

`RankingProofs`, from nothing but that the candidates are finitely many - for any
number of candidates and of arguments: `filterByFuncDeductConv` compares each
candidate with each other and drops what is beaten; what it leaves is not empty,
tied, and better than all that it drops, so neither the order of the candidates
nor that of the comparisons matters (`FilterKeepsTheBest`). The comparison is a
strict order that only equals are tied in (`BeatsIsOrder`), and the one that the
fewest candidates beat is beaten by none. The vectors it compares, the worst rank
first, stand for how often each rank is needed (`RankingIsByNeed`), which is what
`CalleeIsBest` compares the callee with. The two filters that follow,
`filterByScope` and the one by the number of typenames, look only at what is left;
`CalleeIsPreferred` says that the callee is still the one to be preferred among
all the candidates, and that a call with candidates fails only for a tie in the
last filter. Its hypothesis is that the relation of scopes is transitive and that
nothing hides itself, which leaves out two methods of one class that need the
same: these beat each other. That case stays with `CalleeIsBest`. (In stating the
theorem, the pairwise preference that the property used before was found to be too
strict: a candidate that is hidden by a third need not be outdone.) That the
sorting puts the worst rank first is taken from `std::sort`.

Why the loops end. Liveness is out of the prover's reach, but what it rests on is
not: a measure, a tuple of numbers compared from the left, that each step lowers.
`Measures!NothingFallsForever` is that no such tuple falls forever, and four
theorems that each step of a component, other than those of its environment,
lowers the measure of that component. A component can thus only come to its end or
to a stop before it. That some step is always enabled until the end, so that weak
fairness leads there, is what the properties `Terminates` and `EveryBuildEnds` add,
and TLC checks it on the instances.

- `MakeProofs!StageEnds`: what is left of the main thread, then of the commands,
  then of the messages. Commands may fail.
- `DepProofs!WalkEnds`: the stage, the files whose imports are not yet edges, the
  files of the command line, what the active calls have still to visit, the depth
  of the stack.
- `DriverProofs!BuildsEnd`: the steps of the build, the tangles without .bc, those
  without .ast. A kill and a failed step lower it too, and during a build the
  only steps that do not are the user's edits, which leave it as it is.
- `ResolutionProofs!LoopEnds`: what can still be counted down, instantiated or
  converted, the rounds that are left without that, the stage of the round, the
  nodes not yet visited. That a round which goes on has made progress is the code's
  own criterion; the theorem is that this progress is bounded.

`Make` and `Driver` need that there are finitely many tangles, which the others
have in their assumptions.

How the components fit. `MakeProofs!DriverCanRely` and
`DriverProofs!RunsCompilations` say of both that they implement `Compilations`,
for the same tangles: the first of ts-make, with its messages and the order that
they enforce, that it does nothing else; the second of the driver, with kills and
failing tools, that it expects nothing else. For the first, the main thread has
returned only after the last command (`CompletionCorrect`), so that nothing is
written behind the driver's back; an .ast is written by the command that has
written the .bc, and no command runs again.

Only model-checked:

- the liveness properties (`Terminates`, `EveryBuildEnds`) themselves: they need
  what is enabled, which is out of the prover's reach;
- `Transform` and `Backend`, all their invariants and action properties, which reach
  recursive operators and are about what these compute for any tree. `Ranking` is
  the part of the latter that can be proved about, and for that a module of its
  own.

## 6. What is not modelled

The checks of single nodes (attributes, initializers, visibility, static tests),
literals, casts and types in code, debug information and the global dispatcher;
function types as arguments of calls; the virtual machine launcher, the stub
generator, the strip tool and the archive of a bundle. Left out for good: grammar
and wording of messages, the printing visitors, the Doxygen documentation
command, the creation of a project skeleton, TBB, Boost, LLVM and the archive
library themselves.
