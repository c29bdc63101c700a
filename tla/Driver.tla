-------------------------------- MODULE Driver --------------------------------
(***************************************************************************)
(* tsc: ThorScriptDriver.  A build runs ts-bundle, ts-dep, ts-make and     *)
(* ts-link one after the other over a build directory that is never        *)
(* cleaned: each tool finds what the earlier ones left there, in this      *)
(* invocation or in any before.  ts-dep is summarised by the tangles of    *)
(* the source tree (Dep.tla) and ts-make by its compilations, in any order *)
(* and with any of them failing (Make.tla).                                *)
(*                                                                         *)
(* The user edits the sources and replaces the imported bundle at any      *)
(* time, also during a build, and an invocation may be killed anywhere.    *)
(***************************************************************************)
EXTENDS Naturals, FiniteSets

CONSTANTS
  Layouts,  \* how the files may group into tangles (sets of sets of files)
  MaxRev,   \* bound: revisions of the source tree
  MaxLib,   \* bound: revisions of the imported bundle
  MaxBuilds \* bound: builds

Tangles == UNION Layouts
Modes   == {"debug", "release"}

ASSUME DriverAssumption ==
  /\ MaxRev \in Nat \ {0} /\ MaxLib \in Nat \ {0} /\ MaxBuilds \in Nat
  /\ \A l \in Layouts : l # {} /\ {} \notin l
                        /\ \A t, u \in l : t = u \/ t \cap u = {}

\* What one compilation writes: for which tangle, of which source revision,
\* against which revision of the imported bundle; and how, for the .bc.
Interface == [tangle : Tangles, rev : 1..MaxRev, lib : 1..MaxLib]
Code      == [tangle : Tangles, rev : 1..MaxRev, lib : 1..MaxLib, mode : Modes]

VARIABLES
  source,    \* src/: its revision and tangles
  lib,       \* revision of the bundle the manifest names
  (* the build directory *)
  cache,     \* the file `cache'
  unpacked,  \* revisions whose .ast is in the directory of the bundle
  dep,       \* ts.dep: the tangles, and the .ast chosen for the bundle
  bc, ast,   \* the .bc and .ast files of tangles
  stub,      \* stub-NAME.ast: what was merged into it
  so,        \* bin/NAME.so: the code linked into it
  bundle,    \* bin/NAME.bundle: the code and the interfaces packed into it
  (* the invocation *)
  pc,        \* the next step of the driver
  plain,     \* it is `tsc build' without a configuration
  config,    \* the configuration
  mode,      \* buildType of ts-make
  left,      \* tangles ts-make has still to compile
  half,      \* tangles with the .bc written and the .ast not
  exit,      \* how the last invocation ended
  (* history, for the properties *)
  began,     \* source revision and bundle revision when the build began
  fresh,     \* the build directory was empty then
  missed,    \* tangles whose compilation has failed in this build
  failed,    \* a tool of the last invocation has failed
  pristine,  \* one complete build and nothing else since the last clean
  last,      \* configuration last written to the cache, and not lost since
  builds     \* builds begun

buildDir == <<cache, unpacked, dep, bc, ast, stub, so, bundle>>
process  == <<plain, config, mode, left, half>>
history  == <<began, fresh, missed, failed, pristine, last, builds>>
vars     == <<source, lib, buildDir, pc, process, exit, history>>

\* A process that has ended keeps nothing.
Ended ==
  /\ pc' = "idle"
  /\ plain' = FALSE /\ config' = "debug" /\ mode' = "debug"
  /\ left' = {} /\ half' = {}
  /\ began' = [rev |-> 1, lib |-> 1] /\ fresh' = TRUE /\ missed' = {}

NoDep    == [tangles |-> {}, lib |-> 1]
NoBundle == [code |-> {}, interface |-> {}]

\* Writing a file replaces what it was.
Write(dir, file) == {x \in dir : x.tangle # file.tangle} \cup {file}

-------------------------------------------------------------------------------
(* The user *)

Init ==
  /\ source \in [rev : {1}, tangles : Layouts]
  /\ lib = 1
  /\ cache = "none" /\ unpacked = {} /\ dep = NoDep
  /\ bc = {} /\ ast = {} /\ stub = {} /\ so = {} /\ bundle = NoBundle
  /\ pc = "idle" /\ exit = "none"
  /\ plain = FALSE /\ config = "debug" /\ mode = "debug" /\ left = {} /\ half = {}
  /\ began = [rev |-> 1, lib |-> 1]
  /\ fresh = TRUE /\ missed = {} /\ failed = FALSE /\ pristine = FALSE
  /\ last = "none" /\ builds = 0

EditSource ==
  /\ source.rev < MaxRev
  /\ source' \in [rev : {source.rev + 1}, tangles : Layouts]
  /\ UNCHANGED <<lib, buildDir, pc, process, exit, history>>

ReplaceBundle ==
  /\ lib < MaxLib
  /\ lib' = lib + 1
  /\ UNCHANGED <<source, buildDir, pc, process, exit, history>>

\* The build directory is removed; setProjectPathAndBuildPath makes a new one.
Clean ==
  /\ pc = "idle"
  /\ cache' = "none" /\ unpacked' = {} /\ dep' = NoDep
  /\ bc' = {} /\ ast' = {} /\ stub' = {} /\ so' = {} /\ bundle' = NoBundle
  /\ pristine' = FALSE /\ last' = "none"
  /\ UNCHANGED <<source, lib, pc, process, exit, began, fresh, missed, failed,
                 builds>>

-------------------------------------------------------------------------------
(* tsc build *)

Begin(isPlain, configuration) ==
  /\ pc = "idle" /\ builds < MaxBuilds
  /\ builds' = builds + 1
  /\ pc' = "saveCache"
  /\ plain' = isPlain
  /\ config' = configuration
  /\ exit' = "none"
  /\ began' = [rev |-> source.rev, lib |-> lib]
  /\ fresh' = (bc = {} /\ ast = {} /\ stub = {} /\ unpacked = {})
  /\ missed' = {} /\ failed' = FALSE /\ pristine' = FALSE
  /\ UNCHANGED <<source, lib, buildDir, mode, left, half, last>>

\* buildDebug and buildRelease from the command line.
BuildConfiguration(configuration) == Begin(FALSE, configuration)

\* (mutant of Cached: the contents of the file, whatever they are)
CachedAsItIs == cache

\* (mutant of Cached: release, unless the last build was debug)
CachedUnlessDebug == IF cache = "debug" THEN "debug" ELSE "release"

\* readCache: without a file, and with any contents but "release", debug.
Cached == IF cache = "release" THEN "release" ELSE "debug"

BuildPlain == Begin(TRUE, Cached)

\* saveCache opens the file, which truncates it ...
TruncateCache ==
  /\ pc = "saveCache"
  /\ cache' = "empty"
  /\ pc' = "writeCache"
  /\ UNCHANGED <<source, lib, unpacked, dep, bc, ast, stub, so, bundle, process,
                 exit, history>>

\* ... and its contents are written when it is closed.
WriteCache ==
  /\ pc = "writeCache"
  /\ cache' = config
  /\ last' = config
  /\ pc' = "unbundle"
  /\ UNCHANGED <<source, lib, unpacked, dep, bc, ast, stub, so, bundle, process,
                 exit, began, fresh, missed, failed, pristine, builds>>

\* The .ast in a bundle has a random name: what an earlier revision of the
\* bundle left in the directory stays there.
Unbundle ==
  /\ pc = "unbundle"
  /\ unpacked' = unpacked \cup {lib}
  /\ pc' = "dep"
  /\ UNCHANGED <<source, lib, cache, dep, bc, ast, stub, so, bundle, process, exit,
                 history>>

\* ts-dep takes the first .ast that the directory of the bundle lists.
RunDep ==
  /\ pc = "dep"
  /\ \E l \in unpacked : dep' = [tangles |-> source.tangles, lib |-> l]
  /\ pc' = "make"
  /\ UNCHANGED <<source, lib, cache, unpacked, bc, ast, stub, so, bundle, process,
                 exit, history>>

\* (mutant of BuildType: --debug is not passed on either)
BuildTypeUnset(configuration) == Modes

\* A release build gives ts-make neither --debug nor --release, and buildType
\* is not initialised: it is whatever the memory holds.
BuildType(configuration) == IF configuration = "debug" THEN {"debug"} ELSE Modes

StartMake ==
  /\ pc = "make"
  /\ mode' \in BuildType(config)
  /\ left' = dep.tangles
  /\ half' = {}
  /\ pc' = "compile"
  /\ UNCHANGED <<source, lib, buildDir, plain, config, exit, history>>

\* (mutant of EmitBc: the .ast is written before the .bc)
EmitAstFirst(t) ==
  /\ pc = "compile" /\ t \in left
  /\ ast' = Write(ast, [tangle |-> t, rev |-> source.rev, lib |-> dep.lib])
  /\ left' = left \ {t}
  /\ half' = half \cup {t}
  /\ UNCHANGED <<source, lib, cache, unpacked, dep, bc, stub, so, bundle, pc, plain,
                 config, mode, exit, history>>

\* (mutant of EmitBc: a tangle that has a .bc is not compiled again)
EmitBcOnce(t) ==
  /\ pc = "compile" /\ t \in left
  /\ bc' = IF \E c \in bc : c.tangle = t THEN bc
            ELSE Write(bc, [tangle |-> t, rev |-> source.rev, lib |-> dep.lib,
                            mode |-> mode])
  /\ left' = left \ {t}
  /\ half' = half \cup {t}
  /\ UNCHANGED <<source, lib, cache, unpacked, dep, ast, stub, so, bundle, pc, plain,
                 config, mode, exit, history>>

\* The compilation reads the sources and writes the .bc ...
EmitBc(t) ==
  /\ pc = "compile" /\ t \in left
  /\ bc' = Write(bc, [tangle |-> t, rev |-> source.rev, lib |-> dep.lib, mode |-> mode])
  /\ left' = left \ {t}
  /\ half' = half \cup {t}
  /\ UNCHANGED <<source, lib, cache, unpacked, dep, ast, stub, so, bundle, pc, plain,
                 config, mode, exit, history>>

\* ... and then, if nothing goes wrong, the .ast of the same tree.
EmitAst(t) ==
  /\ pc = "compile" /\ t \in half
  /\ \E c \in bc :
       /\ c.tangle = t
       /\ ast' = Write(ast, [tangle |-> t, rev |-> c.rev, lib |-> c.lib])
  /\ half' = half \ {t}
  /\ UNCHANGED <<source, lib, cache, unpacked, dep, bc, stub, so, bundle, pc, plain,
                 config, mode, left, exit, history>>

\* ts-make does not look at the result.
CompileFails(t) ==
  /\ pc = "compile" /\ t \in left \cup half
  /\ left' = left \ {t}
  /\ half' = half \ {t}
  /\ missed' = missed \cup {t}
  /\ UNCHANGED <<source, lib, buildDir, pc, plain, config, mode, exit, began, fresh,
                 failed, pristine, last, builds>>

\* (mutant of FinishMake: ts-make comes to an end only if all is compiled)
FinishIfAllCompiled ==
  /\ pc = "compile" /\ left = {} /\ half = {} /\ missed = {}
  /\ pc' = "link"
  /\ UNCHANGED <<source, lib, buildDir, process, exit, history>>

FinishMake ==
  /\ pc = "compile" /\ left = {} /\ half = {}
  /\ pc' = "link"
  /\ UNCHANGED <<source, lib, buildDir, process, exit, history>>

\* ts-link is given every .bc of the build directory.
Link ==
  /\ pc = "link" /\ bc # {}
  /\ so' = bc
  /\ Ended
  /\ exit' = "ok"
  /\ pristine' = (fresh /\ missed = {})
  /\ UNCHANGED <<source, lib, cache, unpacked, dep, bc, ast, stub, bundle, failed,
                 last, builds>>

\* A tool does not exit with 0; build() returns true all the same.
StepFails ==
  /\ pc \in {"unbundle", "dep", "make", "link"}
  /\ Ended
  /\ failed' = TRUE
  /\ exit' = IF plain THEN "ok" ELSE "failed"
  /\ UNCHANGED <<source, lib, buildDir, pristine, last, builds>>

Killed ==
  /\ pc # "idle"
  /\ Ended
  /\ failed' = TRUE
  /\ exit' = "killed"
  /\ last' = IF pc = "writeCache" THEN "none" ELSE last
  /\ UNCHANGED <<source, lib, buildDir, pristine, builds>>

-------------------------------------------------------------------------------
(* tsc generate *)

\* The .ast files of the build directory are merged, the stub's own included.
GenerateStub ==
  /\ pc = "idle"
  /\ stub' = stub \cup ast
  /\ exit' \in {"ok", "failed"}
  /\ failed' = (exit' = "failed")
  /\ pristine' = FALSE
  /\ UNCHANGED <<source, lib, cache, unpacked, dep, bc, ast, so, bundle, pc, process,
                 began, fresh, missed, last, builds>>

\* The code that can be linked into one module: two files may define the same
\* function if their tangles have a source file in common.
Linked(files) ==
  {files} \cup (IF \A c, d \in files : c.tangle = d.tangle \/ c.tangle \cap d.tangle = {}
                  THEN {} ELSE {{}})

\* (mutant of GenerateBundle: the interfaces are taken from the stub)
GenerateBundleOfStub ==
  /\ pc = "idle"
  /\ \E code \in Linked(bc) : bundle' = [code |-> code, interface |-> stub]
  /\ exit' = "ok" /\ failed' = FALSE
  /\ UNCHANGED <<source, lib, cache, unpacked, dep, bc, ast, stub, so, pc, process,
                 began, fresh, missed, pristine, last, builds>>

\* getMergeBitCodeBuffer gives up on an error of the linker without saying so:
\* the bundle is made without code.
GenerateBundle ==
  /\ pc = "idle"
  /\ \E code \in Linked(bc) :
       bundle' = [code |-> code, interface |-> ast \cup stub]
  /\ exit' = "ok" /\ failed' = FALSE
  /\ UNCHANGED <<source, lib, cache, unpacked, dep, bc, ast, stub, so, pc, process,
                 began, fresh, missed, pristine, last, builds>>

GenerateBundleFails ==
  /\ pc = "idle"
  /\ exit' = "failed" /\ failed' = TRUE
  /\ UNCHANGED <<source, lib, buildDir, pc, process, began, fresh, missed, pristine,
                 last, builds>>

-------------------------------------------------------------------------------

Compile == \E t \in Tangles : EmitBc(t) \/ EmitAst(t) \/ CompileFails(t)

Step ==
  \/ TruncateCache \/ WriteCache \/ Unbundle \/ RunDep \/ StartMake \/ Compile
  \/ FinishMake \/ Link \/ StepFails

Next ==
  \/ EditSource \/ ReplaceBundle \/ Clean
  \/ BuildPlain \/ \E c \in Modes : BuildConfiguration(c)
  \/ Step \/ Killed
  \/ GenerateStub \/ GenerateBundle \/ GenerateBundleFails

\* The tools come to an end, and the driver waits for them.
Spec == Init /\ [][Next]_vars /\ WF_vars(Step)

-------------------------------------------------------------------------------
(* Properties *)

TypeOK ==
  /\ source \in [rev : 1..MaxRev, tangles : Layouts]
  /\ lib \in 1..MaxLib
  /\ cache \in Modes \cup {"none", "empty"}
  /\ unpacked \subseteq 1..MaxLib
  /\ dep \in [tangles : Layouts \cup {{}}, lib : 1..MaxLib]
  /\ bc \subseteq Code /\ ast \subseteq Interface /\ stub \subseteq Interface
  /\ so \subseteq Code
  /\ bundle.code \subseteq Code /\ bundle.interface \subseteq Interface
  /\ pc \in {"idle", "saveCache", "writeCache", "unbundle", "dep", "make",
             "compile", "link"}
  /\ plain \in BOOLEAN /\ config \in Modes /\ mode \in Modes
  /\ left \subseteq Tangles /\ half \subseteq Tangles
  /\ exit \in {"none", "ok", "failed", "killed"}
  /\ began \in [rev : 1..MaxRev, lib : 1..MaxLib]
  /\ fresh \in BOOLEAN /\ failed \in BOOLEAN /\ pristine \in BOOLEAN
  /\ missed \subseteq Tangles
  /\ last \in Modes \cup {"none"} /\ builds \in 0..MaxBuilds

\* Old code is linked for two reasons only: its tangle could not be compiled in
\* this build, or the imports have changed and the tangle is no more.  All
\* else in the shared object is at least as new as the sources were when the
\* build began, in debug mode if that was asked for, and no tangle is left out.
OldCodeIsExplained ==
  [][so' # so /\ pc = "link" =>
       /\ \A c \in so' :
            \/ c.tangle \in missed
            \/ c.tangle \notin dep.tangles
            \/ c.rev >= began.rev /\ (config = "debug" => c.mode = "debug")
       /\ \A t \in dep.tangles \ missed : \E c \in so' : c.tangle = t]_vars

\* A build in an empty directory links the tangles of this source tree and
\* nothing else, and has been compiled against the bundle of this manifest.
CleanDirectoryBuildIsExact ==
  [][pc = "link" /\ fresh /\ exit' = "ok" /\ ~failed' =>
       /\ \A c \in so' :
            /\ c.tangle \in dep.tangles
            /\ c.rev >= began.rev
            /\ c.lib >= began.lib
            /\ config = "debug" => c.mode = "debug"
       /\ \A c, d \in so' : c = d \/ c.tangle \cap d.tangle = {}]_vars

\* The .ast of a tangle, and what is merged from it into the stub, is never
\* ahead of the .bc: wherever a build is killed or fails, who compiles against
\* an interface finds code as new as it.
InterfaceIsNotAheadOfCode ==
  \A a \in ast \cup stub : \E c \in bc : c.tangle = a.tangle /\ c.rev >= a.rev

\* After one complete build of an empty directory, a bundle has exactly the
\* code that is in the shared object, and for each piece of code its interface
\* of the same source revision.
BundleIsExact ==
  [][bundle' # bundle /\ pristine /\ pristine' =>
       /\ bundle'.code = so
       /\ {<<a.tangle, a.rev, a.lib>> : a \in bundle'.interface}
            = {<<c.tangle, c.rev, c.lib>> : c \in so}]_vars

\* `tsc build' builds the configuration that was last written to the cache;
\* only if no build has written it, or one has been killed since while it wrote
\* the cache, does it fall back to debug.
PlainBuildRepeatsLast ==
  pc # "idle" /\ plain => config = IF last = "release" THEN "release" ELSE "debug"

\* Every invocation ends.
EveryBuildEnds == pc # "idle" ~> pc = "idle"

\* The help text of tsc: `tsc build' "will equal to tsc build release", if that
\* was the last; so it should end like it when a step fails.
PlainBuildReportsFailure == pc = "idle" /\ exit = "ok" => ~failed

\* The help text of tsc: `tsc build release' generates the shared object "in
\* release mode".
ReleaseBuildIsRelease ==
  pc = "link" /\ config = "release" =>
    \A t \in dep.tangles \ missed : \A c \in bc : c.tangle = t => c.mode = "release"
===============================================================================
