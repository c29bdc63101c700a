----------------------------- MODULE DriverProofs -----------------------------
(***************************************************************************)
(* Proofs about Driver, for every way in which the files may group into    *)
(* tangles and for any number of builds and revisions.                     *)
(*                                                                         *)
(* The build directory outlives every build, so the invariant has two      *)
(* halves.  What holds of the directory whatever came before: a tangle has *)
(* one .bc and one .ast, none of them newer than the sources, the .ast     *)
(* with a .bc as new as it (FilesInv), and the file `cache' holds what     *)
(* was last written to it (CacheInv).  And what a build knows of the       *)
(* tangles it has done with: that no old .bc is left of them (CompiledInv),*)
(* that nothing else is there if the directory was empty (FreshInv), and   *)
(* that every .bc then has the .ast of the same tree (PristineInv).        *)
(***************************************************************************)
EXTENDS Driver, Measures

\* The file `cache' has the configuration last written, or nothing of use.
CacheInv ==
  /\ cache \in Modes => last = cache
  /\ cache = "none" => last = "none"
  /\ cache = "empty" => pc = "writeCache" \/ last = "none"
  /\ pc = "writeCache" => cache = "empty"
  /\ PlainBuildRepeatsLast

\* One .bc and one .ast for a tangle, and never from the future.
FilesInv ==
  /\ \A c, d \in bc : c.tangle = d.tangle => c = d
  /\ \A a, b \in ast : a.tangle = b.tangle => a = b
  /\ \A c \in bc : c.rev <= source.rev
  /\ InterfaceIsNotAheadOfCode

\* The build under way, and the tangles it has done with.
CompiledInv ==
  /\ pc # "idle" => /\ exit = "none"
                    /\ began.rev <= source.rev
                    /\ began.lib <= lib
  /\ pc \in {"compile", "link"} =>
       /\ left \subseteq dep.tangles /\ half \subseteq dep.tangles \ left
       /\ config = "debug" => mode = "debug"
       /\ \A t \in dep.tangles \ (left \cup missed) :
            /\ \E c \in bc : c.tangle = t
            /\ \A c \in bc : c.tangle = t =>
                 c.rev >= began.rev /\ (config = "debug" => c.mode = "debug")
  /\ pc = "link" => left = {} /\ half = {}

\* The build of an empty directory.
FreshInv ==
  pc # "idle" /\ fresh =>
    /\ stub = {}
    /\ pc \notin {"compile", "link"} => bc = {} /\ ast = {}
    /\ pc \in {"saveCache", "writeCache", "unbundle"} => unpacked = {}
    /\ \A l \in unpacked : l >= began.lib
    /\ pc \in {"make", "compile", "link"} => dep.lib >= began.lib
    /\ \A c \in bc : /\ c.tangle \in dep.tangles \ left
                     /\ c.rev >= began.rev
                     /\ c.lib >= began.lib
                     /\ config = "debug" => c.mode = "debug"

\* What a .bc and an .ast of one tree have in common.
TreeOf(x) == <<x.tangle, x.rev, x.lib>>

\* The .bc files with an .ast, and those that are not yet half written.
PristineInv ==
  /\ pc # "idle" => ~pristine
  /\ pc \in {"compile", "link"} /\ fresh /\ missed = {} =>
       /\ \A a \in ast : a.tangle \notin half /\ \E c \in bc : TreeOf(c) = TreeOf(a)
       /\ \A c \in bc : c.tangle \notin half => \E a \in ast : TreeOf(a) = TreeOf(c)
  /\ pristine =>
       /\ stub = {}
       /\ so = bc
       /\ \A c, d \in bc : c.tangle = d.tangle \/ c.tangle \cap d.tangle = {}
       /\ \A a \in ast : \E c \in bc : TreeOf(c) = TreeOf(a)
       /\ \A c \in bc : \E a \in ast : TreeOf(a) = TreeOf(c)

IInv == TypeOK /\ CacheInv /\ FilesInv /\ CompiledInv /\ FreshInv /\ PristineInv

-------------------------------------------------------------------------------
(* Type correctness *)

\* The first revisions are within their bounds.
LEMMA Bounds == /\ MaxRev \in Nat /\ MaxLib \in Nat /\ MaxBuilds \in Nat
                /\ 1 \in 1..MaxRev /\ 1 \in 1..MaxLib
  BY DriverAssumption

LEMMA NoDepType == NoDep \in [tangles : Layouts \cup {{}}, lib : 1..MaxLib]
  BY Bounds DEF NoDep

LEMMA NoBundleType == /\ NoBundle.code \subseteq Code
                      /\ NoBundle.interface \subseteq Interface
  BY DEF NoBundle

LEMMA BeganType ==
  ASSUME NEW r \in 1..MaxRev, NEW l \in 1..MaxLib
  PROVE  [rev |-> r, lib |-> l] \in [rev : 1..MaxRev, lib : 1..MaxLib]
  OBVIOUS

LEMMA InitTypeOK == Init => TypeOK
<1> SUFFICES ASSUME Init PROVE TypeOK
  OBVIOUS
<1>1. source \in [rev : 1..MaxRev, tangles : Layouts]
  BY Bounds DEF Init
<1>2. dep \in [tangles : Layouts \cup {{}}, lib : 1..MaxLib]
  BY NoDepType DEF Init
<1>3. began \in [rev : 1..MaxRev, lib : 1..MaxLib]
  BY Bounds, BeganType DEF Init
<1>4. bundle.code \subseteq Code /\ bundle.interface \subseteq Interface
  BY NoBundleType DEF Init
<1>5. builds \in 0..MaxBuilds /\ lib \in 1..MaxLib
  BY Bounds DEF Init
<1>6. fresh \in BOOLEAN /\ failed \in BOOLEAN /\ pristine \in BOOLEAN /\ plain \in BOOLEAN
  BY DEF Init
<1> QED
  BY <1>1, <1>2, <1>3, <1>4, <1>5, <1>6 DEF Init, TypeOK, Modes

\* What the user and the command line do.
LEMMA UserTypeOK ==
  ASSUME TypeOK,
         \/ EditSource \/ ReplaceBundle \/ Clean \/ BuildPlain
         \/ \E c \in Modes : BuildConfiguration(c)
  PROVE  TypeOK'
<1> USE Bounds DEF TypeOK, buildDir, process, history
<1>1. CASE EditSource
  BY <1>1 DEF EditSource
<1>2. CASE ReplaceBundle
  BY <1>2 DEF ReplaceBundle
<1>3. CASE Clean
  BY <1>3, NoDepType, NoBundleType DEF Clean
<1>4. ASSUME NEW p \in BOOLEAN, NEW c \in Modes, Begin(p, c)
      PROVE  TypeOK'
  <2>1. fresh' \in BOOLEAN
    BY <1>4, Zenon DEF Begin
  <2>2. began' \in [rev : 1..MaxRev, lib : 1..MaxLib]
    BY <1>4, BeganType DEF Begin
  <2>3. builds' \in 0..MaxBuilds /\ pc' = "saveCache" /\ exit' = "none"
    BY <1>4 DEF Begin
  <2>4. /\ plain' \in BOOLEAN /\ config' \in Modes /\ missed' \subseteq Tangles
        /\ failed' \in BOOLEAN /\ pristine' \in BOOLEAN
    BY <1>4 DEF Begin
  <2>5. UNCHANGED <<source, lib, buildDir, mode, left, half, last>>
    BY <1>4, Zenon DEF Begin
  <2> QED
    BY <2>1, <2>2, <2>3, <2>4, <2>5
<1>5. CASE BuildPlain
  <2>1. Cached \in Modes
    BY DEF Cached, Modes
  <2> QED
    BY <1>4, <1>5, <2>1 DEF BuildPlain
<1>6. CASE \E c \in Modes : BuildConfiguration(c)
  BY <1>4, <1>6 DEF BuildConfiguration
<1> QED
  BY <1>1, <1>2, <1>3, <1>5, <1>6

\* A process that ends leaves its variables at values of their types.
LEMMA EndedType ==
  ASSUME Ended
  PROVE  /\ pc' = "idle" /\ plain' \in BOOLEAN /\ config' \in Modes /\ mode' \in Modes
         /\ left' \subseteq Tangles /\ half' \subseteq Tangles
         /\ began' \in [rev : 1..MaxRev, lib : 1..MaxLib]
         /\ fresh' \in BOOLEAN /\ missed' \subseteq Tangles
BY Bounds, BeganType DEF Ended, Modes

LEMMA CompileTypeOK ==
  ASSUME TypeOK, NEW t \in Tangles, EmitBc(t) \/ EmitAst(t) \/ CompileFails(t)
  PROVE  TypeOK'
<1> USE DEF TypeOK, buildDir, history, process
<1>1. CASE EmitBc(t)
  <2>1. [tangle |-> t, rev |-> source.rev, lib |-> dep.lib, mode |-> mode] \in Code
    BY DEF Code
  <2> QED
    BY <1>1, <2>1 DEF EmitBc, Write
<1>2. CASE EmitAst(t)
  <2>1. \A c \in Code : [tangle |-> t, rev |-> c.rev, lib |-> c.lib] \in Interface
    BY DEF Code, Interface
  <2>2. ast' \subseteq Interface
    BY <1>2, <2>1 DEF EmitAst, Write
  <2> QED
    BY <1>2, <2>2 DEF EmitAst
<1>3. CASE CompileFails(t)
  BY <1>3 DEF CompileFails
<1> QED
  BY <1>1, <1>2, <1>3

LEMMA StepTypeOK ==
  ASSUME TypeOK, Step \/ Killed
  PROVE  TypeOK'
<1> USE DEF TypeOK, buildDir, history, process
<1>1. CASE TruncateCache
  BY <1>1 DEF TruncateCache
<1>2. CASE WriteCache
  BY <1>2 DEF WriteCache
<1>3. CASE Unbundle
  BY <1>3 DEF Unbundle
<1>4. CASE RunDep
  <2>1. PICK l \in unpacked : dep' = [tangles |-> source.tangles, lib |-> l]
    BY <1>4 DEF RunDep
  <2>2. dep' \in [tangles : Layouts \cup {{}}, lib : 1..MaxLib]
    BY <2>1
  <2> QED
    BY <1>4, <2>2 DEF RunDep
<1>5. CASE StartMake
  <2>1. dep.tangles \subseteq Tangles
    BY DEF Tangles
  <2>2. mode' \in Modes
    BY <1>5 DEF StartMake, BuildType, Modes
  <2> QED
    BY <1>5, <2>1, <2>2 DEF StartMake
<1>6. CASE Compile
  BY <1>6, CompileTypeOK DEF Compile
<1>7. CASE FinishMake
  BY <1>7 DEF FinishMake
<1>8. CASE Link
  BY <1>8, EndedType DEF Link
<1>9. CASE StepFails
  BY <1>9, EndedType DEF StepFails
<1>10. CASE Killed
  BY <1>10, EndedType DEF Killed
<1> QED
  BY <1>1, <1>2, <1>3, <1>4, <1>5, <1>6, <1>7, <1>8, <1>9, <1>10 DEF Step

LEMMA GenerateTypeOK ==
  ASSUME TypeOK, GenerateStub \/ GenerateBundle \/ GenerateBundleFails
  PROVE  TypeOK'
<1> USE DEF TypeOK, buildDir, history, process
<1>1. CASE GenerateStub
  BY <1>1 DEF GenerateStub
<1>2. CASE GenerateBundle
  <2>1. \A code \in Linked(bc) : code \subseteq bc
    BY DEF Linked
  <2>2. bundle'.code \subseteq Code /\ bundle'.interface \subseteq Interface
    BY <1>2, <2>1 DEF GenerateBundle
  <2> QED
    BY <1>2, <2>2 DEF GenerateBundle
<1>3. CASE GenerateBundleFails
  BY <1>3 DEF GenerateBundleFails
<1> QED
  BY <1>1, <1>2, <1>3

LEMMA NextTypeOK == TypeOK /\ [Next]_vars => TypeOK'
<1> SUFFICES ASSUME TypeOK, [Next]_vars PROVE TypeOK'
  OBVIOUS
<1>1. CASE UNCHANGED vars
  BY <1>1 DEF vars, buildDir, process, history, TypeOK
<1> QED
  BY <1>1, UserTypeOK, StepTypeOK, GenerateTypeOK DEF Next

\* Every variable keeps its type: in particular the configuration and the
\* build type are known ones whatever the cache and the memory hold.
THEOREM TypeCorrect == Spec => []TypeOK
<1> QED
  BY InitTypeOK, NextTypeOK, PTL DEF Spec

-------------------------------------------------------------------------------
(* The configuration of a plain build *)

LEMMA InitCacheInv == Init => CacheInv
  BY DEF Init, CacheInv, PlainBuildRepeatsLast, Modes

LEMMA NextCacheInv == TypeOK /\ CacheInv /\ [Next]_vars => CacheInv'
<1> SUFFICES ASSUME TypeOK, CacheInv, [Next]_vars PROVE CacheInv'
  OBVIOUS
<1> USE DEF CacheInv, PlainBuildRepeatsLast, Modes
<1>1. CASE UNCHANGED vars
  BY <1>1 DEF vars, buildDir, process, history
<1>2. CASE EditSource \/ ReplaceBundle
  BY <1>2 DEF EditSource, ReplaceBundle, buildDir, process, history
<1>3. CASE Clean
  BY <1>3 DEF Clean, process
<1>4. ASSUME NEW c \in Modes, BuildConfiguration(c)
      PROVE  CacheInv'
  BY <1>4 DEF BuildConfiguration, Begin, buildDir
<1>5. CASE BuildPlain
  <2>1. pc = "idle" /\ pc' = "saveCache" /\ config' = Cached /\ UNCHANGED <<cache, last>>
    BY <1>5 DEF BuildPlain, Begin, buildDir
  <2>2. Cached = IF last = "release" THEN "release" ELSE "debug"
    BY <2>1 DEF Cached, TypeOK
  <2> QED
    BY <2>1, <2>2
<1>6. CASE TruncateCache
  BY <1>6 DEF TruncateCache, process, history
<1>7. CASE WriteCache
  BY <1>7 DEF WriteCache, process, TypeOK
<1>8. CASE Unbundle \/ RunDep \/ StartMake \/ FinishMake
  BY <1>8 DEF Unbundle, RunDep, StartMake, FinishMake, buildDir, process, history
<1>9. ASSUME NEW t \in Tangles, EmitBc(t) \/ EmitAst(t) \/ CompileFails(t)
      PROVE  CacheInv'
  BY <1>9 DEF EmitBc, EmitAst, CompileFails, buildDir, history
<1>10. CASE Link \/ StepFails
  BY <1>10 DEF Link, StepFails, Ended, buildDir
<1>11. CASE Killed
  BY <1>11 DEF Killed, Ended, buildDir
<1>12. CASE GenerateStub \/ GenerateBundle \/ GenerateBundleFails
  BY <1>12 DEF GenerateStub, GenerateBundle, GenerateBundleFails, buildDir, process
<1> QED
  BY <1>1, <1>2, <1>3, <1>4, <1>5, <1>6, <1>7, <1>8, <1>9, <1>10, <1>11, <1>12
     DEF Next, Step, Compile

\* `tsc build' repeats the configuration that was last written, unless a build
\* was killed while it wrote the cache; and then it is a debug build.
THEOREM PlainBuildCorrect == Spec => []PlainBuildRepeatsLast
<1>1. Init => TypeOK /\ CacheInv
  BY InitTypeOK, InitCacheInv
<1>2. TypeOK /\ CacheInv /\ [Next]_vars => (TypeOK /\ CacheInv)'
  BY NextTypeOK, NextCacheInv
<1>3. CacheInv => PlainBuildRepeatsLast
  BY DEF CacheInv
<1> QED
  BY <1>1, <1>2, <1>3, PTL DEF Spec

-------------------------------------------------------------------------------
(* Files of the build directory *)

\* Writing a file keeps every other one.
LEMMA WriteFact ==
  ASSUME NEW dir, NEW file, NEW x
  PROVE  x \in Write(dir, file) <=> x = file \/ (x \in dir /\ x.tangle # file.tangle)
BY DEF Write

LEMMA InitFilesInv == Init => FilesInv
  BY DEF Init, FilesInv, InterfaceIsNotAheadOfCode

\* The only writers are the compilations and what merges into the stub.
LEMMA NextFilesInv == TypeOK /\ FilesInv /\ [Next]_vars => FilesInv'
<1> SUFFICES ASSUME TypeOK, FilesInv, [Next]_vars PROVE FilesInv'
  OBVIOUS
<1> USE DEF FilesInv, InterfaceIsNotAheadOfCode
<1>1. CASE UNCHANGED <<source, bc, ast, stub>>
  BY <1>1
<1>2. CASE EditSource
  <2>1. source'.rev = source.rev + 1
    BY <1>2 DEF EditSource
  <2>2. source.rev \in Nat /\ \A c \in bc : c.rev \in Nat
    BY Bounds DEF TypeOK, Code
  <2> QED
    BY <1>2, <2>1, <2>2 DEF EditSource, buildDir
<1>3. CASE Clean
  BY <1>3 DEF Clean
<1>4. ASSUME NEW t \in Tangles, EmitBc(t)
      PROVE  FilesInv'
  <2> DEFINE new == [tangle |-> t, rev |-> source.rev, lib |-> dep.lib, mode |-> mode]
  <2>1. bc' = Write(bc, new) /\ UNCHANGED <<source, ast, stub>>
    BY <1>4 DEF EmitBc
  <2>2. new.tangle = t /\ new.rev = source.rev
    OBVIOUS
  <2> HIDE DEF new
  <2>3. source.rev \in Nat /\ (\A c \in bc : c.rev \in Nat)
                           /\ (\A a \in ast \cup stub : a.rev \in Nat)
    BY Bounds DEF TypeOK, Code, Interface
  <2>4. \A c \in bc' : c.rev <= source.rev
    BY <2>1, <2>2, <2>3, WriteFact
  <2>5. \A c, d \in bc' : c.tangle = d.tangle => c = d
    BY <2>1, <2>2, WriteFact
  <2>6. ASSUME NEW a \in ast \cup stub
        PROVE  \E c \in bc' : c.tangle = a.tangle /\ c.rev >= a.rev
    <3>1. PICK c \in bc : c.tangle = a.tangle /\ c.rev >= a.rev
      OBVIOUS
    <3>2. CASE a.tangle = t
      BY <3>1, <3>2, <2>1, <2>2, <2>3, WriteFact
    <3>3. CASE a.tangle # t
      BY <3>1, <3>3, <2>1, <2>2, WriteFact
    <3> QED
      BY <3>2, <3>3
  <2> QED
    BY <2>1, <2>4, <2>5, <2>6
<1>5. ASSUME NEW t \in Tangles, EmitAst(t)
      PROVE  FilesInv'
  <2>1. PICK c \in bc :
          /\ c.tangle = t
          /\ ast' = Write(ast, [tangle |-> t, rev |-> c.rev, lib |-> c.lib])
    BY <1>5 DEF EmitAst
  <2> DEFINE new == [tangle |-> t, rev |-> c.rev, lib |-> c.lib]
  <2>2. new.tangle = t /\ new.rev = c.rev /\ c.rev \in Nat
    BY Bounds DEF TypeOK, Code
  <2>3. UNCHANGED <<source, bc, stub>> /\ ast' = Write(ast, new)
    BY <1>5, <2>1 DEF EmitAst
  <2> HIDE DEF new
  <2>4. \A a, b \in ast' : a.tangle = b.tangle => a = b
    BY <2>2, <2>3, WriteFact
  <2>5. ASSUME NEW a \in ast' \cup stub
        PROVE  \E d \in bc : d.tangle = a.tangle /\ d.rev >= a.rev
    <3>1. CASE a = new
      BY <3>1, <2>1, <2>2
    <3>2. CASE a \in ast \cup stub
      BY <3>2
    <3> QED
      BY <3>1, <3>2, <2>3, WriteFact
  <2> QED
    BY <2>3, <2>4, <2>5
<1>6. CASE GenerateStub
  BY <1>6 DEF GenerateStub
<1>7. CASE \/ ReplaceBundle \/ BuildPlain \/ \E c \in Modes : BuildConfiguration(c)
           \/ GenerateBundle \/ GenerateBundleFails
  BY <1>1, <1>7 DEF ReplaceBundle, BuildPlain, BuildConfiguration, Begin, GenerateBundle,
                    GenerateBundleFails, buildDir
<1>8. CASE \/ TruncateCache \/ WriteCache \/ Unbundle \/ RunDep \/ StartMake
           \/ FinishMake \/ Link \/ StepFails \/ Killed
  BY <1>1, <1>8 DEF TruncateCache, WriteCache, Unbundle, RunDep, StartMake, FinishMake,
                    Link, StepFails, Killed, buildDir
<1>9. ASSUME NEW t \in Tangles, CompileFails(t)
      PROVE  FilesInv'
  BY <1>1, <1>9 DEF CompileFails, buildDir
<1> QED
  BY <1>1, <1>2, <1>3, <1>4, <1>5, <1>6, <1>7, <1>8, <1>9
     DEF Next, Step, Compile, vars, buildDir

\* Whenever a build stops, an .ast has a .bc that is at least as new: nobody
\* compiles against an interface whose code is not there.
THEOREM InterfaceCorrect == Spec => []InterfaceIsNotAheadOfCode
<1>1. Init => TypeOK /\ FilesInv
  BY InitTypeOK, InitFilesInv
<1>2. TypeOK /\ FilesInv /\ [Next]_vars => (TypeOK /\ FilesInv)'
  BY NextTypeOK, NextFilesInv
<1>3. FilesInv => InterfaceIsNotAheadOfCode
  BY DEF FilesInv
<1> QED
  BY <1>1, <1>2, <1>3, PTL DEF Spec

-------------------------------------------------------------------------------
(* The tangles a build has done with *)

\* Revisions are numbers.
LEMMA Numbers ==
  ASSUME TypeOK
  PROVE  /\ source.rev \in Nat /\ lib \in Nat /\ dep.lib \in Nat
         /\ began.rev \in Nat /\ began.lib \in Nat
         /\ unpacked \subseteq Nat
         /\ \A c \in bc : c.rev \in Nat /\ c.lib \in Nat
         /\ \A a \in ast : a.rev \in Nat /\ a.lib \in Nat
BY Bounds DEF TypeOK, Code, Interface

LEMMA InitCompiledInv == Init => CompiledInv
  BY DEF Init, CompiledInv

\* What the user does to the directory between two builds, and to the sources
\* at any time.
LEMMA UserCompiledInv ==
  ASSUME TypeOK, CompiledInv,
         \/ EditSource \/ ReplaceBundle \/ Clean \/ BuildPlain
         \/ \E c \in Modes : BuildConfiguration(c)
         \/ GenerateStub \/ GenerateBundle \/ GenerateBundleFails
  PROVE  CompiledInv'
<1> USE DEF CompiledInv, buildDir, process, history
<1>1. CASE EditSource
  BY <1>1, Numbers DEF EditSource
<1>2. CASE ReplaceBundle
  BY <1>2, Numbers DEF ReplaceBundle
<1>3. ASSUME NEW p, NEW c, Begin(p, c)
      PROVE  CompiledInv'
  BY <1>3, Numbers DEF Begin
<1>4. CASE Clean \/ GenerateStub \/ GenerateBundle \/ GenerateBundleFails
  BY <1>4 DEF Clean, GenerateStub, GenerateBundle, GenerateBundleFails
<1> QED
  BY <1>1, <1>2, <1>3, <1>4 DEF BuildPlain, BuildConfiguration

\* A compilation is of the sources as they are now, so not older than the build.
LEMMA CompileCompiledInv ==
  ASSUME TypeOK, FilesInv, CompiledInv, NEW t \in Tangles,
         EmitBc(t) \/ EmitAst(t) \/ CompileFails(t)
  PROVE  CompiledInv'
<1> USE DEF CompiledInv
<1>1. CASE EmitBc(t)
  <2> DEFINE new == [tangle |-> t, rev |-> source.rev, lib |-> dep.lib, mode |-> mode]
  <2>1. /\ pc = "compile" /\ t \in left
        /\ bc' = Write(bc, new)
        /\ left' = left \ {t}
        /\ half' = half \cup {t}
        /\ UNCHANGED <<source, lib, dep, pc, config, mode, exit, began, missed>>
    BY <1>1 DEF EmitBc, history
  <2>2. new.tangle = t /\ new.rev = source.rev /\ new.mode = mode
    OBVIOUS
  <2> HIDE DEF new
  <2>3. ASSUME NEW u \in dep.tangles \ (left' \cup missed)
        PROVE  /\ \E c \in bc' : c.tangle = u
               /\ \A c \in bc' : c.tangle = u =>
                    c.rev >= began.rev /\ (config = "debug" => c.mode = "debug")
    <3>1. CASE u = t
      BY <3>1, <2>1, <2>2, WriteFact
    <3>2. CASE u # t
      BY <3>2, <2>1, <2>2, WriteFact
    <3> QED
      BY <3>1, <3>2
  <2> QED
    BY <2>1, <2>3
<1>2. CASE EmitAst(t)
  BY <1>2 DEF EmitAst, history
<1>3. CASE CompileFails(t)
  BY <1>3 DEF CompileFails, buildDir
<1> QED
  BY <1>1, <1>2, <1>3

LEMMA NextCompiledInv == TypeOK /\ FilesInv /\ CompiledInv /\ [Next]_vars => CompiledInv'
<1> SUFFICES ASSUME TypeOK, FilesInv, CompiledInv, [Next]_vars PROVE CompiledInv'
  OBVIOUS
<1> USE DEF buildDir, process, history
<1>1. CASE UNCHANGED vars
  BY <1>1 DEF vars, CompiledInv
<1>2. CASE TruncateCache \/ WriteCache \/ Unbundle \/ RunDep
  BY <1>2 DEF TruncateCache, WriteCache, Unbundle, RunDep, CompiledInv
<1>3. CASE StartMake
  <2>1. config = "debug" => mode' = "debug"
    BY <1>3 DEF StartMake, BuildType
  <2> QED
    BY <1>3, <2>1 DEF StartMake, CompiledInv
<1>4. CASE Compile
  BY <1>4, CompileCompiledInv DEF Compile
<1>5. CASE FinishMake
  BY <1>5 DEF FinishMake, CompiledInv
<1>6. CASE Link \/ StepFails \/ Killed
  BY <1>6 DEF Link, StepFails, Killed, Ended, CompiledInv
<1> QED
  BY <1>1, <1>2, <1>3, <1>4, <1>5, <1>6, UserCompiledInv DEF Next, Step

-------------------------------------------------------------------------------
(* The build of an empty directory *)

LEMMA InitFreshInv == Init => FreshInv
  BY DEF Init, FreshInv

LEMMA UserFreshInv ==
  ASSUME TypeOK, FreshInv,
         \/ EditSource \/ ReplaceBundle \/ Clean \/ BuildPlain
         \/ \E c \in Modes : BuildConfiguration(c)
         \/ GenerateStub \/ GenerateBundle \/ GenerateBundleFails
  PROVE  FreshInv'
<1> USE DEF FreshInv, buildDir, process, history
<1>1. CASE EditSource \/ ReplaceBundle
  BY <1>1 DEF EditSource, ReplaceBundle
<1>2. ASSUME NEW p, NEW c, Begin(p, c)
      PROVE  FreshInv'
  <2>1. pc' = "saveCache" /\ UNCHANGED <<bc, ast, stub, unpacked>>
    BY <1>2 DEF Begin
  <2>2. fresh' => bc = {} /\ ast = {} /\ stub = {} /\ unpacked = {}
    BY <1>2, Zenon DEF Begin
  <2> QED
    BY <2>1, <2>2
<1>3. CASE Clean \/ GenerateStub \/ GenerateBundle \/ GenerateBundleFails
  BY <1>3 DEF Clean, GenerateStub, GenerateBundle, GenerateBundleFails
<1> QED
  BY <1>1, <1>2, <1>3 DEF BuildPlain, BuildConfiguration

LEMMA CompileFreshInv ==
  ASSUME TypeOK, CompiledInv, FreshInv, NEW t \in Tangles,
         EmitBc(t) \/ EmitAst(t) \/ CompileFails(t)
  PROVE  FreshInv'
<1> USE DEF FreshInv
<1>1. CASE EmitBc(t)
  <2> DEFINE new == [tangle |-> t, rev |-> source.rev, lib |-> dep.lib, mode |-> mode]
  <2>1. /\ pc = "compile" /\ t \in left
        /\ bc' = Write(bc, new)
        /\ left' = left \ {t}
        /\ UNCHANGED <<source, lib, unpacked, dep, ast, stub, pc, config, began, fresh>>
    BY <1>1 DEF EmitBc, history
  <2>2. new.tangle = t /\ new.rev = source.rev /\ new.lib = dep.lib /\ new.mode = mode
    OBVIOUS
  <2> HIDE DEF new
  <2>3. /\ t \in dep.tangles /\ source.rev >= began.rev
        /\ config = "debug" => mode = "debug"
    BY <2>1, Numbers DEF CompiledInv
  <2>4. ASSUME fresh, NEW c \in bc'
        PROVE  /\ c.tangle \in dep.tangles \ left'
               /\ c.rev >= began.rev
               /\ c.lib >= began.lib
               /\ config = "debug" => c.mode = "debug"
    <3>1. CASE c = new
      BY <3>1, <2>1, <2>2, <2>3, <2>4
    <3>2. CASE c \in bc
      BY <3>2, <2>1, <2>4
    <3> QED
      BY <3>1, <3>2, <2>1, WriteFact
  <2> QED
    BY <2>1, <2>4
<1>2. CASE EmitAst(t)
  BY <1>2 DEF EmitAst, history
<1>3. CASE CompileFails(t)
  BY <1>3 DEF CompileFails, buildDir
<1> QED
  BY <1>1, <1>2, <1>3

LEMMA NextFreshInv == TypeOK /\ CompiledInv /\ FreshInv /\ [Next]_vars => FreshInv'
<1> SUFFICES ASSUME TypeOK, CompiledInv, FreshInv, [Next]_vars PROVE FreshInv'
  OBVIOUS
<1> USE DEF buildDir, process, history
<1>1. CASE UNCHANGED vars
  BY <1>1 DEF vars, FreshInv
<1>2. CASE TruncateCache \/ WriteCache
  BY <1>2 DEF TruncateCache, WriteCache, FreshInv
<1>3. CASE Unbundle
  BY <1>3, Numbers DEF Unbundle, FreshInv, CompiledInv
<1>4. CASE RunDep
  <2>1. dep'.lib \in unpacked
    BY <1>4 DEF RunDep
  <2> QED
    BY <1>4, <2>1 DEF RunDep, FreshInv
<1>5. CASE StartMake
  BY <1>5 DEF StartMake, FreshInv
<1>6. CASE Compile
  BY <1>6, CompileFreshInv DEF Compile
<1>7. CASE FinishMake
  BY <1>7 DEF FinishMake, FreshInv
<1>8. CASE Link \/ StepFails \/ Killed
  BY <1>8 DEF Link, StepFails, Killed, Ended, FreshInv
<1> QED
  BY <1>1, <1>2, <1>3, <1>4, <1>5, <1>6, <1>7, <1>8, UserFreshInv DEF Next, Step

-------------------------------------------------------------------------------
(* One complete build and nothing else *)

\* Two tangles of one source tree are the same or have no file in common.
LEMMA TanglesAreDisjoint ==
  ASSUME TypeOK, NEW t \in dep.tangles, NEW u \in dep.tangles
  PROVE  t = u \/ t \cap u = {}
BY DriverAssumption DEF TypeOK

LEMMA InitPristineInv == Init => PristineInv
  BY DEF Init, PristineInv

LEMMA UserPristineInv ==
  ASSUME PristineInv,
         \/ EditSource \/ ReplaceBundle \/ Clean \/ BuildPlain
         \/ \E c \in Modes : BuildConfiguration(c)
         \/ GenerateStub \/ GenerateBundle \/ GenerateBundleFails
  PROVE  PristineInv'
<1> USE DEF PristineInv, buildDir, process, history
<1>1. CASE EditSource \/ ReplaceBundle
  BY <1>1 DEF EditSource, ReplaceBundle
<1>2. ASSUME NEW p, NEW c, Begin(p, c)
      PROVE  PristineInv'
  BY <1>2 DEF Begin
<1>3. CASE Clean \/ GenerateStub
  BY <1>3 DEF Clean, GenerateStub
<1>4. CASE GenerateBundle \/ GenerateBundleFails
  BY <1>4 DEF GenerateBundle, GenerateBundleFails
<1> QED
  BY <1>1, <1>2, <1>3, <1>4 DEF BuildPlain, BuildConfiguration

LEMMA CompilePristineInv ==
  ASSUME TypeOK, FilesInv, CompiledInv, FreshInv, PristineInv, NEW t \in Tangles,
         EmitBc(t) \/ EmitAst(t) \/ CompileFails(t)
  PROVE  PristineInv'
<1>1. CASE EmitBc(t)
  <2> DEFINE new == [tangle |-> t, rev |-> source.rev, lib |-> dep.lib, mode |-> mode]
  <2>1. /\ pc = "compile" /\ t \in left
        /\ bc' = Write(bc, new)
        /\ left' = left \ {t} /\ half' = half \cup {t}
        /\ UNCHANGED <<ast, pc, fresh, missed, pristine>>
    BY <1>1 DEF EmitBc, history
  <2>2. new.tangle = t
    OBVIOUS
  <2> HIDE DEF new
  <2>3. fresh => t \notin {c.tangle : c \in bc}
    BY <2>1 DEF FreshInv
  <2>4. ~pristine
    BY <2>1 DEF PristineInv
  <2>5. ASSUME fresh, missed = {}
        PROVE  /\ \A a \in ast : a.tangle \notin half' /\ \E c \in bc' : TreeOf(c) = TreeOf(a)
               /\ \A c \in bc' : c.tangle \notin half' => \E a \in ast : TreeOf(a) = TreeOf(c)
    <3>1. ASSUME NEW a \in ast
          PROVE  a.tangle \notin half' /\ \E c \in bc' : TreeOf(c) = TreeOf(a)
      <4>1. PICK c \in bc : TreeOf(c) = TreeOf(a)
        BY <2>1, <2>5 DEF PristineInv
      <4>2. c.tangle = a.tangle /\ c.tangle # t /\ a.tangle \notin half
        BY <4>1, <2>1, <2>3, <2>5 DEF TreeOf, PristineInv
      <4> QED
        BY <4>1, <4>2, <2>1, <2>2, WriteFact
    <3>2. ASSUME NEW c \in bc', c.tangle \notin half'
          PROVE  \E a \in ast : TreeOf(a) = TreeOf(c)
      BY <3>2, <2>1, <2>2, <2>5, WriteFact DEF PristineInv
    <3> QED
      BY <3>1, <3>2
  <2> QED
    BY <2>1, <2>4, <2>5 DEF PristineInv
<1>2. CASE EmitAst(t)
  <2>1. PICK e \in bc :
          /\ e.tangle = t
          /\ ast' = Write(ast, [tangle |-> t, rev |-> e.rev, lib |-> e.lib])
    BY <1>2 DEF EmitAst
  <2> DEFINE new == [tangle |-> t, rev |-> e.rev, lib |-> e.lib]
  <2>2. new.tangle = t /\ TreeOf(new) = TreeOf(e)
    BY <2>1 DEF TreeOf
  <2>3. /\ pc = "compile" /\ t \in half
        /\ ast' = Write(ast, new)
        /\ half' = half \ {t}
        /\ UNCHANGED <<bc, pc, fresh, missed, pristine>>
    BY <1>2, <2>1 DEF EmitAst, history
  <2> HIDE DEF new
  <2>4. ~pristine
    BY <2>3 DEF PristineInv
  <2>5. ASSUME fresh, missed = {}
        PROVE  /\ \A a \in ast' : a.tangle \notin half' /\ \E c \in bc : TreeOf(c) = TreeOf(a)
               /\ \A c \in bc : c.tangle \notin half' => \E a \in ast' : TreeOf(a) = TreeOf(c)
    <3>1. \A a \in ast' : a.tangle \notin half' /\ \E c \in bc : TreeOf(c) = TreeOf(a)
      BY <2>1, <2>2, <2>3, <2>5, WriteFact DEF PristineInv
    <3>2. ASSUME NEW c \in bc, c.tangle \notin half'
          PROVE  \E a \in ast' : TreeOf(a) = TreeOf(c)
      <4>1. CASE c.tangle = t
        <5>1. c = e
          BY <4>1, <2>1 DEF FilesInv
        <5> QED
          BY <5>1, <2>2, <2>3, WriteFact
      <4>2. CASE c.tangle # t
        <5>1. PICK a \in ast : TreeOf(a) = TreeOf(c)
          BY <3>2, <4>2, <2>3, <2>5 DEF PristineInv
        <5>2. a.tangle # t
          BY <5>1, <4>2 DEF TreeOf
        <5> QED
          BY <5>1, <5>2, <2>2, <2>3, WriteFact
      <4> QED
        BY <4>1, <4>2
    <3> QED
      BY <3>1, <3>2
  <2> QED
    BY <2>3, <2>4, <2>5 DEF PristineInv
<1>3. CASE CompileFails(t)
  <2>1. pc = "compile" /\ missed' # {} /\ UNCHANGED <<pc, pristine>>
    BY <1>3 DEF CompileFails
  <2> QED
    BY <2>1 DEF PristineInv
<1> QED
  BY <1>1, <1>2, <1>3

\* The link of a build of an empty directory in which nothing failed.
LEMMA LinkPristineInv ==
  ASSUME TypeOK, CompiledInv, FreshInv, PristineInv, Link
  PROVE  PristineInv'
<1>1. /\ pc = "link" /\ pc' = "idle" /\ so' = bc /\ UNCHANGED <<bc, ast, stub>>
      /\ pristine' = (fresh /\ missed = {})
  BY DEF Link, Ended
<1>2. half = {}
  BY <1>1 DEF CompiledInv
<1>3. ASSUME fresh, missed = {}
      PROVE  /\ stub = {}
             /\ \A c, d \in bc : c.tangle = d.tangle \/ c.tangle \cap d.tangle = {}
             /\ \A a \in ast : \E c \in bc : TreeOf(c) = TreeOf(a)
             /\ \A c \in bc : \E a \in ast : TreeOf(a) = TreeOf(c)
  <2>1. stub = {} /\ \A c \in bc : c.tangle \in dep.tangles
    BY <1>1, <1>3 DEF FreshInv
  <2>2. \A c, d \in bc : c.tangle = d.tangle \/ c.tangle \cap d.tangle = {}
    BY <2>1, TanglesAreDisjoint
  <2> QED
    BY <1>1, <1>2, <1>3, <2>1, <2>2 DEF PristineInv
<1>4. CASE fresh /\ missed = {}
  BY <1>1, <1>3, <1>4 DEF PristineInv
<1>5. CASE ~(fresh /\ missed = {})
  <2>1. ~pristine'
    BY <1>1, <1>5, Zenon
  <2> QED
    BY <1>1, <2>1 DEF PristineInv
<1> QED
  BY <1>4, <1>5

LEMMA NextPristineInv ==
  TypeOK /\ FilesInv /\ CompiledInv /\ FreshInv /\ PristineInv /\ [Next]_vars => PristineInv'
<1> SUFFICES ASSUME TypeOK, FilesInv, CompiledInv, FreshInv, PristineInv, [Next]_vars
             PROVE  PristineInv'
  OBVIOUS
<1> USE DEF buildDir, process, history
<1>1. CASE UNCHANGED vars
  BY <1>1 DEF vars, PristineInv
<1>2. CASE TruncateCache \/ WriteCache \/ Unbundle \/ RunDep
  BY <1>2 DEF TruncateCache, WriteCache, Unbundle, RunDep, PristineInv
<1>3. CASE StartMake
  BY <1>3 DEF StartMake, FreshInv, PristineInv
<1>4. CASE Compile
  BY <1>4, CompilePristineInv DEF Compile
<1>5. CASE FinishMake
  BY <1>5 DEF FinishMake, PristineInv
<1>6. CASE StepFails \/ Killed
  BY <1>6 DEF StepFails, Killed, Ended, PristineInv
<1> QED
  BY <1>1, <1>2, <1>3, <1>4, <1>5, <1>6, LinkPristineInv, UserPristineInv DEF Next, Step

-------------------------------------------------------------------------------
(* The theorems *)

LEMMA InitIInv == Init => IInv
  BY InitTypeOK, InitCacheInv, InitFilesInv, InitCompiledInv, InitFreshInv, InitPristineInv
     DEF IInv

LEMMA NextIInv == IInv /\ [Next]_vars => IInv'
  BY NextTypeOK, NextCacheInv, NextFilesInv, NextCompiledInv, NextFreshInv, NextPristineInv
     DEF IInv

\* The build directory and the build under way are as the parts of IInv say.
THEOREM Invariance == Spec => []IInv
<1> QED
  BY InitIInv, NextIInv, PTL DEF Spec

\* The shared object is written by ts-link alone.
LEMMA OnlyLinkWritesSo ==
  ASSUME [Next]_vars, so' # so, pc = "link"
  PROVE  Link
BY DEF Next, Step, Compile, vars, buildDir, EditSource, ReplaceBundle, Clean, BuildPlain,
       BuildConfiguration, Begin, TruncateCache, WriteCache, Unbundle, RunDep, StartMake,
       EmitBc, EmitAst, CompileFails, FinishMake, StepFails, Killed, GenerateStub,
       GenerateBundle, GenerateBundleFails

\* What ts-link puts into the shared object is of this build, or its tangle
\* could not be compiled, or its tangle is no more; and no tangle is left out.
THEOREM OldCodeExplained == Spec => OldCodeIsExplained
<1>1. ASSUME IInv, [Next]_vars, so' # so, pc = "link"
      PROVE  /\ \A c \in so' :
                  \/ c.tangle \in missed
                  \/ c.tangle \notin dep.tangles
                  \/ c.rev >= began.rev /\ (config = "debug" => c.mode = "debug")
             /\ \A t \in dep.tangles \ missed : \E c \in so' : c.tangle = t
  <2>1. so' = bc /\ left = {}
    BY <1>1, OnlyLinkWritesSo DEF Link, IInv, CompiledInv
  <2> QED
    BY <1>1, <2>1 DEF IInv, CompiledInv
<1> QED
  BY <1>1, Invariance, PTL DEF Spec, OldCodeIsExplained

\* A build that succeeds in its last step has linked.
LEMMA SuccessIsLink ==
  ASSUME CompiledInv, [Next]_vars, pc = "link", exit' = "ok", ~failed'
  PROVE  Link
<1>1. exit = "none"
  BY DEF CompiledInv
<1> QED
  BY <1>1 DEF Next, Step, Compile, vars, buildDir, process, history, EditSource,
       ReplaceBundle, Clean, BuildPlain, BuildConfiguration, Begin, TruncateCache,
       WriteCache, Unbundle, RunDep, StartMake, EmitBc, EmitAst, CompileFails,
       FinishMake, StepFails, Killed, GenerateStub, GenerateBundle, GenerateBundleFails

\* The build of an empty directory links this source tree and nothing else,
\* compiled against the bundle of this manifest, with no file in two tangles.
THEOREM CleanDirectoryBuildExact == Spec => CleanDirectoryBuildIsExact
<1>1. ASSUME IInv, [Next]_vars, pc = "link", fresh, exit' = "ok", ~failed'
      PROVE  /\ \A c \in so' :
                  /\ c.tangle \in dep.tangles
                  /\ c.rev >= began.rev
                  /\ c.lib >= began.lib
                  /\ config = "debug" => c.mode = "debug"
             /\ \A c, d \in so' : c = d \/ c.tangle \cap d.tangle = {}
  <2>1. so' = bc
    BY <1>1, SuccessIsLink DEF Link, IInv
  <2>2. \A c \in bc : /\ c.tangle \in dep.tangles
                      /\ c.rev >= began.rev
                      /\ c.lib >= began.lib
                      /\ config = "debug" => c.mode = "debug"
    BY <1>1 DEF IInv, FreshInv
  <2>3. \A c, d \in bc : c = d \/ c.tangle \cap d.tangle = {}
    BY <1>1, <2>2, TanglesAreDisjoint DEF IInv, FilesInv
  <2> QED
    BY <2>1, <2>2, <2>3
<1> QED
  BY <1>1, Invariance, PTL DEF Spec, CleanDirectoryBuildIsExact

\* A bundle is written by ts-bundle, and removed with the directory.
LEMMA OnlyGenerateWritesBundle ==
  ASSUME [Next]_vars, bundle' # bundle, pristine'
  PROVE  GenerateBundle
BY DEF Next, Step, Compile, vars, buildDir, EditSource, ReplaceBundle, Clean, BuildPlain,
       BuildConfiguration, Begin, TruncateCache, WriteCache, Unbundle, RunDep, StartMake,
       EmitBc, EmitAst, CompileFails, FinishMake, Link, StepFails, Killed, GenerateStub,
       GenerateBundleFails

\* After one complete build of an empty directory, the bundle has the code of
\* the shared object and the interface of each piece of it.
THEOREM BundleExact == Spec => BundleIsExact
<1>1. ASSUME IInv, [Next]_vars, bundle' # bundle, pristine, pristine'
      PROVE  /\ bundle'.code = so
             /\ {<<a.tangle, a.rev, a.lib>> : a \in bundle'.interface}
                  = {<<c.tangle, c.rev, c.lib>> : c \in so}
  <2>1. so = bc /\ stub = {}
    BY <1>1 DEF IInv, PristineInv
  <2>2. Linked(bc) = {bc}
    BY <1>1 DEF Linked, IInv, PristineInv
  <2>3. bundle' = [code |-> bc, interface |-> ast]
    BY <1>1, <2>1, <2>2, OnlyGenerateWritesBundle DEF GenerateBundle
  <2>4. {<<a.tangle, a.rev, a.lib>> : a \in ast} = {<<c.tangle, c.rev, c.lib>> : c \in bc}
    BY <1>1 DEF IInv, PristineInv, TreeOf
  <2> QED
    BY <2>1, <2>3, <2>4
<1> QED
  BY <1>1, Invariance, PTL DEF Spec, BundleIsExact

-------------------------------------------------------------------------------
(* A build ends *)

\* What is left of the invocation: its steps, and the tangles that ts-make has
\* to compile and to write the .ast of.
StepsLeft ==
  CASE pc = "saveCache" -> 7 [] pc = "writeCache" -> 6 [] pc = "unbundle" -> 5
    [] pc = "dep" -> 4 [] pc = "make" -> 3 [] pc = "compile" -> 2 [] pc = "link" -> 1
    [] OTHER -> 0

Distance == <<StepsLeft, Cardinality(left), Cardinality(half)>>
Measured == Distance \in Tuples(3)
Closer   == <<Distance', Distance>> \in Falls(3)

\* A step of the build is a step closer to its end; during a build the user's
\* edits are the only other steps, and they do not put it off.
Advances ==
  /\ Step \/ Killed => Closer
  /\ pc # "idle" => Closer \/ UNCHANGED <<pc, process, buildDir, Distance>>

LEMMA DistanceIsTuple ==
  ASSUME IsFiniteSet(Tangles), TypeOK
  PROVE  /\ Measured
         /\ IsFiniteSet(left) /\ IsFiniteSet(half)
<1>1. IsFiniteSet(left) /\ IsFiniteSet(half)
  BY FewerMembers DEF TypeOK
<1>2. Cardinality(left) \in Nat /\ Cardinality(half) \in Nat
  BY <1>1, FS_CardinalityType
<1>3. StepsLeft \in Nat
  BY DEF StepsLeft
<1> QED
  BY <1>1, <1>2, <1>3 DEF Measured, Distance, Tuples

\* Which of the numbers a step lowers, the ones before it unchanged.
LEMMA Lowers ==
  ASSUME Measured, Measured',
         \/ StepsLeft' < StepsLeft
         \/ StepsLeft' = StepsLeft /\ Cardinality(left') < Cardinality(left)
         \/ /\ StepsLeft' = StepsLeft /\ left' = left
            /\ Cardinality(half') < Cardinality(half)
  PROVE  Closer
<1>1. Distance \in Tuples(3) /\ Distance' \in Tuples(3)
  BY DEF Measured
<1>2. /\ Distance[1] = StepsLeft /\ Distance'[1] = StepsLeft'
      /\ Distance[2] = Cardinality(left) /\ Distance'[2] = Cardinality(left')
      /\ Distance[3] = Cardinality(half) /\ Distance'[3] = Cardinality(half')
  BY DEF Distance
<1> QED
  BY <1>1, <1>2, FallsAt DEF Closer

LEMMA StepAdvances ==
  ASSUME IsFiniteSet(Tangles), TypeOK, Measured, Measured', Step \/ Killed
  PROVE  Closer
<1>1. CASE \/ TruncateCache \/ WriteCache \/ Unbundle \/ RunDep \/ StartMake
           \/ FinishMake
  <2>1. StepsLeft' < StepsLeft
    BY <1>1 DEF TruncateCache, WriteCache, Unbundle, RunDep, StartMake, FinishMake,
                StepsLeft
  <2> QED
    BY <2>1, Lowers
<1>2. CASE Link \/ StepFails \/ Killed
  <2>1. StepsLeft' < StepsLeft
    BY <1>2 DEF Link, StepFails, Killed, Ended, StepsLeft, TypeOK
  <2> QED
    BY <2>1, Lowers
<1>3. ASSUME NEW t \in Tangles, EmitBc(t) \/ EmitAst(t) \/ CompileFails(t)
      PROVE  Closer
  <2>1. pc' = pc
    BY <1>3 DEF EmitBc, EmitAst, CompileFails
  <2>2. StepsLeft' = StepsLeft
    BY <2>1 DEF StepsLeft
  <2>3. CASE t \in left /\ left' = left \ {t}
    <3>1. Cardinality(left') < Cardinality(left)
      BY <2>3, DistanceIsTuple, FewerMembers
    <3> QED
      BY <2>2, <3>1, Lowers
  <2>4. CASE t \in half /\ half' = half \ {t} /\ left' = left
    <3>1. Cardinality(half') < Cardinality(half)
      BY <2>4, DistanceIsTuple, FewerMembers
    <3> QED
      BY <2>2, <2>4, <3>1, Lowers
  <2> QED
    BY <1>3, <2>3, <2>4 DEF EmitBc, EmitAst, CompileFails
<1> QED
  BY <1>1, <1>2, <1>3 DEF Step, Compile

\* An invocation of tsc comes to an end whatever fails, however often the user
\* edits the sources meanwhile: no step of a build is made again, and no tangle
\* is compiled twice.
THEOREM BuildsEnd ==
  ASSUME IsFiniteSet(Tangles)
  PROVE  /\ IsWellFoundedOn(Falls(3), Tuples(3))
         /\ Spec => []Measured
         /\ Spec => [][Advances]_vars
<1>1. IsWellFoundedOn(Falls(3), Tuples(3))
  BY NothingFallsForever
<1>2. TypeOK => Measured
  BY DistanceIsTuple
<1>3. ASSUME TypeOK, Measured, Measured', Next
      PROVE  Advances
  <2>1. Step \/ Killed => Closer
    BY <1>3, StepAdvances
  <2>2. pc # "idle" /\ ~(Step \/ Killed) => EditSource \/ ReplaceBundle
    BY <1>3 DEF Next, Clean, BuildPlain, BuildConfiguration, Begin, GenerateStub,
                GenerateBundle, GenerateBundleFails
  <2>3. EditSource \/ ReplaceBundle => UNCHANGED <<pc, process, buildDir, Distance>>
    BY DEF EditSource, ReplaceBundle, process, Distance, StepsLeft
  <2> QED
    BY <2>1, <2>2, <2>3 DEF Advances
<1>4. TypeOK /\ Measured /\ Measured' /\ [Next]_vars => [Advances]_vars
  BY <1>3
<1> QED
  BY <1>1, <1>2, <1>4, TypeCorrect, PTL DEF Spec

-------------------------------------------------------------------------------
(* The compilations of a build *)

Progress == CASE pc = "compile" -> "running" [] pc = "link" -> "over"
              [] OTHER -> "idle"

\* Before and after them, the driver's variables are of no meaning to ts-make.
During(set) == IF pc \in {"compile", "link"} THEN set ELSE {}

CC == INSTANCE Compilations WITH
  make <- Progress, all <- During(dep.tangles), left <- During(left),
  half <- During(half), missed <- During(missed)

\* No compilation has failed before ts-make runs.
MissedInv == pc \notin {"compile", "link"} => missed = {}

LEMMA NextMissedInv == MissedInv /\ [Next]_vars => MissedInv'
<1> SUFFICES ASSUME MissedInv, [Next]_vars PROVE MissedInv'
  OBVIOUS
<1> USE DEF MissedInv, history
<1>1. CASE UNCHANGED vars \/ EditSource \/ ReplaceBundle \/ Clean
  BY <1>1 DEF vars, EditSource, ReplaceBundle, Clean
<1>2. ASSUME NEW p, NEW c, Begin(p, c)
      PROVE  MissedInv'
  BY <1>2 DEF Begin
<1>3. CASE \/ TruncateCache \/ WriteCache \/ Unbundle \/ RunDep \/ StartMake
           \/ FinishMake
  BY <1>3 DEF TruncateCache, WriteCache, Unbundle, RunDep, StartMake, FinishMake
<1>4. CASE Compile
  BY <1>4 DEF Compile, EmitBc, EmitAst, CompileFails
<1>5. CASE Link \/ StepFails \/ Killed
  BY <1>5 DEF Link, StepFails, Killed, Ended
<1>6. CASE GenerateStub \/ GenerateBundle \/ GenerateBundleFails
  BY <1>6 DEF GenerateStub, GenerateBundle, GenerateBundleFails
<1> QED
  BY <1>1, <1>2, <1>3, <1>4, <1>5, <1>6
  DEF Next, Step, BuildPlain, BuildConfiguration

\* Whatever the tools before and after ts-make do, ts-make has no part in it.
LEMMA OutsideStep ==
  ASSUME pc \notin {"compile", "link"}, pc' \notin {"compile", "link"}
  PROVE  UNCHANGED CC!compilationVars
<1>1. Progress = "idle" /\ Progress' = "idle"
  BY DEF Progress
<1> QED
  BY <1>1 DEF CC!compilationVars, During

LEMMA CompilationStep ==
  ASSUME CompiledInv, NEW t \in Tangles, EmitBc(t) \/ EmitAst(t) \/ CompileFails(t)
  PROVE  CC!Next
<1>1. pc = "compile" /\ pc' = "compile" /\ dep' = dep
  BY DEF EmitBc, EmitAst, CompileFails, buildDir
<1>2. Progress = "running" /\ Progress' = "running"
  BY <1>1 DEF Progress
<1> USE DEF During
<1>3. CASE EmitBc(t)
  <2>1. CC!EmitBc(t)
    BY <1>1, <1>2, <1>3 DEF CC!EmitBc, EmitBc, history
  <2> QED
    BY <2>1 DEF CC!Next
<1>4. CASE EmitAst(t)
  <2>1. CC!EmitAst(t)
    BY <1>1, <1>2, <1>4 DEF CC!EmitAst, EmitAst, history
  <2> QED
    BY <2>1 DEF CC!Next
<1>5. CASE CompileFails(t)
  <2>1. CC!Fail(t)
    BY <1>1, <1>2, <1>5 DEF CC!Fail, CompileFails
  <2> QED
    BY <2>1 DEF CC!Next
<1> QED
  BY <1>3, <1>4, <1>5

\* The driver's view of ts-make is that of Compilations too: it begins with the
\* tangles of ts-dep, goes on to the linker when all are over and not before,
\* and may be killed with ts-make at any time.
THEOREM RunsCompilations == Spec => CC!Spec
<1>1. Init => CC!Init /\ MissedInv
  BY DEF Init, CC!Init, CC!Nothing, Progress, During, MissedInv
<1>2. ASSUME TypeOK, CompiledInv, MissedInv, MissedInv', [Next]_vars
      PROVE  CC!Next \/ UNCHANGED CC!compilationVars
  <2>1. CASE UNCHANGED <<pc, dep, left, half, missed>>
    BY <2>1 DEF CC!compilationVars, Progress, During
  <2>2. CASE pc = "idle"
    <3>1. pc' \in {"idle", "saveCache"}
      BY <1>2, <2>2
      DEF Next, Step, vars, EditSource, ReplaceBundle, Clean, BuildPlain,
          BuildConfiguration, Begin, TruncateCache, WriteCache, Unbundle, RunDep,
          StartMake, Compile, EmitBc, EmitAst, CompileFails, FinishMake, Link,
          StepFails, Killed, GenerateStub, GenerateBundle, GenerateBundleFails
    <3> QED
      BY <2>2, <3>1, OutsideStep
  <2>3. CASE TruncateCache \/ WriteCache \/ Unbundle \/ RunDep
    <3>1. pc \notin {"compile", "link"} /\ pc' \notin {"compile", "link"}
      BY <2>3 DEF TruncateCache, WriteCache, Unbundle, RunDep
    <3> QED
      BY <3>1, OutsideStep
  <2>4. CASE StartMake
    <3>1. /\ pc = "make" /\ pc' = "compile" /\ dep' = dep
          /\ left' = dep.tangles /\ half' = {} /\ missed' = {}
      BY <1>2, <2>4 DEF StartMake, buildDir, history, MissedInv
    <3>2. dep.tangles \subseteq Tangles
      BY <1>2 DEF TypeOK, Tangles
    <3>3. CC!Start
      BY <3>1, <3>2 DEF CC!Start, Progress, During
    <3> QED
      BY <3>3 DEF CC!Next
  <2>5. CASE Compile
    BY <1>2, <2>5, CompilationStep DEF Compile
  <2>6. CASE FinishMake
    <3>1. CC!Return
      BY <2>6 DEF FinishMake, CC!Return, Progress, During, buildDir, process, history
    <3> QED
      BY <3>1 DEF CC!Next
  <2>7. CASE Link \/ StepFails \/ Killed
    <3>1. pc' = "idle"
      BY <2>7 DEF Link, StepFails, Killed, Ended
    <3>2. Progress' = "idle" /\ CC!Nothing'
      BY <3>1 DEF Progress, CC!Nothing, During
    <3>3. CASE pc \in {"compile", "link"}
      <4>1. CC!Forget
        BY <3>2, <3>3 DEF CC!Forget, Progress
      <4> QED
        BY <4>1 DEF CC!Next
    <3>4. CASE pc \notin {"compile", "link"}
      BY <3>1, <3>4, OutsideStep
    <3> QED
      BY <3>3, <3>4
  <2>8. EditSource \/ ReplaceBundle \/ UNCHANGED vars
          => UNCHANGED <<pc, dep, left, half, missed>>
    BY DEF EditSource, ReplaceBundle, vars, buildDir, process, history
  <2>9. ASSUME \/ Clean \/ BuildPlain \/ \E c \in Modes : BuildConfiguration(c)
               \/ GenerateStub \/ GenerateBundle \/ GenerateBundleFails
        PROVE  pc = "idle"
    BY <2>9 DEF Clean, BuildPlain, BuildConfiguration, Begin, GenerateStub,
                GenerateBundle, GenerateBundleFails
  <2> QED
    BY <1>2, <2>1, <2>2, <2>3, <2>4, <2>5, <2>6, <2>7, <2>8, <2>9 DEF Next, Step
<1>3. IInv /\ MissedInv /\ MissedInv' /\ [Next]_vars => [CC!Next]_(CC!compilationVars)
  BY <1>2 DEF IInv
<1> QED
  BY <1>1, <1>3, NextMissedInv, Invariance, PTL DEF Spec, CC!Spec
===============================================================================
