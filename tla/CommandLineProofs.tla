-------------------------- MODULE CommandLineProofs ---------------------------
(***************************************************************************)
(* Proofs about CommandLine and PackageBuild.                              *)
(*   files     the temporary file is removed, a dry run changes no file,   *)
(*             and a stub never takes the place of a source that was there *)
(*             when the build looked for it (IInv)                         *)
(*   builds    a build that ends well has staged every required package,   *)
(*             listed them and written a program (CompleteInv)             *)
(*   status    status 0 says that the output that was asked for is there,  *)
(*             and nothing else was written (StatusInv)                    *)
(*   parsers   the two parsers of command lines agree on documented ones   *)
(***************************************************************************)
EXTENDS CommandLine, FiniteSetTheorems, SequenceTheorems, TLAPS

LibStates == {"absent", "empty", "stub", "saved"}

\* The types the proofs rest on.
Types == lib \in [Sources -> LibStates] /\ saves \in Nat

\* A dry run never reaches a step that has a file open.
DryInv == dryRun => step \notin {"open", "fill", "list", "placeholder"}

\* While the stub of a package is written, a source of it that the user saved
\* was saved after it had been seen to be missing.
StubInv ==
  step \in {"open", "fill"} =>
    \A s \in Sources : s = Source /\ lib[s] = "saved" => late

\* The temporary file is there only between mkstemps and its removal.
TempInv == phase \in {"ready", "pkg", "temp", "exited"} => temp = "none"

FileInv == Types /\ DryInv /\ StubInv
IInv    == FileInv /\ TempInv

\* What one step of the build may do to the files.
DryStep   == dryRun /\ saves' = saves => UNCHANGED files
SavedStep == \A s \in Sources : lib[s] = "saved" /\ lib'[s] # "saved" =>
               step \in {"open", "fill"} /\ s = Source /\ late
FileStep  == DryStep /\ SavedStep

LEMMA InitInv == Init => IInv
<1> SUFFICES ASSUME Init PROVE IInv OBVIOUS
<1>1. PICK s \in Sessions : BuildInit(s.requirements, s.config)
  BY DEF Init
<1>2. Types BY <1>1 DEF BuildInit, Types, LibStates
<1>3. DryInv /\ StubInv BY <1>1 DEF BuildInit, DryInv, StubInv
<1>4. TempInv BY DEF Init, TempInv
<1> QED BY <1>2, <1>3, <1>4 DEF IInv, FileInv

\* A step that leaves the sources and the number of saves alone, and does not
\* go where a file is open, keeps the invariant.
LEMMA QuietStep ==
  ASSUME FileInv, UNCHANGED <<files, saves>>, step' \notin {"open", "fill", "list", "placeholder"}
  PROVE  FileInv' /\ FileStep
<1>1. Types' BY DEF FileInv, Types, files, Sources
<1>2. DryInv' /\ StubInv' BY DEF DryInv, StubInv
<1>3. FileStep BY DEF FileStep, DryStep, SavedStep, files
<1> QED BY <1>1, <1>2, <1>3 DEF FileInv

\* The steps of the build that touch no file keep the invariant.
LEMMA ReadingSteps ==
  ASSUME FileInv,
         \/ NoRequirements \/ ReadRequirement \/ RequirementsEnd
         \/ ConfigUnreadable \/ ReadConfig \/ ConfigEnd
         \/ MakeDirectories \/ StageDry \/ StageEnd \/ SkipManifest \/ CompileDry
  PROVE  FileInv' /\ FileStep
<1> USE DEF Goto, Throw, history
<1>1. UNCHANGED <<files, saves>>
  <2>1. CASE NoRequirements \/ ReadRequirement \/ RequirementsEnd
    BY <2>1 DEF NoRequirements, ReadRequirement, RequirementsEnd
  <2>2. CASE ConfigUnreadable \/ ReadConfig \/ ConfigEnd
    BY <2>2 DEF ConfigUnreadable, ReadConfig, ConfigEnd
  <2>3. CASE MakeDirectories \/ StageDry \/ StageEnd
    BY <2>3 DEF MakeDirectories, StageDry, StageEnd, NextPackage
  <2>4. CASE SkipManifest \/ CompileDry
    BY <2>4 DEF SkipManifest, CompileDry
  <2> QED BY <2>1, <2>2, <2>3, <2>4
<1>2. step' \notin {"open", "fill", "list", "placeholder"}
  <2>1. CASE NoRequirements \/ ReadRequirement \/ RequirementsEnd
    BY <2>1 DEF NoRequirements, ReadRequirement, RequirementsEnd
  <2>2. CASE ConfigUnreadable \/ ReadConfig \/ ConfigEnd
    BY <2>2 DEF ConfigUnreadable, ReadConfig, ConfigEnd
  <2>3. CASE MakeDirectories \/ StageDry \/ StageEnd
    BY <2>3 DEF MakeDirectories, StageDry, StageEnd, NextPackage
  <2>4. CASE SkipManifest \/ CompileDry
    BY <2>4 DEF SkipManifest, CompileDry
  <2> QED BY <2>1, <2>2, <2>3, <2>4
<1> QED BY <1>1, <1>2, QuietStep

\* Looking for a source changes none, and goes on to the stub only when there
\* is no source.
LEMMA LookStep == ASSUME FileInv, LookForSource PROVE FileInv' /\ FileStep
<1> USE DEF Goto
<1>1. CASE Throw
  <2>1. UNCHANGED <<files, saves>> /\ step' = "thrown" BY <1>1 DEF Throw, history
  <2> QED BY <2>1, QuietStep
<1>2. CASE NextPackage /\ UNCHANGED <<files, history>>
  <2>1. UNCHANGED <<files, saves>> /\ step' = "stage" BY <1>2 DEF NextPackage, history
  <2> QED BY <2>1, QuietStep
<1>3. CASE ~IsStaged /\ Goto("open") /\ UNCHANGED <<loopVars, files>> /\ UNCHANGED saves
  <2>1. ~dryRun BY DEF LookForSource
  <2>2. Types' BY <1>3 DEF FileInv, Types, files, Sources
  <2>3. DryInv' BY <1>3, <2>1 DEF DryInv
  <2>4. StubInv' BY <1>3 DEF StubInv, IsStaged, Source, loopVars, files, Sources
  <2>5. FileStep BY <1>3 DEF FileStep, DryStep, SavedStep, files
  <2> QED BY <2>2, <2>3, <2>4, <2>5 DEF FileInv
<1> QED BY <1>1, <1>2, <1>3 DEF LookForSource

\* Opening a stub empties the package's own source and no other.
LEMMA OpenStep == ASSUME FileInv, OpenStub PROVE FileInv' /\ FileStep
<1> USE DEF Goto
<1>1. step = "open" /\ ~dryRun BY DEF OpenStub, FileInv, DryInv
<1>2. CASE UNCHANGED lib /\ NextPackage /\ UNCHANGED <<manifest, built, saves>>
  <2>1. UNCHANGED <<files, saves>> /\ step' = "stage" BY <1>2 DEF NextPackage, files
  <2> QED BY <2>1, QuietStep
<1>3. CASE /\ lib' = [lib EXCEPT ![Source] = "empty"]
           /\ Goto("fill") /\ UNCHANGED <<loopVars, history>>
           /\ UNCHANGED <<manifest, built>>
  <2>1. Types' BY <1>3 DEF FileInv, Types, LibStates, Sources, history
  <2>2. DryInv' BY <1>1, <1>3 DEF DryInv
  <2>3. StubInv'
    <3>1. \A s \in Sources : s = Source => lib'[s] = "empty"
      BY <1>3 DEF FileInv, Types
    <3>2. UNCHANGED Source BY <1>3 DEF Source, loopVars
    <3> QED BY <3>1, <3>2 DEF StubInv, Sources
  <2>4. SavedStep
    <3>1. \A s \in Sources : s # Source => lib'[s] = lib[s]
      BY <1>3 DEF FileInv, Types
    <3> QED BY <1>1, <3>1 DEF SavedStep, FileInv, StubInv
  <2>5. DryStep BY <1>1 DEF DryStep
  <2> QED BY <2>1, <2>2, <2>3, <2>4, <2>5 DEF FileInv, FileStep
<1> QED BY <1>2, <1>3 DEF OpenStub, history

\* So does filling it.
LEMMA FillStep == ASSUME FileInv, FillStub PROVE FileInv' /\ FileStep
<1> USE DEF Goto
<1>1. step = "fill" /\ ~dryRun BY DEF FillStub, FileInv, DryInv
<1>2. step' = "stage" /\ UNCHANGED <<saves>> BY DEF FillStub, NextPackage
<1>3. CASE UNCHANGED lib
  <2>1. UNCHANGED <<files, saves>> BY <1>3 DEF FillStub, files
  <2> QED BY <2>1, <1>2, QuietStep
<1>4. CASE lib' = [lib EXCEPT ![Source] = "stub"]
  <2>1. Types' BY <1>2, <1>4 DEF FileInv, Types, LibStates, Sources
  <2>2. DryInv' /\ StubInv' BY <1>2 DEF DryInv, StubInv
  <2>3. SavedStep
    <3>1. \A s \in Sources : s # Source => lib'[s] = lib[s]
      BY <1>4 DEF FileInv, Types
    <3> QED BY <1>1, <3>1 DEF SavedStep, FileInv, StubInv
  <2>4. DryStep BY <1>1 DEF DryStep
  <2> QED BY <2>1, <2>2, <2>3, <2>4 DEF FileInv, FileStep
<1> QED BY <1>3, <1>4 DEF FillStub

\* The steps behind the staging write the manifest and the output, and only
\* when the build is no dry run.
LEMMA WritingSteps ==
  ASSUME FileInv, OpenManifest \/ ListPackages \/ InvokeCompiler \/ WritePlaceholder
  PROVE  FileInv' /\ FileStep
<1> USE DEF Goto, Throw, history
<1>1. UNCHANGED <<lib, saves, dryRun>>
  <2>1. CASE OpenManifest BY <2>1 DEF OpenManifest, files
  <2>2. CASE ListPackages BY <2>2 DEF ListPackages
  <2>3. CASE InvokeCompiler BY <2>3 DEF InvokeCompiler
  <2>4. CASE WritePlaceholder BY <2>4 DEF WritePlaceholder, files
  <2> QED BY <2>1, <2>2, <2>3, <2>4
<1>2. ~dryRun
  <2>1. CASE OpenManifest BY <2>1 DEF OpenManifest
  <2>2. CASE ListPackages BY <2>2 DEF ListPackages, FileInv, DryInv
  <2>3. CASE InvokeCompiler BY <2>3 DEF InvokeCompiler
  <2>4. CASE WritePlaceholder BY <2>4 DEF WritePlaceholder, FileInv, DryInv
  <2> QED BY <2>1, <2>2, <2>3, <2>4
<1>3. step' \notin {"open", "fill"}
  <2>1. CASE OpenManifest BY <2>1 DEF OpenManifest
  <2>2. CASE ListPackages BY <2>2 DEF ListPackages
  <2>3. CASE InvokeCompiler BY <2>3 DEF InvokeCompiler
  <2>4. CASE WritePlaceholder BY <2>4 DEF WritePlaceholder
  <2> QED BY <2>1, <2>2, <2>3, <2>4
<1>4. Types' BY <1>1 DEF FileInv, Types, Sources
<1>5. DryInv' /\ StubInv' BY <1>1, <1>2, <1>3 DEF DryInv, StubInv
<1>6. FileStep BY <1>1, <1>2 DEF FileStep, DryStep, SavedStep
<1> QED BY <1>4, <1>5, <1>6 DEF FileInv

\* The user may save at any time; what is saved stays, and is noted when its
\* stub is being written.
LEMMA SaveStep == ASSUME FileInv, Save PROVE FileInv' /\ FileStep
<1>1. PICK s \in Sources :
        /\ lib' = [lib EXCEPT ![s] = "saved"]
        /\ late' = (late \/ (step \in {"open", "fill"} /\ s = Source))
  BY DEF Save
<1>2. saves' = saves + 1 /\ UNCHANGED <<step, loopVars, dryRun>> BY DEF Save
<1>3. Types' BY <1>1, <1>2 DEF FileInv, Types, LibStates, Sources
<1>4. DryInv' BY <1>2 DEF FileInv, DryInv
<1>5. StubInv'
  <2> SUFFICES ASSUME step' \in {"open", "fill"}, NEW t \in Sources, t = Source', lib'[t] = "saved"
               PROVE  late'
    BY DEF StubInv, Sources
  <2>1. t = Source /\ step \in {"open", "fill"} BY <1>2 DEF Source, loopVars
  <2>2. CASE t = s BY <1>1, <2>1, <2>2
  <2>3. CASE t # s
    <3>1. lib[t] = "saved" BY <1>1, <2>3 DEF FileInv, Types
    <3>2. late BY <2>1, <3>1 DEF FileInv, StubInv
    <3> QED BY <1>1, <3>2
  <2> QED BY <2>2, <2>3
<1>6. DryStep BY <1>2 DEF DryStep, FileInv, Types
<1>7. SavedStep
  <2>1. \A t \in Sources : lib'[t] = lib[t] \/ lib'[t] = "saved" BY <1>1 DEF FileInv, Types
  <2> QED BY <2>1 DEF SavedStep
<1> QED BY <1>3, <1>4, <1>5, <1>6, <1>7 DEF FileInv, FileStep

\* A step of the command line itself starts a build, ends one or leaves it be.
LEMMA CommandSteps ==
  ASSUME FileInv,
         \/ Help \/ Delegate \/ RunPkg \/ RefusePkg \/ PkgReturns \/ StartCompile \/ MakeTemp
         \/ Preprocess \/ CallCompiler \/ Cpp \/ CleanUp \/ Kill \/ NextCommand
  PROVE  FileInv' /\ FileStep
<1> DEFINE Quiet == UNCHANGED <<files, saves>> /\ step' \in {"idle", "requirements"}
           Same  == UNCHANGED <<step, loopVars, dryRun, files, saves, late>>
<1>1. CASE RunPkg
  <2>1. Quiet BY <1>1 DEF RunPkg, StartBuild, history
  <2> QED BY <2>1, QuietStep
<1>2. CASE PkgReturns \/ Kill
  <2>1. Quiet BY <1>2 DEF PkgReturns, ReturnFromBuild, Kill, KillBuild, history
  <2> QED BY <2>1, QuietStep
<1>3. CASE ~(RunPkg \/ PkgReturns \/ Kill)
  <2>1. Same
    <3> USE DEF buildVars, history
    <3>1. CASE Help \/ Delegate BY <3>1 DEF Help, Delegate
    <3>2. CASE RefusePkg \/ StartCompile BY <3>2 DEF RefusePkg, StartCompile
    <3>3. CASE MakeTemp \/ Preprocess BY <3>3 DEF MakeTemp, Preprocess
    <3>4. CASE CallCompiler BY <3>4 DEF CallCompiler
    <3>5. CASE Cpp BY <3>5 DEF Cpp
    <3>6. CASE CleanUp \/ NextCommand BY <3>6 DEF CleanUp, NextCommand
    <3> QED BY <1>3, <3>1, <3>2, <3>3, <3>4, <3>5, <3>6
  <2>2. Types' BY <2>1 DEF FileInv, Types, files, Sources
  <2>3. DryInv' BY <2>1 DEF FileInv, DryInv
  <2>4. StubInv' BY <2>1 DEF FileInv, StubInv, Source, loopVars, files, Sources
  <2>5. FileStep BY <2>1 DEF FileStep, DryStep, SavedStep, files
  <2> QED BY <2>2, <2>3, <2>4, <2>5 DEF FileInv
<1> QED BY <1>1, <1>2, <1>3

LEMMA NextFiles == ASSUME FileInv, Next PROVE FileInv' /\ FileStep
<1>1. CASE BuildStep
  BY <1>1, ReadingSteps, LookStep, OpenStep, FillStep, WritingSteps DEF BuildStep
<1>2. CASE Save BY <1>2, SaveStep
<1> QED BY <1>1, <1>2, CommandSteps DEF Next

\* Every way to the end of a command passes the removal of the file.
LEMMA NextTemp == ASSUME TempInv, Next PROVE TempInv'
<1> USE DEF TempInv, Exit
<1>1. CASE Help \/ Delegate BY <1>1 DEF Help, Delegate
<1>2. CASE RunPkg \/ RefusePkg BY <1>2 DEF RunPkg, RefusePkg
<1>3. CASE PkgReturns BY <1>3 DEF PkgReturns
<1>4. CASE StartCompile BY <1>4 DEF StartCompile
<1>5. CASE MakeTemp BY <1>5 DEF MakeTemp
<1>6. CASE Preprocess \/ CallCompiler BY <1>6 DEF Preprocess, CallCompiler, Failed
<1>7. CASE Cpp \/ CleanUp BY <1>7 DEF Cpp, CleanUp
<1>8. CASE Kill \/ NextCommand BY <1>8 DEF Kill, NextCommand
<1>9. CASE UNCHANGED cliVars BY <1>9 DEF cliVars
<1> QED BY <1>1, <1>2, <1>3, <1>4, <1>5, <1>6, <1>7, <1>8, <1>9 DEF Next

LEMMA StepInv == ASSUME IInv, [Next]_vars PROVE IInv' /\ FileStep
<1>1. CASE Next BY <1>1, NextFiles, NextTemp DEF IInv
<1>2. CASE UNCHANGED vars
  <2>1. UNCHANGED <<step, loopVars, dryRun, files, saves, late, phase, temp>>
    BY <1>2 DEF vars, buildVars, cliVars, history
  <2>2. Types' BY <2>1 DEF IInv, FileInv, Types, files, Sources
  <2>3. DryInv' /\ TempInv' BY <2>1 DEF IInv, FileInv, DryInv, TempInv
  <2>4. StubInv' BY <2>1 DEF IInv, FileInv, StubInv, Source, loopVars, files, Sources
  <2>5. FileStep BY <2>1 DEF FileStep, DryStep, SavedStep, files
  <2> QED BY <2>2, <2>3, <2>4, <2>5 DEF IInv, FileInv
<1> QED BY <1>1, <1>2

LEMMA InvAlways == Spec => []IInv
<1>1. IInv /\ [Next]_vars => IInv' BY StepInv
<1> QED BY InitInv, <1>1, PTL DEF Spec

\* Whatever fails on the way, nanlang ends without its temporary file
\* (run_compile_cmd and run_build_cmd of src/nanlang_cli.cpp).
THEOREM TempIsAlwaysRemoved == Spec => []TempIsRemoved
<1>1. IInv => TempIsRemoved BY DEF IInv, TempInv, TempIsRemoved
<1> QED BY InvAlways, <1>1, PTL

\* A dry run changes no source, manifest or output (run_build).
THEOREM DryRunsTouchNothing == Spec => DryRunTouchesNothing
<1>1. IInv /\ [Next]_vars => [dryRun /\ saves' = saves => UNCHANGED files]_buildVars
  BY StepInv DEF FileStep, DryStep
<1> QED BY InvAlways, <1>1, PTL DEF Spec, DryRunTouchesNothing

\* A stub replaces a saved source only when that was saved after the build had
\* seen it to be missing (resolve_deps).
THEOREM SavedSourcesAreAlwaysKept == Spec => SavedSourcesAreKept
<1>1. IInv /\ [Next]_vars =>
        [\A s \in Sources : lib[s] = "saved" /\ lib'[s] # "saved" =>
           step \in {"open", "fill"} /\ s = Source /\ late]_buildVars
  BY StepInv DEF FileStep, SavedStep
<1> QED BY InvAlways, <1>1, PTL DEF Spec, SavedSourcesAreKept
------------------------------------------------------------------------------
\* Recursion on the naturals

\* A set of naturals has a least element: its members' intervals do.
LEMMA LeastElement ==
  ASSUME NEW T \in SUBSET Nat, T # {}
  PROVE  \E n \in T : \A m \in T : n <= m
<1> DEFINE R == StrictSubsetOrdering(Nat)
           U == {0 .. m : m \in T}
<1>1. U \subseteq FiniteSubsetsOf(Nat) /\ U # {}
  <2>1. \A m \in Nat : 0 .. m \in SUBSET Nat /\ IsFiniteSet(0 .. m) BY FS_Interval
  <2> QED BY <2>1 DEF FiniteSubsetsOf
<1>2. \E x \in U : \A y \in U : <<y, x>> \notin R
  <2>1. IsWellFoundedOn(R, FiniteSubsetsOf(Nat)) BY FS_StrictSubsetOrderingWellFounded
  <2> HIDE DEF R, U
  <2> QED BY <2>1, <1>1, WFMin
<1>3. PICK n \in T : \A m \in T : <<0 .. m, 0 .. n>> \notin R BY <1>2
<1>4. ASSUME NEW m \in T, m < n PROVE FALSE
  <2>1. n \in 0 .. n /\ n \notin 0 .. m BY <1>4
  <2>2. 0 .. m \subseteq 0 .. n /\ 0 .. m # 0 .. n BY <2>1, <1>4
  <2>3. 0 .. m \in SUBSET Nat /\ 0 .. n \in SUBSET Nat OBVIOUS
  <2>4. <<0 .. m, 0 .. n>> \in StrictSubsetOrdering(Nat)
    BY <2>2, <2>3, Zenon DEF StrictSubsetOrdering
  <2> QED BY <2>4, <1>3
<1> QED BY <1>4

\* Induction, for a set.
LEMMA NatInduct ==
  ASSUME NEW S \in SUBSET Nat, 0 \in S, \A n \in S : n + 1 \in S
  PROVE  S = Nat
<1> SUFFICES ASSUME S # Nat PROVE FALSE OBVIOUS
<1>1. Nat \ S \in SUBSET Nat /\ Nat \ S # {} OBVIOUS
<1>2. PICK n \in Nat \ S : \A m \in Nat \ S : n <= m BY <1>1, LeastElement
<1>3. n # 0 /\ n - 1 \in Nat /\ n - 1 < n BY <1>2
<1>4. n - 1 \in S BY <1>2, <1>3
<1> QED BY <1>2, <1>3, <1>4

\* g is the function on 0 .. n that starts with base and goes on by H.
IsRecursive(g, base, H, n) ==
  g = [i \in 0 .. n |-> IF i = 0 THEN base ELSE H[<<i, g[i - 1]>>]]

\* There is one for every n.
LEMMA RecursionExists ==
  ASSUME NEW base, NEW H
  PROVE  \A n \in Nat : \E g : IsRecursive(g, base, H, n)
<1> DEFINE S == {n \in Nat : \E g : IsRecursive(g, base, H, n)}
<1>1. 0 \in S
  <2>1. IsRecursive([i \in 0 .. 0 |-> base], base, H, 0) BY DEF IsRecursive
  <2> QED BY <2>1
<1>2. ASSUME NEW n \in S PROVE n + 1 \in S
  <2>1. PICK g : IsRecursive(g, base, H, n) OBVIOUS
  <2> DEFINE next == H[<<n + 1, g[n]>>]
             h == [i \in 0 .. n + 1 |-> IF i = n + 1 THEN next ELSE g[i]]
  <2>2. (\A i \in 0 .. n : h[i] = g[i]) /\ \A i \in 1 .. n + 1 : h[i - 1] = g[i - 1] OBVIOUS
  <2>3. h[n + 1] = H[<<n + 1, h[n]>>]
    <3>1. h[n + 1] = next /\ h[n] = g[n] BY <2>2
    <3> QED BY <3>1
  <2>4. h = [i \in 0 .. n + 1 |-> h[i]] OBVIOUS
  <2> HIDE DEF h, next
  <2>5. \A i \in 0 .. n : g[i] = IF i = 0 THEN base ELSE H[<<i, g[i - 1]>>]
    BY <2>1 DEF IsRecursive
  <2>6. \A i \in 0 .. n : h[i] = IF i = 0 THEN base ELSE H[<<i, h[i - 1]>>]
    <3> SUFFICES ASSUME NEW i \in 0 .. n
                 PROVE  h[i] = IF i = 0 THEN base ELSE H[<<i, h[i - 1]>>]
      OBVIOUS
    <3>1. CASE i = 0 BY <2>2, <2>5, <3>1
    <3>2. CASE i # 0
      <4>1. h[i] = g[i] /\ h[i - 1] = g[i - 1] BY <2>2, <3>2
      <4> QED BY <2>5, <3>2, <4>1
    <3> QED BY <3>1, <3>2
  <2>7. \A i \in 0 .. n + 1 : h[i] = IF i = 0 THEN base ELSE H[<<i, h[i - 1]>>]
    BY <2>3, <2>6
  <2>8. IsRecursive(h, base, H, n + 1) BY <2>4, <2>7 DEF IsRecursive
  <2> QED BY <2>8
<1>3. S \in SUBSET Nat OBVIOUS
<1> HIDE DEF S
<1>4. S = Nat BY <1>1, <1>2, <1>3, NatInduct
<1> QED BY <1>4 DEF S

\* The packages of the first lines, by the lines before them.
LEMMA RequiredStep ==
  ASSUME requirements.lines \in Seq(RequirementLines)
  PROVE  /\ RequiredBy[0] = <<>>
         /\ \A n \in 1 .. Len(requirements.lines) :
              RequiredBy[n] = IF requirements.lines[n].kind = "package"
                                THEN Append(RequiredBy[n - 1], requirements.lines[n].name)
                                ELSE RequiredBy[n - 1]
<1> DEFINE lines == requirements.lines
           H == [q \in Nat \X Seq(Names) |->
                   IF lines[q[1]].kind = "package" THEN Append(q[2], lines[q[1]].name) ELSE q[2]]
           Named(g) == g = [n \in 0 .. Len(lines) |->
                              IF n = 0 THEN <<>>
                              ELSE IF lines[n].kind = "package"
                                THEN Append(g[n - 1], lines[n].name)
                              ELSE g[n - 1]]
<1>1. Len(lines) \in Nat OBVIOUS
<1>2. PICK g : IsRecursive(g, <<>>, H, Len(lines)) BY <1>1, RecursionExists
<1>3. \A n \in 0 .. Len(lines) : g[n] = IF n = 0 THEN <<>> ELSE H[<<n, g[n - 1]>>]
  BY <1>2 DEF IsRecursive
<1>4. \A n \in 1 .. Len(lines) : lines[n].kind = "package" => lines[n].name \in Names
  BY DEF RequirementLines
<1>5. \A n \in 0 .. Len(lines) : g[n] \in Seq(Names)
  <2>1. g[0] = <<>>
    <3> HIDE DEF H, lines
    <3>1. 0 \in 0 .. Len(lines) BY <1>1
    <3> QED BY <1>3, <3>1
  <2> DEFINE S == {n \in Nat : n <= Len(lines) => g[n] \in Seq(Names)}
  <2>2. 0 \in S
    <3>1. <<>> \in Seq(Names) OBVIOUS
    <3> HIDE DEF H, lines
    <3>2. g[0] \in Seq(Names) BY <2>1, <3>1
    <3> QED BY <3>2
  <2>3. ASSUME NEW n \in S PROVE n + 1 \in S
    <3> SUFFICES ASSUME n + 1 <= Len(lines) PROVE g[n + 1] \in Seq(Names) OBVIOUS
    <3>1. n + 1 \in 1 .. Len(lines) /\ (n + 1) - 1 = n /\ g[n] \in Seq(Names) BY <1>1
    <3>2. g[n + 1] = H[<<n + 1, g[n]>>]
      <4> HIDE DEF H, lines
      <4>1. n + 1 \in 0 .. Len(lines) /\ n + 1 # 0 BY <1>1, <3>1
      <4> QED BY <1>3, <3>1, <4>1
    <3>3. <<n + 1, g[n]>> \in Nat \X Seq(Names) BY <3>1
    <3> QED BY <1>4, <3>1, <3>2, <3>3
  <2>4. S \in SUBSET Nat OBVIOUS
  <2> HIDE DEF S
  <2>5. S = Nat BY <2>2, <2>3, <2>4, NatInduct
  <2> QED BY <1>1, <2>5 DEF S
<1>6. Named(g)
  <2>1. \A n \in 1 .. Len(lines) :
          H[<<n, g[n - 1]>>] = IF lines[n].kind = "package" THEN Append(g[n - 1], lines[n].name)
                                                          ELSE g[n - 1]
    <3> SUFFICES ASSUME NEW n \in 1 .. Len(lines)
                 PROVE H[<<n, g[n - 1]>>] = IF lines[n].kind = "package"
                                              THEN Append(g[n - 1], lines[n].name) ELSE g[n - 1]
      OBVIOUS
    <3>1. <<n, g[n - 1]>> \in Nat \X Seq(Names) BY <1>1, <1>5
    <3> QED BY <3>1
  <2> HIDE DEF H, lines
  <2> QED BY <1>1, <1>2, <2>1 DEF IsRecursive
<1>7. RequiredBy = CHOOSE f : Named(f) BY DEF RequiredBy
<1>8. Named(RequiredBy) BY <1>6, <1>7
<1> HIDE DEF lines
<1>9. \A n \in 0 .. Len(lines) :
        RequiredBy[n] = IF n = 0 THEN <<>>
                        ELSE IF lines[n].kind = "package"
                          THEN Append(RequiredBy[n - 1], lines[n].name)
                        ELSE RequiredBy[n - 1]
  BY <1>8
<1> QED BY <1>1, <1>9 DEF lines
------------------------------------------------------------------------------
\* Builds that end well

\* The files that are read, and what the loops over them hold.
ReadTypes ==
  /\ requirements \in Requirements
  /\ config \in Configs
  /\ at \in Nat \ {0}
  /\ packages \in Seq(Names)
  /\ libDir \in LibDirs

\* The requirement file has been read in all these places.
AfterRequirements ==
  {"config", "directories", "stage", "open", "fill", "manifest", "list", "compile",
   "placeholder", "done"}

\* packages are the ones of the lines read so far; the staging begins with the
\* first.
ListInv ==
  /\ step = "requirements" /\ requirements.state = "text" =>
       at - 1 <= Len(requirements.lines) /\ packages = RequiredBy[at - 1]
  /\ step \in AfterRequirements => packages = Required
  /\ step = "directories" => at = 1

Whole(k) == lib[<<libDir, packages[k]>>] \in {"stub", "saved"}

\* The packages before at have their sources; the stub that is being written is
\* none of theirs.
StagedInv ==
  ~dryRun /\ ~faulty =>
    /\ step \in {"stage", "open", "fill"} => at - 1 <= Len(packages) /\ \A k \in 1 .. at - 1 : Whole(k)
    /\ step \in {"open", "fill"} =>
         at <= Len(packages) /\ \A k \in 1 .. at - 1 : packages[k] # packages[at]
    /\ step \in {"manifest", "list", "compile", "placeholder", "done"} =>
         \A k \in 1 .. Len(packages) : Whole(k)

\* An empty source is a stub that is being written.
EmptyInv == ~faulty => \A s \in Sources : lib[s] = "empty" => step = "fill" /\ s = Source

WrittenInv ==
  ~dryRun /\ ~faulty =>
    /\ step \in {"compile", "placeholder", "done"} => manifest = Listed
    /\ step = "done" => built \in {"program", "placeholder"}

CompleteInv ==
  /\ lib \in [Sources -> LibStates]
  /\ ReadTypes /\ ListInv /\ StagedInv /\ EmptyInv /\ WrittenInv

LEMMA CompleteInit ==
  ASSUME NEW s \in Sessions, BuildInit(s.requirements, s.config)
  PROVE  CompleteInv
<1>1. ReadTypes
  BY SessionsAssumption, DefaultAssumption DEF BuildInit, ReadTypes
<1>2. lib \in [Sources -> LibStates] BY DEF BuildInit, LibStates
<1>3. ListInv /\ StagedInv /\ WrittenInv
  BY DEF BuildInit, ListInv, AfterRequirements, StagedInv, WrittenInv
<1>4. EmptyInv BY DEF BuildInit, EmptyInv
<1> QED BY <1>1, <1>2, <1>3, <1>4 DEF CompleteInv

\* Where no promise is made any more: an exception, or no build.
LEMMA OutsideStep ==
  ASSUME CompleteInv, UNCHANGED <<readVars, loopVars, files>>,
         step' \in {"idle", "thrown"}, ~faulty' => ~faulty /\ step # "fill"
  PROVE  CompleteInv'
<1> USE DEF CompleteInv, loopVars, files, readVars
<1>1. ReadTypes' BY DEF ReadTypes, Requirements, Configs, RequirementLines, ConfigLines, FileStates
<1>2. lib' \in [Sources' -> LibStates'] BY DEF Sources, LibStates
<1>3. ListInv' /\ StagedInv' /\ WrittenInv'
  BY DEF ListInv, AfterRequirements, StagedInv, WrittenInv
<1>4. EmptyInv' BY DEF EmptyInv, Sources, Source
<1> QED BY <1>1, <1>2, <1>3, <1>4

\* A build starts from the beginning of its requirement file.
LEMMA CompleteStart ==
  ASSUME CompleteInv, step = "idle", NEW dry, StartBuild(dry)
  PROVE  CompleteInv'
<1> USE DEF CompleteInv, StartBuild, files, readVars, history
<1>1. ReadTypes'
  BY DefaultAssumption
     DEF ReadTypes, Requirements, Configs, RequirementLines, ConfigLines, FileStates
<1>2. lib' \in [Sources' -> LibStates'] BY DEF Sources, LibStates
<1>3. ListInv'
  <2>1. requirements.lines \in Seq(RequirementLines) BY DEF ReadTypes, Requirements
  <2>2. RequiredBy' = RequiredBy BY DEF RequiredBy
  <2> QED BY <2>1, <2>2, RequiredStep DEF ListInv, AfterRequirements
<1>4. StagedInv' /\ WrittenInv' BY DEF StagedInv, WrittenInv
<1>5. EmptyInv' BY DEF EmptyInv, Sources, Source
<1> QED BY <1>1, <1>2, <1>3, <1>4, <1>5
\* The steps that read the two files, and that change nothing else.
LEMMA CompleteReading ==
  ASSUME CompleteInv,
         \/ NoRequirements \/ ReadRequirement \/ RequirementsEnd
         \/ ConfigUnreadable \/ ReadConfig \/ ConfigEnd
  PROVE  CompleteInv'
<1> DEFINE lines == requirements.lines
<1> USE DEF Goto
<1>1. /\ ReadTypes /\ lines \in Seq(RequirementLines) /\ Len(lines) \in Nat
      /\ config.lines \in Seq(ConfigLines) /\ Len(config.lines) \in Nat
  BY DEF CompleteInv, ReadTypes, Requirements, Configs
<1>2. RequiredBy' = RequiredBy /\ Required' = Required
      /\ UNCHANGED <<readVars, dryRun, files, faulty>>
  <2>1. UNCHANGED <<readVars, dryRun, files, faulty>>
    BY DEF NoRequirements, ReadRequirement, RequirementsEnd, ConfigUnreadable, ReadConfig,
           ConfigEnd, Throw, history
  <2> QED BY <2>1 DEF RequiredBy, Required, readVars
<1>3. SUFFICES ASSUME step' # "thrown" PROVE CompleteInv'
  <2>1. CASE step' = "thrown"
    <3>1. UNCHANGED <<loopVars, faulty>> /\ step # "fill"
      BY <2>1 DEF NoRequirements, ReadRequirement, RequirementsEnd, ConfigUnreadable, ReadConfig,
             ConfigEnd, Throw, history, InRequirements, InConfig
    <3> QED BY <1>2, <2>1, <3>1, OutsideStep
  <2> QED BY <1>3, <2>1
<1>4. lib' \in [Sources' -> LibStates'] BY <1>2 DEF CompleteInv, files, Sources, LibStates
<1>5. /\ step \in {"requirements", "config"} /\ step' \in {"requirements", "config", "directories"}
      /\ at' \in Nat \ {0} /\ libDir' \in LibDirs /\ packages' \in Seq(Names)
      /\ ListInv'
  <2>1. CASE ReadRequirement
    <3> DEFINE line == lines[at]
    <3>1. at \in 1 .. Len(lines) /\ at - 1 \in 0 .. Len(lines) /\ line \in RequirementLines
      BY <1>1, <2>1 DEF ReadRequirement, ReadTypes
    <3>2. packages = RequiredBy[at - 1] /\ packages \in Seq(Names) /\ libDir \in LibDirs
      BY <1>1, <2>1 DEF CompleteInv, ListInv, ReadRequirement, InRequirements, ReadTypes
    <3>3. /\ packages' = IF line.kind = "package" THEN Append(packages, line.name) ELSE packages
          /\ at' = at + 1 /\ libDir' = libDir /\ step = "requirements" /\ step' = "requirements"
      BY <1>3, <2>1 DEF ReadRequirement, Throw, InRequirements
    <3>4. packages' = RequiredBy[at] BY <1>1, <3>1, <3>2, <3>3, RequiredStep
    <3>5. line.kind = "package" => line.name \in Names BY <3>1 DEF RequirementLines
    <3>6. packages' \in Seq(Names) BY <3>2, <3>3, <3>5
    <3>7. at' - 1 = at /\ at' \in Nat \ {0} /\ at <= Len(lines) BY <3>1, <3>3
    <3>8. ListInv' BY <1>2, <3>3, <3>4, <3>7 DEF ListInv, AfterRequirements, readVars
    <3> QED BY <3>2, <3>3, <3>6, <3>7, <3>8
  <2>2. CASE RequirementsEnd
    <3>1. /\ packages = RequiredBy[at - 1] /\ at - 1 <= Len(lines) /\ at > Len(lines)
          /\ at \in Nat
      BY <1>1, <2>2 DEF CompleteInv, ListInv, RequirementsEnd, InRequirements, ReadTypes
    <3>2. at - 1 = Len(lines) BY <1>1, <3>1
    <3>3. packages = Required BY <3>1, <3>2 DEF Required
    <3>4. /\ at' = 1 /\ packages' = packages /\ libDir' = libDir /\ step' = "config"
          /\ step = "requirements"
      BY <2>2 DEF RequirementsEnd, InRequirements
    <3>5. ListInv' BY <1>2, <3>3, <3>4 DEF ListInv
    <3> QED BY <1>1, <3>4, <3>5 DEF ReadTypes
  <2>3. CASE ReadConfig
    <3> DEFINE line == config.lines[at]
    <3>1. at \in 1 .. Len(config.lines) /\ line \in ConfigLines
      BY <1>1, <2>3 DEF ReadConfig, ReadTypes
    <3>2. /\ libDir' = IF line.kind = "lib_dir" THEN line.dir ELSE libDir
          /\ at' = at + 1 /\ packages' = packages /\ step = "config" /\ step' = "config"
      BY <1>3, <2>3 DEF ReadConfig, Throw, InConfig
    <3>3. line.kind = "lib_dir" => line.dir \in LibDirs BY <3>1 DEF ConfigLines
    <3>4. libDir' \in LibDirs /\ packages' \in Seq(Names) BY <1>1, <3>2, <3>3 DEF ReadTypes
    <3>5. at' \in Nat \ {0} BY <3>1, <3>2
    <3>6. ListInv' BY <1>2, <3>2 DEF CompleteInv, ListInv, AfterRequirements
    <3> QED BY <3>2, <3>4, <3>5, <3>6
  <2>4. CASE ConfigEnd
    <3>1. at' = 1 /\ UNCHANGED <<packages, libDir>> /\ step = "config" /\ step' = "directories"
      BY <2>4 DEF ConfigEnd
    <3>2. ListInv' BY <1>2, <3>1 DEF CompleteInv, ListInv, AfterRequirements
    <3> QED BY <1>1, <3>1, <3>2 DEF ReadTypes
  <2> QED BY <1>3, <2>1, <2>2, <2>3, <2>4 DEF NoRequirements, ConfigUnreadable, Throw
<1>6. ReadTypes'
  BY <1>1, <1>2, <1>5 DEF ReadTypes, readVars, Requirements, Configs, RequirementLines, ConfigLines,
                          FileStates
<1>7. StagedInv' /\ WrittenInv' BY <1>5 DEF StagedInv, WrittenInv
<1>8. EmptyInv' BY <1>2, <1>5 DEF CompleteInv, EmptyInv, files, Sources
<1> QED BY <1>4, <1>5, <1>6, <1>7, <1>8 DEF CompleteInv
\* A step behind the reading of the files that keeps what they said.
LEMMA KeptFiles ==
  ASSUME CompleteInv, UNCHANGED <<readVars, packages, libDir>>, at' \in Nat \ {0},
         lib' \in [Sources -> LibStates], step \in AfterRequirements,
         step' \in AfterRequirements, step' # "directories"
  PROVE  ReadTypes' /\ ListInv' /\ lib' \in [Sources' -> LibStates']
<1>1. ReadTypes'
  BY DEF CompleteInv, readVars, ReadTypes, Requirements, Configs, RequirementLines, ConfigLines,
         FileStates
<1>2. Required' = Required BY DEF Required, RequiredBy, readVars
<1>3. ListInv' BY <1>2 DEF CompleteInv, ListInv, AfterRequirements
<1> QED BY <1>1, <1>3 DEF Sources, LibStates

\* The source of a package is one of the sources.
LEMMA SourceIsOne ==
  ASSUME ReadTypes, NEW k \in 1 .. Len(packages)
  PROVE  <<libDir, packages[k]>> \in Sources
  BY DEF ReadTypes, Sources

\* The staging of the packages.
LEMMA CompleteStaging ==
  ASSUME CompleteInv, FileInv,
         MakeDirectories \/ StageDry \/ LookForSource \/ OpenStub \/ FillStub \/ StageEnd
  PROVE  CompleteInv'
<1> USE DEF Goto
<1>1. /\ ReadTypes /\ StagedInv /\ EmptyInv /\ lib \in [Sources -> LibStates]
      /\ at \in Nat \ {0} /\ Len(packages) \in Nat /\ packages \in Seq(Names)
  BY DEF CompleteInv, ReadTypes
<1>2. ASSUME step' = "thrown" PROVE CompleteInv'
  <2>1. UNCHANGED <<readVars, loopVars, files, faulty>> /\ step' = "thrown" /\ step # "fill"
    BY <1>2 DEF Throw, history, MakeDirectories, StageDry, LookForSource, OpenStub, FillStub,
                StageEnd, NextPackage, Staging
  <2> QED BY <2>1, OutsideStep
<1>3. ASSUME step' # "thrown" PROVE CompleteInv'
  <2>1. /\ UNCHANGED <<readVars, dryRun, packages, libDir, manifest, built>>
        /\ at' \in {at, at + 1} \cup {1}
        /\ step \in {"directories", "stage", "open", "fill"}
        /\ step' \in {"stage", "open", "fill", "manifest"}
        /\ ~faulty' => ~faulty
    BY <1>3 DEF Throw, history, MakeDirectories, StageDry, LookForSource, OpenStub, FillStub,
                StageEnd, NextPackage, Staging, loopVars, files
  <2>2. WrittenInv' BY <2>1 DEF WrittenInv
  <2>3. /\ lib' \in [Sources -> LibStates]
        /\ \A s \in Sources : s # Source => lib'[s] = lib[s]
    <3>1. \/ lib' = lib
          \/ lib' = [lib EXCEPT ![Source] = "empty"]
          \/ lib' = [lib EXCEPT ![Source] = "stub"]
      BY <1>3 DEF Throw, MakeDirectories, StageDry, LookForSource, OpenStub, FillStub, StageEnd,
                  files
    <3> QED BY <1>1, <3>1 DEF LibStates
  <2>4. at' \in Nat \ {0} BY <1>1, <2>1
  <2>5. SUFFICES StagedInv' /\ EmptyInv'
    <3>1. ReadTypes' /\ ListInv' /\ lib' \in [Sources' -> LibStates']
      BY <2>1, <2>3, <2>4, KeptFiles DEF AfterRequirements
    <3> QED BY <2>2, <2>5, <3>1 DEF CompleteInv
  <2> DEFINE Pack(k) == <<libDir, packages[k]>>
  <2>6. /\ Source \in Sources \/ at > Len(packages)
        /\ \A k \in 1 .. Len(packages) :
             Pack(k) \in Sources /\ (Pack(k) = Source => packages[k] = packages[at])
    BY <1>1, SourceIsOne DEF Source
  <2>7. ASSUME ~faulty', ~dryRun
        PROVE  /\ step' \in {"stage", "open", "fill"} =>
                    at' - 1 <= Len(packages) /\ \A k \in 1 .. at' - 1 : lib'[Pack(k)] \in {"stub", "saved"}
               /\ step' \in {"open", "fill"} =>
                    at' <= Len(packages) /\ \A k \in 1 .. at' - 1 : packages[k] # packages[at']
               /\ step' = "manifest" =>
                    \A k \in 1 .. Len(packages) : lib'[Pack(k)] \in {"stub", "saved"}
               /\ \A s \in Sources : lib'[s] = "empty" => step' = "fill" /\ s = Source /\ at' = at
    <3>1. /\ step \in {"stage", "open", "fill"} =>
               at - 1 <= Len(packages) /\ \A k \in 1 .. at - 1 : lib[Pack(k)] \in {"stub", "saved"}
          /\ step \in {"open", "fill"} =>
               at <= Len(packages) /\ \A k \in 1 .. at - 1 : packages[k] # packages[at]
          /\ \A s \in Sources : lib[s] = "empty" => step = "fill" /\ s = Source
          /\ ~faulty
      BY <1>1, <2>1, <2>7 DEF StagedInv, EmptyInv, Whole
    <3> HIDE DEF Pack
    <3>2. CASE MakeDirectories
      <4>1. step = "directories" /\ step' = "stage" /\ at' = at /\ lib' = lib
        BY <1>3, <3>2 DEF MakeDirectories, Throw, loopVars, files
      <4>2. at = 1 BY <4>1 DEF CompleteInv, ListInv
      <4> QED BY <1>1, <3>1, <4>1, <4>2
    <3>3. CASE LookForSource
      <4>1. step = "stage" /\ at \in 1 .. Len(packages) /\ lib' = lib
        BY <1>1, <1>3, <3>3 DEF LookForSource, Staging, Throw, files
      <4>2. CASE IsStaged /\ NextPackage
        <5>1. lib[Source] \in {"stub", "saved"}
          BY <1>1, <2>6, <3>1, <4>1, <4>2 DEF IsStaged, LibStates
        <5>2. Pack(at) = Source BY DEF Source, Pack
        <5>3. at' = at + 1 /\ step' = "stage" BY <4>2 DEF NextPackage
        <5>4. \A k \in 1 .. at : lib[Pack(k)] \in {"stub", "saved"}
          BY <1>1, <3>1, <4>1, <5>1, <5>2
        <5> QED BY <1>1, <3>1, <4>1, <5>3, <5>4
      <4>3. CASE ~IsStaged /\ Goto("open") /\ UNCHANGED loopVars
        <5>1. lib[Source] = "absent" /\ at' = at /\ step' = "open"
          BY <4>3 DEF IsStaged, loopVars
        <5>2. \A k \in 1 .. at - 1 : packages[k] # packages[at]
          <6>1. \A k \in 1 .. at - 1 : Pack(k) # Source BY <3>1, <4>1, <5>1
          <6> QED BY <6>1 DEF Pack, Source
        <5> QED BY <1>1, <3>1, <4>1, <5>1, <5>2
      <4> QED BY <1>3, <3>3, <4>2, <4>3 DEF LookForSource, Throw
    <3>4. CASE OpenStub
      <4>1. /\ lib' = [lib EXCEPT ![Source] = "empty"] /\ step = "open" /\ step' = "fill"
            /\ at' = at
        BY <2>7, <3>4 DEF OpenStub, loopVars
      <4>2. \A k \in 1 .. at - 1 : Pack(k) # Source /\ Pack(k) \in Sources
        BY <1>1, <2>6, <3>1, <4>1
      <4>3. \A k \in 1 .. at - 1 : lib'[Pack(k)] = lib[Pack(k)] BY <2>3, <4>2
      <4> QED BY <1>1, <2>3, <3>1, <4>1, <4>3
    <3>5. CASE FillStub
      <4>1. /\ lib' = [lib EXCEPT ![Source] = "stub"] /\ step = "fill" /\ step' = "stage"
            /\ at' = at + 1
        BY <2>7, <3>5 DEF FillStub, NextPackage
      <4>2. \A k \in 1 .. at - 1 : Pack(k) # Source /\ Pack(k) \in Sources
        BY <1>1, <2>6, <3>1, <4>1
      <4>3. \A k \in 1 .. at - 1 : lib'[Pack(k)] = lib[Pack(k)] BY <2>3, <4>2
      <4>4. Source \in Sources /\ lib'[Source] = "stub" /\ Pack(at) = Source
        BY <1>1, <2>6, <3>1, <4>1 DEF Pack, Source
      <4>5. \A k \in 1 .. at : lib'[Pack(k)] \in {"stub", "saved"}
        BY <1>1, <3>1, <4>1, <4>3, <4>4
      <4> QED BY <1>1, <2>3, <3>1, <4>1, <4>4, <4>5
    <3>6. CASE StageEnd
      <4>1. /\ step = "stage" /\ step' = "manifest" /\ at > Len(packages) /\ lib' = lib
            /\ at' = at
        BY <3>6 DEF StageEnd, files, loopVars
      <4> QED BY <1>1, <3>1, <4>1
    <3> QED BY <2>7, <3>2, <3>3, <3>4, <3>5, <3>6 DEF StageDry
  <2>8. StagedInv' BY <2>1, <2>7 DEF StagedInv, Whole
  <2>9. EmptyInv'
    <3> SUFFICES ASSUME ~faulty', NEW s \in Sources, lib'[s] = "empty"
                 PROVE  step' = "fill" /\ s = Source'
      BY DEF EmptyInv, Sources
    <3>1. CASE dryRun
      <4>1. step \notin {"open", "fill"} BY <3>1 DEF FileInv, DryInv
      <4>2. lib' = lib
        BY <1>3, <4>1 DEF Throw, MakeDirectories, StageDry, LookForSource, OpenStub, FillStub,
                          StageEnd, files
      <4> QED BY <1>1, <2>1, <4>1, <4>2 DEF EmptyInv
    <3>2. CASE ~dryRun
      <4>1. step' = "fill" /\ s = Source /\ at' = at BY <2>7, <3>2
      <4>2. Source' = Source BY <2>1, <4>1 DEF Source
      <4> QED BY <4>1, <4>2
    <3> QED BY <3>1, <3>2
  <2> QED BY <2>8, <2>9
<1> QED BY <1>2, <1>3
\* The manifest and the output.
LEMMA CompleteWriting ==
  ASSUME CompleteInv,
         SkipManifest \/ OpenManifest \/ ListPackages \/ CompileDry \/ InvokeCompiler
           \/ WritePlaceholder
  PROVE  CompleteInv'
<1> USE DEF Goto, history
<1>1. ReadTypes /\ StagedInv /\ WrittenInv /\ EmptyInv BY DEF CompleteInv
<1>2. /\ UNCHANGED <<readVars, loopVars, dryRun, lib>>
      /\ ~faulty' => ~faulty
      /\ step \in {"manifest", "list", "compile", "placeholder"}
  BY DEF SkipManifest, OpenManifest, ListPackages, CompileDry, InvokeCompiler, WritePlaceholder,
         Throw, files
<1>3. ASSUME step' = "thrown" PROVE CompleteInv'
  <2>1. UNCHANGED <<files, faulty>>
    BY <1>3 DEF SkipManifest, OpenManifest, ListPackages, CompileDry, InvokeCompiler,
                WritePlaceholder, Throw
  <2> QED BY <1>2, <1>3, <2>1, OutsideStep
<1>4. ASSUME step' # "thrown" PROVE CompleteInv'
  <2>1. step' \in {"list", "compile", "placeholder", "done"}
    BY <1>4 DEF SkipManifest, OpenManifest, ListPackages, CompileDry, InvokeCompiler,
                WritePlaceholder, Throw
  <2>2. /\ at' \in Nat \ {0} /\ lib' \in [Sources -> LibStates]
        /\ UNCHANGED <<packages, libDir>>
    BY <1>2 DEF CompleteInv, ReadTypes, loopVars
  <2>3. ReadTypes' /\ ListInv' /\ lib' \in [Sources' -> LibStates']
    BY <1>2, <2>1, <2>2, KeptFiles DEF AfterRequirements
  <2>4. StagedInv' BY <1>1, <1>2, <2>1, <2>2 DEF StagedInv, Whole
  <2>5. EmptyInv' BY <1>1, <1>2 DEF EmptyInv, Sources
  <2>6. WrittenInv'
    <3> SUFFICES ASSUME ~dryRun, ~faulty'
                 PROVE  /\ step' \in {"compile", "placeholder", "done"} => manifest' = Listed'
                        /\ step' = "done" => built' \in {"program", "placeholder"}
      BY <1>2 DEF WrittenInv
    <3>1. /\ step \in {"compile", "placeholder", "done"} => manifest = Listed
          /\ step = "done" => built \in {"program", "placeholder"}
      BY <1>1, <1>2 DEF WrittenInv
    <3>2. Listed' = Listed BY <2>2 DEF Listed
    <3>3. CASE OpenManifest \/ ListPackages
      BY <3>1, <3>2, <3>3, <1>4 DEF OpenManifest, ListPackages, Throw
    <3>4. CASE InvokeCompiler \/ WritePlaceholder
      BY <3>1, <3>2, <3>4, <1>4 DEF InvokeCompiler, WritePlaceholder, Throw
    <3> QED BY <3>3, <3>4 DEF SkipManifest, CompileDry
  <2> QED BY <2>3, <2>4, <2>5, <2>6 DEF CompleteInv
<1> QED BY <1>3, <1>4

\* The user's saves take nothing away.
LEMMA CompleteSave == ASSUME CompleteInv, Save PROVE CompleteInv'
<1>1. PICK s \in Sources : lib' = [lib EXCEPT ![s] = "saved"] BY DEF Save
<1>2. UNCHANGED <<step, readVars, loopVars, dryRun, manifest, built, faulty>> BY DEF Save
<1>3. /\ lib' \in [Sources -> LibStates]
      /\ \A t \in Sources : lib'[t] = lib[t] \/ lib'[t] = "saved"
  BY <1>1 DEF CompleteInv, LibStates
<1>4. ReadTypes'
  BY <1>2 DEF CompleteInv, ReadTypes, loopVars, readVars, Requirements, Configs, RequirementLines,
              ConfigLines, FileStates
<1>5. ListInv'
  <2>1. RequiredBy' = RequiredBy BY <1>2 DEF RequiredBy, readVars
  <2> QED BY <1>2, <2>1 DEF CompleteInv, ListInv, AfterRequirements, Required, loopVars, readVars
<1>6. StagedInv'
  <2>1. \A k \in 1 .. Len(packages) : <<libDir, packages[k]>> \in Sources
    BY SourceIsOne DEF CompleteInv
  <2>2. \A k \in 1 .. Len(packages) : Whole(k) => Whole(k)'
    BY <1>2, <1>3, <2>1 DEF Whole, loopVars
  <2>3. at - 1 <= Len(packages) => \A k \in 1 .. at - 1 : k \in 1 .. Len(packages)
    BY DEF CompleteInv, ReadTypes
  <2> QED BY <1>2, <2>2, <2>3 DEF CompleteInv, StagedInv, loopVars
<1>7. EmptyInv' BY <1>2, <1>3 DEF CompleteInv, EmptyInv, Sources, Source, loopVars
<1>8. WrittenInv' BY <1>2 DEF CompleteInv, WrittenInv, Listed, loopVars
<1> QED BY <1>3, <1>4, <1>5, <1>6, <1>7, <1>8 DEF CompleteInv, Sources, LibStates

\* run_build runs only where nanlang, or npi, waits for it.
IdleInv == phase # "pkg" => step = "idle"

LEMMA CompleteStep ==
  ASSUME FileInv, CompleteInv, IdleInv, [Next]_vars
  PROVE  CompleteInv' /\ IdleInv'
<1> USE DEF Exit
<1>1. CASE phase = "pkg" /\ BuildStep /\ UNCHANGED cliVars
  <2>1. IdleInv' BY <1>1 DEF IdleInv, cliVars
  <2> QED BY <1>1, <2>1, CompleteReading, CompleteStaging, CompleteWriting DEF BuildStep
<1>2. CASE Save /\ UNCHANGED cliVars
  <2>1. IdleInv' BY <1>2 DEF IdleInv, cliVars, Save
  <2> QED BY <1>2, <2>1, CompleteSave
<1>3. CASE RunPkg
  <2>1. step = "idle" /\ phase' = "pkg" BY <1>3 DEF RunPkg, IdleInv
  <2>2. \E dry : StartBuild(dry) BY <1>3 DEF RunPkg
  <2> QED BY <2>1, <2>2, CompleteStart DEF IdleInv
<1>4. CASE PkgReturns \/ Kill
  <2>1. /\ UNCHANGED <<readVars, loopVars, files>> /\ step' = "idle"
        /\ ~faulty' => ~faulty /\ step # "fill"
    <3>1. CASE PkgReturns BY <3>1 DEF PkgReturns, ReturnFromBuild, history
    <3>2. CASE Kill
      <4>1. faulty' = (faulty \/ step \in {"fill", "list", "placeholder"})
        BY <3>2, Zenon DEF Kill, KillBuild
      <4>2. "fill" \in {"fill", "list", "placeholder"} OBVIOUS
      <4>3. ~faulty' => ~faulty /\ step # "fill" BY <4>1, <4>2, Zenon
      <4>4. UNCHANGED <<readVars, loopVars, files>> /\ step' = "idle" BY <3>2 DEF Kill, KillBuild
      <4> QED BY <4>3, <4>4
    <3> QED BY <1>4, <3>1, <3>2
  <2> QED BY <2>1, OutsideStep DEF IdleInv
<1>5. ASSUME \/ Help \/ Delegate \/ RefusePkg \/ StartCompile \/ MakeTemp
             \/ Preprocess \/ CallCompiler \/ Cpp \/ CleanUp \/ NextCommand
      PROVE  CompleteInv' /\ IdleInv'
  <2>1. /\ phase # "pkg" /\ step' = step /\ UNCHANGED <<readVars, loopVars, files>>
        /\ ~faulty' => ~faulty
    <3> USE DEF buildVars, history
    <3>1. CASE Help \/ Delegate BY <3>1 DEF Help, Delegate
    <3>2. CASE RefusePkg \/ StartCompile BY <3>2 DEF RefusePkg, StartCompile
    <3>3. CASE MakeTemp \/ Preprocess BY <3>3 DEF MakeTemp, Preprocess
    <3>4. CASE CallCompiler BY <3>4 DEF CallCompiler
    <3>5. CASE Cpp BY <3>5 DEF Cpp
    <3>6. CASE CleanUp \/ NextCommand BY <3>6 DEF CleanUp, NextCommand
    <3> QED BY <1>5, <3>1, <3>2, <3>3, <3>4, <3>5, <3>6
  <2>2. step = "idle" BY <2>1 DEF IdleInv
  <2> QED BY <2>1, <2>2, OutsideStep DEF IdleInv
<1>6. CASE UNCHANGED vars
  <2>1. UNCHANGED <<step, readVars, loopVars, files, dryRun, faulty, phase>>
    BY <1>6 DEF vars, buildVars, cliVars, history
  <2>2. /\ ReadTypes' /\ lib' \in [Sources' -> LibStates']
    BY <2>1 DEF CompleteInv, ReadTypes, loopVars, readVars, files, Requirements, Configs,
                RequirementLines, ConfigLines, FileStates, Sources, LibStates
  <2>3. ListInv' BY <2>1 DEF CompleteInv, ListInv, AfterRequirements, Required, RequiredBy, loopVars, readVars
  <2>4. StagedInv' /\ WrittenInv'
    BY <2>1 DEF CompleteInv, StagedInv, WrittenInv, Whole, Listed, loopVars, files
  <2>5. EmptyInv' BY <2>1 DEF CompleteInv, EmptyInv, Sources, Source, loopVars, files
  <2>6. IdleInv' BY <2>1 DEF IdleInv
  <2> QED BY <2>2, <2>3, <2>4, <2>5, <2>6 DEF CompleteInv
<1> QED BY <1>1, <1>2, <1>3, <1>4, <1>5, <1>6 DEF Next

\* A build that ends well has a source for each package of its requirement
\* file, a manifest with just these, and an output (run_build), whatever was
\* built before it and whatever the user saves meanwhile.
THEOREM GoodBuildsAreAlwaysComplete == Spec => []GoodBuildsAreComplete
<1>1. Init => CompleteInv /\ IdleInv
  <2> SUFFICES ASSUME Init PROVE CompleteInv /\ IdleInv OBVIOUS
  <2>1. PICK s \in Sessions : BuildInit(s.requirements, s.config) BY DEF Init
  <2> QED BY <2>1, CompleteInit DEF IdleInv, BuildInit
<1>2. IInv /\ CompleteInv /\ IdleInv /\ [Next]_vars => CompleteInv' /\ IdleInv'
  BY CompleteStep DEF IInv
<1>3. CompleteInv => GoodBuildsAreComplete
  <2> SUFFICES ASSUME CompleteInv, step = "done", ~dryRun, ~faulty
               PROVE  /\ \A k \in DOMAIN Required : lib[<<libDir, Required[k]>>] \in {"stub", "saved"}
                      /\ manifest = [state |-> "listed", packages |-> Required]
                      /\ built \in {"program", "placeholder"}
    BY DEF GoodBuildsAreComplete
  <2>1. packages = Required /\ packages \in Seq(Names)
    BY DEF CompleteInv, ListInv, AfterRequirements, ReadTypes
  <2>2. \A k \in 1 .. Len(packages) : lib[<<libDir, packages[k]>>] \in {"stub", "saved"}
    BY DEF CompleteInv, StagedInv, Whole
  <2>3. manifest = [state |-> "listed", packages |-> packages]
        /\ built \in {"program", "placeholder"}
    BY DEF CompleteInv, WrittenInv, Listed
  <2> QED BY <2>1, <2>2, <2>3
<1> QED BY InvAlways, <1>1, <1>2, <1>3, PTL DEF Spec
------------------------------------------------------------------------------
\* The two parsers of nanlang_cpp

\* A token is behind an option that is not behind one itself.
LEMMA BehindStep ==
  ASSUME NEW args, Len(args) \in Nat, NEW options
  PROVE  \A i \in 0 .. Len(args) :
           Behind(args, options)[i] <=>
             i > 1 /\ args[i - 1] \in options /\ ~Behind(args, options)[i - 1]
<1> DEFINE H == [q \in Nat \X BOOLEAN |-> q[1] > 1 /\ args[q[1] - 1] \in options /\ ~q[2]]
           Is(g) == g = [i \in 0 .. Len(args) |-> i > 1 /\ args[i - 1] \in options /\ ~g[i - 1]]
<1>1. PICK g : IsRecursive(g, FALSE, H, Len(args)) BY RecursionExists
<1>2. \A i \in 0 .. Len(args) : g[i] = IF i = 0 THEN FALSE ELSE H[<<i, g[i - 1]>>]
  BY <1>1 DEF IsRecursive
<1>3. \A i \in Nat, b \in BOOLEAN :
        H[<<i, b>>] = (i > 1 /\ args[i - 1] \in options /\ ~b)
  OBVIOUS
<1> HIDE DEF H
<1>4. \A i \in 0 .. Len(args) : g[i] \in BOOLEAN
  <2> DEFINE S == {i \in Nat : i <= Len(args) => g[i] \in BOOLEAN}
  <2>1. 0 \in S
    <3>1. 0 \in 0 .. Len(args) OBVIOUS
    <3>2. g[0] = FALSE BY <1>2, <3>1
    <3> QED BY <3>2
  <2>2. ASSUME NEW i \in S PROVE i + 1 \in S
    <3> SUFFICES ASSUME i + 1 <= Len(args) PROVE g[i + 1] \in BOOLEAN OBVIOUS
    <3>1. i + 1 \in 0 .. Len(args) /\ i + 1 # 0 /\ (i + 1) - 1 = i /\ i + 1 \in Nat OBVIOUS
    <3>2. g[i + 1] = H[<<i + 1, g[i]>>] BY <1>2, <3>1
    <3>3. g[i] \in BOOLEAN OBVIOUS
    <3> QED BY <1>3, <3>1, <3>2, <3>3
  <2>3. S \in SUBSET Nat OBVIOUS
  <2> HIDE DEF S
  <2>4. S = Nat BY <2>1, <2>2, <2>3, NatInduct
  <2> QED BY <2>4 DEF S
<1>5. ASSUME NEW i \in 0 .. Len(args)
      PROVE  g[i] = (i > 1 /\ args[i - 1] \in options /\ ~g[i - 1])
  <2>1. CASE i = 0
    <3>1. 0 \in 0 .. Len(args) /\ ~(0 > 1) OBVIOUS
    <3>2. g[0] = FALSE BY <1>2, <3>1
    <3> QED BY <2>1, <3>1, <3>2, Zenon
  <2>2. CASE i # 0
    <3>1. i - 1 \in 0 .. Len(args) /\ i \in Nat BY <2>2
    <3>2. g[i] = H[<<i, g[i - 1]>>] BY <1>2, <2>2
    <3>3. g[i - 1] \in BOOLEAN BY <1>4, <3>1
    <3> QED BY <1>3, <3>1, <3>2, <3>3, Zenon
  <2> QED BY <2>1, <2>2
<1>6. Is(g)
  <2>1. g = [i \in 0 .. Len(args) |-> g[i]] BY <1>1 DEF IsRecursive
  <2> QED BY <2>1, <1>5, Zenon
<1>7. Behind(args, options) = CHOOSE f : Is(f) BY Zenon DEF Behind
<1>8. Is(Behind(args, options))
  <2> HIDE DEF Is
  <2> QED BY <1>6, <1>7
<1> QED BY <1>8, Zenon
\* A set of numbers up to n has a greatest one.
LEMMA GreatestElement ==
  ASSUME NEW n \in Nat, NEW T \in SUBSET (1 .. n), T # {}
  PROVE  \E m \in T : \A k \in T : k <= m
<1> DEFINE U == {u \in Nat : \A k \in T : k <= u}
<1>1. U \in SUBSET Nat /\ n \in U OBVIOUS
<1>2. PICK m \in U : \A u \in U : m <= u
  <2> HIDE DEF U
  <2> QED BY <1>1, LeastElement
<1>3. m \in T
  <2> SUFFICES ASSUME m \notin T PROVE FALSE OBVIOUS
  <2>1. \A k \in T : k < m /\ k \in Nat /\ m \in Nat BY <1>2
  <2>2. m # 0
    <3>1. PICK k \in T : TRUE OBVIOUS
    <3>2. k < m /\ k \in 1 .. n BY <2>1, <3>1
    <3> QED BY <3>2
  <2>3. m - 1 \in U BY <2>1, <2>2
  <2> QED BY <1>2, <2>3
<1> QED BY <1>2, <1>3
\* A token of a command line is the option it looks like.
LEMMA TokenIsOption ==
  ASSUME NEW t \in Tokens, NEW k
  PROVE  /\ t = Long(k) <=> t.dashes = 2 /\ t.name = k /\ t.value = NoValue
         /\ t = Word(k) <=> t.dashes = 0 /\ t.name = k /\ t.value = NoValue
  BY DEF Tokens, Long, Word

\* What documented options are, one by one.
LEMMA DocumentedToken ==
  ASSUME NEW args \in Seq(Tokens), DocumentedOptions(args), NEW i \in 1 .. Len(args)
  PROVE  /\ args[i] \in Tokens
         /\ args[i].dashes \in {0, 2}
         /\ args[i].dashes = 2 => args[i].value = NoValue
         /\ args[i].dashes = 2 /\ args[i].name = "output" =>
              args[i] = Long("output") /\ i + 1 \in 1 .. Len(args) /\ args[i + 1].dashes = 0
         /\ args[i] = Long("output") => args[i].dashes = 2 /\ args[i].name = "output"
         /\ args[i].dashes = 0 => i > 1 /\ args[i - 1] = Long("output")
<1>1. args[i] \in Tokens /\ i \in DOMAIN args /\ Len(args) \in Nat BY ElementOfSeq
<1>2. \/ args[i].dashes = 2 /\ args[i].value = NoValue /\ args[i].name \in ModeNames \cup {"aot"}
      \/ args[i] = Long("output") /\ Takes(args, i)
      \/ args[i].dashes = 0 /\ i > 1 /\ args[i - 1] = Long("output")
  BY <1>1 DEF DocumentedOptions
<1>3. "output" \notin ModeNames \cup {"aot"} BY DEF ModeNames
<1> QED BY <1>1, <1>2, <1>3, TokenIsOption DEF Takes, Long

\* Both parsers of nanlang_cpp find the same in documented options.
LEMMA ParsersAgreeOn ==
  ASSUME NEW args \in Seq(Tokens), DocumentedOptions(args)
  PROVE  FastParse(args) = ArgsParse(args)
<1>1. Len(args) \in Nat /\ DOMAIN args = 1 .. Len(args) OBVIOUS
<1>2. ASSUME NEW i \in 1 .. Len(args), args[i].dashes = 2 PROVE ~Eaten(args)[i]
  <2> SUFFICES ASSUME Eaten(args)[i] PROVE FALSE OBVIOUS
  <2>1. i > 1 /\ args[i - 1] \in {Long("output")}
    BY <1>1, BehindStep DEF Eaten
  <2>2. i - 1 \in 1 .. Len(args) /\ (i - 1) + 1 = i BY <1>1, <2>1
  <2>3. args[i].dashes = 0 BY <2>1, <2>2, DocumentedToken
  <2> QED BY <1>2, <2>3
<1> DEFINE fast == {i \in DOMAIN args : /\ args[i].dashes = 2 /\ args[i].name = "output"
                                        /\ ~Eaten(args)[i]}
           slow == {i \in DOMAIN args : /\ args[i].dashes = 2 /\ args[i].name = "output"
                                        /\ args[i].value = NoValue /\ Takes(args, i)}
           modes == FastModes(args)
<1>3. fast = slow /\ \A i \in slow : args[i].value = NoValue
  <2>1. \A i \in 1 .. Len(args) : args[i].dashes = 2 /\ args[i].name = "output" =>
          args[i].value = NoValue /\ Takes(args, i)
    BY <1>1, DocumentedToken DEF Takes
  <2> QED BY <1>1, <1>2, <2>1
<1>4. FastOut(args) = ArgsGet(args, "output", DefaultOut)
  <2> DEFINE last(is) == CHOOSE i \in is : \A j \in is : j <= i
  <2>1. FastOut(args) = IF fast = {} THEN DefaultOut
                        ELSE IF args[last(fast)].value # NoValue THEN args[last(fast)].value
                        ELSE args[last(fast) + 1].name
    BY DEF FastOut
  <2>2. ArgsGet(args, "output", DefaultOut) =
          IF slow = {} THEN DefaultOut ELSE args[last(slow) + 1].name
    BY DEF ArgsGet
  <2>3. slow # {} => last(slow) \in slow
    <3> SUFFICES ASSUME slow # {} PROVE \E i \in slow : \A j \in slow : j <= i OBVIOUS
    <3>1. slow \subseteq 1 .. Len(args) BY <1>1
    <3> HIDE DEF slow
    <3> QED BY <1>1, <3>1, GreatestElement
  <2> HIDE DEF fast, slow, last
  <2> QED BY <1>3, <2>1, <2>2, <2>3
<1>5. ~(args # <<>> /\ args[Len(args)] = Long("output") /\ ~Eaten(args)[Len(args)])
  <2> SUFFICES ASSUME args # <<>>, args[Len(args)] = Long("output") PROVE FALSE OBVIOUS
  <2>1. Len(args) \in 1 .. Len(args) BY <1>1
  <2>2. Len(args) + 1 \in 1 .. Len(args) BY <2>1, DocumentedToken
  <2> QED BY <1>1, <2>2
<1>6. /\ modes \subseteq 1 .. Len(args)
      /\ \A i \in 1 .. Len(args) :
           i \in modes <=> args[i].dashes = 2 /\ args[i].name \in ModeNames /\ args[i].value = NoValue
      /\ \A i, j \in modes : i = j
  BY <1>1, <1>2 DEF FastModes, DocumentedOptions
<1>7. (modes # {} /\ args[CHOOSE i \in modes : \A j \in modes : j <= i].name = "bin")
        <=> ArgsHas(args, "bin")
  <2>1. "bin" \in ModeNames BY DEF ModeNames
  <2>2. ASSUME ArgsHas(args, "bin")
        PROVE  modes # {} /\ args[CHOOSE i \in modes : \A j \in modes : j <= i].name = "bin"
    <3>1. PICK i \in 1 .. Len(args) : /\ args[i].dashes = 2 /\ args[i].name = "bin"
                                      /\ args[i].value = NoValue
      BY <1>1, <2>2 DEF ArgsHas
    <3>2. i \in modes BY <1>6, <2>1, <3>1
    <3> HIDE DEF modes
    <3>3. modes = {i} /\ \A j \in modes : j <= i
      <4>1. \A j \in modes : j = i BY <1>6, <3>2, Zenon
      <4>2. modes = {i} BY <3>2, <4>1
      <4>3. i \in Nat BY <1>1, <3>1
      <4> QED BY <4>1, <4>2, <4>3
    <3>4. (CHOOSE k \in modes : \A j \in modes : j <= k) = i BY <3>3
    <3> QED BY <3>1, <3>2, <3>4
  <2>3. ASSUME modes # {}, args[CHOOSE i \in modes : \A j \in modes : j <= i].name = "bin"
        PROVE  ArgsHas(args, "bin")
    <3>1. PICK i \in modes : TRUE BY <2>3
    <3> HIDE DEF modes
    <3>2. modes = {i} /\ \A j \in modes : j <= i
      <4>1. \A j \in modes : j = i BY <1>6, <3>1, Zenon
      <4>2. modes = {i} BY <3>1, <4>1
      <4>3. i \in 1 .. Len(args) BY <1>6, <3>1
      <4>4. i \in Nat BY <1>1, <4>3
      <4> QED BY <4>1, <4>2, <4>4
    <3>3. (CHOOSE k \in modes : \A j \in modes : j <= k) = i BY <3>2
    <3> QED BY <1>1, <1>6, <2>3, <3>1, <3>3 DEF ArgsHas
  <2> QED BY <2>2, <2>3
<1>8. FastParse(args) = [ok |-> TRUE, out |-> FastOut(args),
         bin |-> modes # {} /\ args[CHOOSE i \in modes : \A j \in modes : j <= i].name = "bin"]
  <2>1. ~\E i, j \in modes : i # j BY <1>6
  <2> HIDE DEF modes
  <2> QED BY <1>5, <2>1, Zenon DEF FastParse, modes
<1>9. ArgsParse(args) = [ok |-> TRUE, out |-> ArgsGet(args, "output", DefaultOut),
                         bin |-> ArgsHas(args, "bin")]
  BY Zenon DEF ArgsParse
<1>10. (modes # {} /\ args[CHOOSE i \in modes : \A j \in modes : j <= i].name = "bin")
         = ArgsHas(args, "bin")
  <2>1. ArgsHas(args, "bin") \in BOOLEAN BY Zenon DEF ArgsHas
  <2> QED BY <1>7, <2>1, Zenon
<1> HIDE DEF modes
<1> QED BY <1>4, <1>8, <1>9, <1>10, Zenon
------------------------------------------------------------------------------
\* The exit status and the output

CommandTypes ==
  /\ command \in Commands /\ Kv(command.args, "output") \in Outputs \cup {NoValue}
  /\ later \in Seq(Commands)
  /\ \A i \in 1 .. Len(later) : Kv(later[i].args, "output") \in Outputs \cup {NoValue}

\* The form of the file the user asked for.
WantedForm == IF command.verb = "compile" /\ ArgsHas(command.args, "bin") THEN "bin" ELSE "elf"

\* What nanlang_cpp is called with.
Call == IF command.verb = "compile"
          THEN <<Word("compile")>> \o CompileArgs(command.args)
          ELSE <<Long("compile"), Word(TempFile), Long("elf"), Long("output"),
                 Word(IF Kv(command.args, "output") = NoValue
                        THEN DefaultBuildOut ELSE Kv(command.args, "output"))>>

\* The way of a command through nanlang.
PathInv ==
  /\ phase \in {"temp", "preprocess", "call", "cpp", "cleanup"} =>
       command.program = "nanlang" /\ command.verb \in {"compile", "build"}
  /\ phase = "pkg" => ~(command.program = "nanlang" /\ command.verb = "compile")
  /\ phase = "cpp" => argv = Call

\* The files that were written, and how.
OutsInv ==
  /\ outs \in [Outputs -> {"old", "partial", "elf", "bin"}]
  /\ phase \notin {"cleanup", "exited", "killed"} => \A o \in Outputs : outs[o] = "old"
  /\ Documented => \A o \in Outputs : outs[o] # "old" => o = Wanted
  /\ phase \in {"cleanup", "exited"} /\ status = 0 /\ Documented /\ ~faulty =>
       outs[Wanted] = WantedForm

StatusInv == CommandTypes /\ PathInv /\ OutsInv

\* The source of a command line that begins with it is the first token.
LEMMA SourceFirst ==
  ASSUME NEW args \in Seq(Tokens), args # <<>>, args[1].dashes = 0
  PROVE  SourceIndex(args) = 1
<1> DEFINE skipped == Behind(args, {Long("output"), Short("o")})
           words == {i \in DOMAIN args : args[i].dashes = 0 /\ ~skipped[i]}
<1>1. Len(args) \in Nat /\ 1 \in 1 .. Len(args) /\ DOMAIN args = 1 .. Len(args) OBVIOUS
<1>2. ~skipped[1]
  <2>1. 1 \in 0 .. Len(args) /\ ~(1 > 1) BY <1>1
  <2> QED BY <1>1, <2>1, BehindStep
<1>3. 1 \in words /\ \A i \in words : 1 <= i /\ i \in Nat
  <2> HIDE DEF skipped
  <2> QED BY <1>1, <1>2
<1>4. SourceIndex(args) = IF words = {} THEN 0 ELSE CHOOSE i \in words : \A j \in words : i <= j
  BY DEF SourceIndex
<1> HIDE DEF words
<1> QED BY <1>3, <1>4

\* What is behind the source.
LEMMA RestIs ==
  ASSUME NEW args \in Seq(Tokens), args # <<>>, NEW rest, rest = SubSeq(args, 2, Len(args))
  PROVE  /\ rest \in Seq(Tokens) /\ Len(rest) = Len(args) - 1
         /\ \A i \in 1 .. Len(rest) : rest[i] = args[i + 1]
<1>1. Len(args) \in Nat \ {0} /\ \A i \in 1 .. Len(args) : args[i] \in Tokens
  BY ElementOfSeq
<1>2. \A i \in 2 .. Len(args) : args[i] \in Tokens BY <1>1
<1>3. /\ rest \in Seq(Tokens)
      /\ Len(rest) = IF 2 <= Len(args) THEN Len(args) - 2 + 1 ELSE 0
      /\ \A i \in 1 .. Len(args) - 2 + 1 : rest[i] = args[2 + i - 1]
  BY <1>1, <1>2, SubSeqProperties
<1>4. Len(rest) = Len(args) - 1
  <2>1. CASE 2 <= Len(args) BY <1>1, <1>3, <2>1
  <2>2. CASE ~(2 <= Len(args))
    <3>1. \A n \in Nat \ {0} : ~(2 <= n) => n = 1 OBVIOUS
    <3>2. Len(args) = 1 BY <1>1, <2>2, <3>1, Zenon
    <3>3. Len(rest) = 0 BY <1>3, <2>2, Zenon
    <3> QED BY <3>2, <3>3
  <2> QED BY <2>1, <2>2
<1>5. ASSUME NEW i \in 1 .. Len(rest) PROVE rest[i] = args[i + 1]
  <2>1. i \in 1 .. Len(args) - 2 + 1 /\ 2 + i - 1 = i + 1 BY <1>1, <1>4
  <2> QED BY <1>3, <2>1
<1> QED BY <1>3, <1>4, <1>5

\* The options behind the source say what the whole command line says.
LEMMA RestSays ==
  ASSUME NEW args \in Seq(Tokens), args # <<>>, args[1].dashes = 0,
         NEW rest \in Seq(Tokens), Len(rest) = Len(args) - 1,
         \A i \in 1 .. Len(rest) : rest[i] = args[i + 1], DocumentedOptions(rest)
  PROVE  /\ ArgsGet(rest, "output", DefaultOut) =
              IF Kv(args, "output") = NoValue THEN DefaultOut ELSE Kv(args, "output")
         /\ ArgsHas(rest, "bin") <=> ArgsHas(args, "bin")
<1>1. /\ Len(args) \in Nat \ {0} /\ DOMAIN args = 1 .. Len(args)
      /\ \A i \in 1 .. Len(args) : args[i] \in Tokens
  BY ElementOfSeq
<1>2. /\ Len(rest) \in Nat /\ DOMAIN rest = 1 .. Len(rest)
      /\ \A i \in 1 .. Len(rest) : rest[i] = args[i + 1]
  OBVIOUS
<1>3. \A i \in 1 .. Len(rest) :
        /\ rest[i] \in Tokens /\ rest[i].dashes \in {0, 2}
        /\ rest[i].dashes = 2 => rest[i].value = NoValue
        /\ rest[i].dashes = 2 /\ rest[i].name = "output" =>
             i + 1 \in 1 .. Len(rest) /\ rest[i + 1].dashes = 0
  BY DocumentedToken
<1>4. \A i \in 1 .. Len(args) : args[i].dashes = 2 => i - 1 \in 1 .. Len(rest) /\ rest[i - 1] = args[i]
  BY <1>1, <1>2
<1>5. ArgsHas(rest, "bin") <=> ArgsHas(args, "bin")
  <2>1. ASSUME ArgsHas(rest, "bin") PROVE ArgsHas(args, "bin")
    <3>1. PICK i \in 1 .. Len(rest) : /\ rest[i].dashes = 2 /\ rest[i].name = "bin"
                                      /\ rest[i].value = NoValue
      BY <1>2, <2>1 DEF ArgsHas
    <3>2. i + 1 \in DOMAIN args /\ rest[i] = args[i + 1] BY <1>1, <1>2
    <3> QED BY <3>1, <3>2 DEF ArgsHas
  <2>2. ASSUME ArgsHas(args, "bin") PROVE ArgsHas(rest, "bin")
    <3>1. PICK i \in 1 .. Len(args) : /\ args[i].dashes = 2 /\ args[i].name = "bin"
                                      /\ args[i].value = NoValue
      BY <1>1, <2>2 DEF ArgsHas
    <3>2. i - 1 \in DOMAIN rest /\ rest[i - 1] = args[i] BY <1>2, <1>4, <3>1
    <3> QED BY <3>1, <3>2 DEF ArgsHas
  <2> QED BY <2>1, <2>2
<1> DEFINE inRest == {i \in DOMAIN rest : /\ rest[i].dashes = 2 /\ rest[i].name = "output"
                                          /\ rest[i].value = NoValue /\ Takes(rest, i)}
           inArgs == {i \in DOMAIN args : args[i].name = "output" /\ Valued(args, i)}
           last(is) == CHOOSE i \in is : \A j \in is : j <= i
<1>6. \A i \in 1 .. Len(rest) :
        i \in inRest <=> rest[i].dashes = 2 /\ rest[i].name = "output"
  BY <1>2, <1>3 DEF Takes
<1>7. \A i \in 1 .. Len(args) : i \in inArgs <=> i > 1 /\ i - 1 \in inRest
  <2> SUFFICES ASSUME NEW i \in 1 .. Len(args)
               PROVE  i \in inArgs <=> i > 1 /\ i - 1 \in inRest
    OBVIOUS
  <2>1. ASSUME i \in inArgs PROVE i > 1 /\ i - 1 \in inRest
    <3>1. args[i].dashes > 0 /\ args[i].name = "output" BY <2>1 DEF Valued
    <3>2. i # 1 BY <3>1
    <3>3. i - 1 \in 1 .. Len(rest) /\ rest[i - 1] = args[i] BY <1>1, <1>2, <3>2
    <3>4. args[i].dashes = 2 BY <1>3, <3>1, <3>3
    <3> QED BY <1>6, <3>1, <3>2, <3>3, <3>4
  <2>2. ASSUME i > 1, i - 1 \in inRest PROVE i \in inArgs
    <3>1. i - 1 \in 1 .. Len(rest) /\ rest[i - 1] = args[i] /\ args[i].dashes = 2
          /\ args[i].name = "output"
      BY <1>1, <1>2, <1>6, <2>2
    <3>2. (i - 1) + 1 \in 1 .. Len(rest) /\ rest[(i - 1) + 1].dashes = 0
      BY <1>3, <3>1
    <3>3. (i - 1) + 1 = i OBVIOUS
    <3>4. rest[i] = args[i + 1] BY <1>2, <3>2, <3>3
    <3>5. Takes(args, i) BY <1>1, <1>2, <3>2, <3>3, <3>4 DEF Takes
    <3> QED BY <1>1, <3>1, <3>5 DEF Valued
  <2> QED BY <2>1, <2>2
<1>8. /\ Kv(args, "output") = IF inArgs = {} THEN NoValue
                              ELSE IF args[last(inArgs)].value # NoValue THEN args[last(inArgs)].value
                              ELSE args[last(inArgs) + 1].name
      /\ ArgsGet(rest, "output", DefaultOut) =
           IF inRest = {} THEN DefaultOut ELSE rest[last(inRest) + 1].name
  BY DEF Kv, ArgsGet
<1>9. inArgs \subseteq 1 .. Len(args) /\ inRest \subseteq 1 .. Len(rest) BY <1>1, <1>2
<1> HIDE DEF inArgs, inRest
<1>10. CASE inRest = {}
  <2>1. inArgs = {} BY <1>7, <1>9, <1>10
  <2> QED BY <1>2, <1>5, <1>8, <1>10, <2>1
<1>11. CASE inRest # {}
  <2>1. PICK m \in inRest : \A k \in inRest : k <= m BY <1>2, <1>9, <1>11, GreatestElement
  <2>2. m \in Nat /\ \A k \in inRest : k \in Nat BY <1>9, <2>1
  <2>3. last(inRest) = m
    <3>1. last(inRest) \in inRest /\ \A k \in inRest : k <= last(inRest) BY <2>1
    <3>2. PICK l : l = last(inRest) OBVIOUS
    <3> HIDE DEF last
    <3>3. l \in inRest /\ \A k \in inRest : k <= l BY <3>1, <3>2
    <3>4. m <= l /\ l <= m /\ l \in Nat /\ m \in Nat BY <2>1, <2>2, <3>3
    <3> QED BY <3>2, <3>4
  <2>4. m + 1 \in inArgs /\ \A k \in inArgs : k <= m + 1 /\ k \in Nat
    <3>1. m + 1 \in 1 .. Len(args) /\ m + 1 > 1 /\ (m + 1) - 1 = m BY <1>1, <1>2, <1>9, <2>1
    <3>2. m + 1 \in inArgs BY <1>7, <2>1, <3>1
    <3>3. ASSUME NEW k \in inArgs PROVE k <= m + 1 /\ k \in Nat
      <4>1. k \in 1 .. Len(args) /\ k - 1 \in inRest BY <1>7, <1>9
      <4>2. k - 1 <= m /\ k \in Nat BY <1>1, <2>1, <4>1
      <4> QED BY <2>2, <4>2
    <3> QED BY <3>2, <3>3
  <2>5. last(inArgs) = m + 1 BY <2>2, <2>4
  <2>6. /\ m \in 1 .. Len(rest) /\ rest[m].dashes = 2 /\ rest[m].name = "output"
    BY <1>6, <1>9, <2>1
  <2>7. rest[m].value = NoValue /\ m + 1 \in 1 .. Len(rest) /\ rest[m + 1].dashes = 0
    BY <1>3, <2>6
  <2>8. rest[m] = args[m + 1] /\ rest[m + 1] = args[(m + 1) + 1] BY <1>2, <2>6, <2>7
  <2>9. rest[m + 1].name # NoValue
    <3>1. rest[m + 1] \in Tokens BY <1>3, <2>7
    <3> QED BY <3>1 DEF Tokens
  <2>10. inArgs # {} BY <2>4
  <2>11. Kv(args, "output") = rest[m + 1].name BY <1>8, <2>5, <2>7, <2>8, <2>10
  <2>12. ArgsGet(rest, "output", DefaultOut) = rest[m + 1].name BY <1>8, <1>11, <2>3
  <2> QED BY <1>2, <1>5, <2>9, <2>11, <2>12
<1> QED BY <1>10, <1>11
LEMMA WantedIsOne == ASSUME CommandTypes PROVE Wanted \in Outputs
  BY OutputAssumption DEF CommandTypes, Wanted

\* nanlang hands a documented compile on with the source replaced, which
\* nanlang_cpp reads as it was meant.
LEMMA CompileParses ==
  ASSUME CommandTypes, Documented, command.verb = "compile", argv = Call
  PROVE  CppParse = [ok |-> TRUE, out |-> Wanted, bin |-> ArgsHas(command.args, "bin")]
<1> DEFINE args == command.args
           rest == SubSeq(args, 2, Len(args))
           S    == Tokens \cup {Word("compile"), Word(TempFile)}
<1>1. /\ args \in Seq(Tokens) /\ args # <<>> /\ args[1].dashes = 0 /\ DocumentedOptions(rest)
      /\ Len(args) \in Nat \ {0}
  BY DEF CommandTypes, Commands, Documented
<1> HIDE DEF args
<1>2. /\ rest \in Seq(Tokens) /\ Len(rest) = Len(args) - 1
      /\ \A i \in 1 .. Len(rest) : rest[i] = args[i + 1]
  BY <1>1, RestIs
<1>3. argv = <<Word("compile")>> \o [args EXCEPT ![1] = Word(TempFile)]
  BY <1>1, SourceFirst DEF Call, CompileArgs, args
<1>4. /\ [args EXCEPT ![1] = Word(TempFile)] \in Seq(S)
      /\ Len([args EXCEPT ![1] = Word(TempFile)]) = Len(args)
      /\ \A i \in 2 .. Len(args) : [args EXCEPT ![1] = Word(TempFile)][i] = args[i]
  <2>1. args \in Seq(S) /\ 1 \in 1 .. Len(args) BY <1>1
  <2>2. Word(TempFile) \in S OBVIOUS
  <2> HIDE DEF S
  <2> QED BY <1>1, <2>1, <2>2, ExceptSeq
<1>5. /\ argv \in Seq(S) /\ Len(argv) = Len(args) + 1 /\ argv[1] = Word("compile")
      /\ \A i \in 3 .. Len(args) + 1 : argv[i] = args[i - 1]
  <2> DEFINE first == <<Word("compile")>>
             patched == [args EXCEPT ![1] = Word(TempFile)]
  <2>1. first \in Seq(S) /\ Len(first) = 1 /\ first[1] = Word("compile") OBVIOUS
  <2> HIDE DEF first, patched, S
  <2>2. /\ argv \in Seq(S) /\ Len(argv) = 1 + Len(args)
        /\ \A i \in 1 .. 1 + Len(args) : argv[i] = IF i <= 1 THEN first[i] ELSE patched[i - 1]
    <3>1. argv = first \o patched BY <1>3 DEF first, patched
    <3>2. patched \in Seq(S) /\ Len(patched) = Len(args) BY <1>4 DEF patched
    <3> QED BY <2>1, <3>1, <3>2, ConcatProperties
  <2>3. ASSUME NEW i \in 3 .. Len(args) + 1 PROVE argv[i] = args[i - 1]
    <3>1. i \in 1 .. 1 + Len(args) /\ ~(i <= 1) /\ i - 1 \in 2 .. Len(args) BY <1>1
    <3>2. argv[i] = patched[i - 1] BY <2>2, <3>1
    <3> QED BY <1>4, <3>1, <3>2 DEF patched
  <2> QED BY <1>1, <2>1, <2>2, <2>3
<1> HIDE DEF S, rest
<1>6. SubSeq(argv, 3, Len(argv)) = rest
  <2> DEFINE cut == SubSeq(argv, 3, Len(argv))
  <2>1. \A i \in 3 .. Len(argv) : argv[i] \in Tokens
    <3>1. \A i \in 3 .. Len(args) + 1 : i - 1 \in 1 .. Len(args) BY <1>1
    <3> QED BY <1>1, <1>5, <3>1, ElementOfSeq
  <2>2. Len(argv) \in Int BY <1>1, <1>5
  <2>3. /\ cut \in Seq(Tokens)
        /\ Len(cut) = IF 3 <= Len(argv) THEN Len(argv) - 3 + 1 ELSE 0
        /\ \A i \in 1 .. Len(argv) - 3 + 1 : cut[i] = argv[3 + i - 1]
    BY <2>1, <2>2, SubSeqProperties
  <2> HIDE DEF cut
  <2>4. Len(cut) = Len(rest)
    <3>1. CASE 3 <= Len(argv) BY <1>1, <1>2, <1>5, <2>3, <3>1
    <3>2. CASE ~(3 <= Len(argv))
      <4>1. \A n \in Nat \ {0} : ~(3 <= n + 1) => n = 1 OBVIOUS
      <4>2. Len(args) = 1 BY <1>1, <1>5, <3>2, <4>1, Zenon
      <4> QED BY <1>2, <2>3, <3>2, <4>2
    <3> QED BY <3>1, <3>2
  <2>5. ASSUME NEW i \in 1 .. Len(cut) PROVE cut[i] = rest[i]
    <3>1. /\ i \in 1 .. Len(argv) - 3 + 1 /\ 3 + i - 1 \in 3 .. Len(args) + 1
          /\ (3 + i - 1) - 1 = i + 1 /\ i \in 1 .. Len(rest)
      BY <1>1, <1>2, <1>5, <2>4
    <3> QED BY <1>2, <1>5, <2>3, <3>1
  <2>6. cut = rest BY <1>2, <2>3, <2>4, <2>5, SeqEqual
  <2> QED BY <2>6 DEF cut
<1>7. argv[1] # Long("compile")
  <2>1. Word("compile").dashes = 0 /\ Long("compile").dashes = 2 BY DEF Word, Long
  <2> QED BY <1>5, <2>1
<1>8. CppParse = ArgsParse(rest) BY <1>6, <1>7 DEF CppParse
<1>9. /\ ArgsGet(rest, "output", DefaultOut) =
           IF Kv(args, "output") = NoValue THEN DefaultOut ELSE Kv(args, "output")
      /\ ArgsHas(rest, "bin") <=> ArgsHas(args, "bin")
  <2>1. DocumentedOptions(rest) BY <1>1 DEF rest
  <2> QED BY <1>1, <1>2, <2>1, RestSays
<1>10. ArgsGet(rest, "output", DefaultOut) = Wanted BY <1>9 DEF Wanted, args
<1>11. ArgsHas(rest, "bin") = ArgsHas(args, "bin") BY <1>9, Zenon DEF ArgsHas
<1>12. ArgsParse(rest) = [ok |-> TRUE, out |-> ArgsGet(rest, "output", DefaultOut),
                          bin |-> ArgsHas(rest, "bin")]
  BY Zenon DEF ArgsParse
<1> QED BY <1>8, <1>10, <1>11, <1>12, Zenon DEF args

\* A build is handed on with --elf and the output.
LEMMA BuildParses ==
  ASSUME CommandTypes, Documented, command.verb = "build", argv = Call
  PROVE  CppParse = [ok |-> TRUE, out |-> Wanted, bin |-> FALSE]
<1> DEFINE rest == SubSeq(argv, 3, Len(argv))
<1>1. argv = <<Long("compile"), Word(TempFile), Long("elf"), Long("output"), Word(Wanted)>>
  BY DEF Call, Wanted
<1>2. /\ Len(rest) = 3 /\ DOMAIN rest = 1 .. 3
      /\ rest[1] = Long("elf") /\ rest[2] = Long("output") /\ rest[3] = Word(Wanted)
  BY <1>1
<1>3. CppParse = FastParse(rest) BY <1>1 DEF CppParse
<1> HIDE DEF rest
<1>4. ~Eaten(rest)[1] /\ ~Eaten(rest)[2]
  <2>1. 1 \in 0 .. Len(rest) /\ 2 \in 0 .. Len(rest) /\ ~(1 > 1) /\ 2 - 1 = 1 BY <1>2
  <2>2. rest[1] \notin {Long("output")} BY <1>2 DEF Long
  <2> QED BY <1>2, <2>1, <2>2, BehindStep DEF Eaten
<1>5. FastOut(rest) = Wanted
  <2> DEFINE is == {i \in DOMAIN rest : /\ rest[i].dashes = 2 /\ rest[i].name = "output"
                                        /\ ~Eaten(rest)[i]}
  <2>1. is = {2} BY <1>2, <1>4 DEF Long, Word
  <2>2. FastOut(rest) = IF is = {} THEN DefaultOut
          ELSE IF rest[CHOOSE i \in is : \A j \in is : j <= i].value # NoValue
            THEN rest[CHOOSE i \in is : \A j \in is : j <= i].value
          ELSE rest[(CHOOSE i \in is : \A j \in is : j <= i) + 1].name
    BY DEF FastOut
  <2> HIDE DEF is
  <2>3. (CHOOSE i \in is : \A j \in is : j <= i) = 2 BY <2>1
  <2>4. is # {} /\ rest[2].value = NoValue /\ rest[2 + 1].name = Wanted
    BY <1>2, <2>1 DEF Long, Word
  <2> QED BY <2>2, <2>3, <2>4
<1>6. FastModes(rest) = {1} BY <1>2, <1>4 DEF FastModes, ModeNames, Long, Word
<1>7. rest[Len(rest)] # Long("output") BY <1>2 DEF Long, Word
<1>8. (CHOOSE i \in FastModes(rest) : \A j \in FastModes(rest) : j <= i) = 1 BY <1>6
<1>9. ~\E i, j \in FastModes(rest) : i # j BY <1>6
<1>10. (FastModes(rest) # {}
         /\ rest[CHOOSE i \in FastModes(rest) : \A j \in FastModes(rest) : j <= i].name = "bin")
         = FALSE
  <2>1. rest[CHOOSE i \in FastModes(rest) : \A j \in FastModes(rest) : j <= i].name # "bin"
    <3>1. Long("elf").name # "bin" BY DEF Long
    <3> QED BY <1>2, <1>8, <3>1
  <2> QED BY <2>1, Zenon
<1>11. FastParse(rest) =
         [ok |-> TRUE, out |-> FastOut(rest),
          bin |-> /\ FastModes(rest) # {}
                  /\ rest[CHOOSE i \in FastModes(rest) : \A j \in FastModes(rest) : j <= i].name = "bin"]
  BY <1>7, <1>9, Zenon DEF FastParse
<1> QED BY <1>3, <1>5, <1>10, <1>11, Zenon
LEMMA StatusInit == Init => StatusInv
<1> SUFFICES ASSUME Init PROVE StatusInv OBVIOUS
<1>1. PICK s \in Sessions : command = Head(s.commands) /\ later = Tail(s.commands) BY DEF Init
<1>2. /\ s.commands \in Seq(Commands) /\ s.commands # <<>>
      /\ \A i \in DOMAIN s.commands :
           Kv(s.commands[i].args, "output") \in Outputs \cup {NoValue}
  BY SessionsAssumption
<1>3. /\ command = s.commands[1] /\ 1 \in DOMAIN s.commands
      /\ command \in Commands /\ later \in Seq(Commands)
      /\ \A i \in 1 .. Len(later) : later[i] = s.commands[i + 1] /\ i + 1 \in DOMAIN s.commands
  BY <1>1, <1>2
<1>4. CommandTypes BY <1>2, <1>3 DEF CommandTypes
<1>5. PathInv /\ OutsInv BY DEF Init, PathInv, OutsInv
<1> QED BY <1>4, <1>5 DEF StatusInv

\* What the user wants is said by the command alone.
LEMMA SameCommand ==
  ASSUME command' = command
  PROVE  /\ Documented' = Documented /\ Wanted' = Wanted /\ WantedForm' = WantedForm
         /\ Call' = Call
  BY DEF Documented, Wanted, WantedForm, Call

\* A step that writes no output file and does not end a command well.
LEMMA QuietStatus ==
  ASSUME StatusInv, UNCHANGED <<command, later, outs>>, ~faulty' => ~faulty, PathInv',
         phase \notin {"cleanup", "exited", "killed"},
         phase' \in {"cleanup", "exited"} => status' # 0 \/ ~Documented
  PROVE  StatusInv'
<1>1. CommandTypes' BY DEF StatusInv, CommandTypes
<1>2. \A o \in Outputs : outs'[o] = "old" BY DEF StatusInv, OutsInv
<1>3. OutsInv' BY <1>2, SameCommand DEF StatusInv, OutsInv
<1> QED BY <1>1, <1>3 DEF StatusInv

LEMMA CppStatus == ASSUME StatusInv, Cpp PROVE StatusInv'
<1> DEFINE parsed == CppParse
<1>1. /\ phase = "cpp" /\ phase' = "cleanup"
      /\ UNCHANGED <<command, later, temp, argv>>
  BY DEF Cpp
<1>2. /\ CommandTypes /\ PathInv /\ OutsInv /\ argv = Call
      /\ command.verb \in {"compile", "build"}
      /\ \A o \in Outputs : outs[o] = "old"
  BY <1>1 DEF StatusInv, PathInv, OutsInv
<1>3. CommandTypes' /\ PathInv' BY <1>1, <1>2 DEF CommandTypes, PathInv
<1>4. Documented => parsed.out = Wanted /\ parsed.bin = (WantedForm = "bin")
  <2>1. ASSUME Documented, command.verb = "compile"
        PROVE  parsed.out = Wanted /\ parsed.bin = (WantedForm = "bin")
    <3>1. parsed = [ok |-> TRUE, out |-> Wanted, bin |-> ArgsHas(command.args, "bin")]
      BY <1>2, <2>1, CompileParses
    <3>2. parsed.out = Wanted BY <3>1
    <3>3. parsed.bin = ArgsHas(command.args, "bin") BY <3>1, Zenon
    <3>4. ArgsHas(command.args, "bin") <=> WantedForm = "bin" BY <2>1 DEF WantedForm
    <3>5. ArgsHas(command.args, "bin") \in BOOLEAN BY Zenon DEF ArgsHas
    <3>6. parsed.bin = (WantedForm = "bin") BY <3>3, <3>4, <3>5, Zenon
    <3> QED BY <3>2, <3>6
  <2>2. ASSUME Documented, command.verb = "build"
        PROVE  parsed.out = Wanted /\ parsed.bin = (WantedForm = "bin")
    <3>1. parsed = [ok |-> TRUE, out |-> Wanted, bin |-> FALSE] BY <1>2, <2>2, BuildParses
    <3>2. parsed.out = Wanted /\ parsed.bin = FALSE BY <3>1
    <3>3. WantedForm # "bin" BY <2>2 DEF WantedForm
    <3>4. parsed.bin = (WantedForm = "bin") BY <3>2, <3>3, Zenon
    <3> QED BY <3>2, <3>4
  <2> QED BY <1>2, <2>1, <2>2
<1>5. WantedForm \in {"bin", "elf"} BY DEF WantedForm
<1> HIDE DEF parsed
<1>6. PICK part \in {"partial", "elf", "bin"} :
        /\ outs' = outs \/ outs' = [outs EXCEPT ![parsed.out] = part]
        /\ status' = 0 /\ ~faulty' =>
             outs' = [outs EXCEPT ![parsed.out] = part] /\ part = IF parsed.bin THEN "bin" ELSE "elf"
        /\ ~faulty' => ~faulty
  <2>1. CASE status' = 1
    BY <2>1 DEF Cpp, parsed
  <2>2. CASE status' # 1
    <3>1. /\ status' = 0
          /\ \/ /\ outs' = [outs EXCEPT ![parsed.out] = IF parsed.bin THEN "bin" ELSE "elf"]
                /\ UNCHANGED faulty
             \/ outs' = [outs EXCEPT ![parsed.out] = "partial"] /\ faulty' = TRUE
      BY <2>2 DEF Cpp, parsed
    <3>2. (IF parsed.bin THEN "bin" ELSE "elf") \in {"bin", "elf"} OBVIOUS
    <3> QED BY <3>1, <3>2
  <2> QED BY <2>1, <2>2
<1>7. outs' \in [Outputs -> {"old", "partial", "elf", "bin"}]
  BY <1>2, <1>6 DEF OutsInv
<1>8. \A o \in Outputs : outs'[o] # "old" => o = parsed.out
  BY <1>2, <1>6 DEF OutsInv
<1>9. ASSUME status' = 0, Documented, ~faulty' PROVE outs'[Wanted] = WantedForm
  <2>1. Wanted \in Outputs BY <1>2, WantedIsOne
  <2>2. outs' = [outs EXCEPT ![Wanted] = part] /\ part = IF parsed.bin THEN "bin" ELSE "elf"
    BY <1>4, <1>6, <1>9
  <2>3. parsed.bin <=> WantedForm = "bin" BY <1>4, <1>9, Zenon
  <2>4. part = WantedForm BY <1>5, <2>2, <2>3
  <2> QED BY <1>2, <2>1, <2>2, <2>4 DEF OutsInv
<1>10. OutsInv' BY <1>1, <1>4, <1>7, <1>8, <1>9, SameCommand DEF OutsInv
<1> QED BY <1>3, <1>10 DEF StatusInv

LEMMA StatusStep ==
  ASSUME StatusInv, [Next]_vars
  PROVE  StatusInv'
<1> USE DEF Exit
<1>1. CommandTypes /\ PathInv /\ OutsInv BY DEF StatusInv
<1>2. ASSUME Help \/ Delegate \/ RefusePkg PROVE StatusInv'
  <2>1. /\ phase = "ready" /\ phase' = "exited" /\ UNCHANGED <<command, later, outs, faulty, argv>>
    BY <1>2 DEF Help, Delegate, RefusePkg, buildVars, history
  <2>2. status' # 0 \/ ~Documented
    <3>1. CASE Help BY <3>1 DEF Help, NpiHelp, Documented
    <3>2. CASE Delegate BY <3>2 DEF Delegate, Documented
    <3>3. CASE RefusePkg BY <3>3 DEF RefusePkg, Documented
    <3> QED BY <1>2, <3>1, <3>2, <3>3
  <2>3. PathInv' BY <2>1 DEF PathInv
  <2> QED BY <2>1, <2>2, <2>3, QuietStatus
<1>3. ASSUME RunPkg PROVE StatusInv'
  <2>1. phase = "ready" /\ phase' = "pkg" /\ UNCHANGED <<command, later, outs, faulty>>
    BY <1>3 DEF RunPkg, StartBuild, history
  <2>2. ~(command.program = "nanlang" /\ command.verb = "compile") BY <1>3 DEF RunPkg
  <2>3. PathInv' BY <2>1, <2>2 DEF PathInv
  <2> QED BY <2>1, <2>3, QuietStatus
<1>4. ASSUME PkgReturns PROVE StatusInv'
  <2>1. /\ phase = "pkg" /\ UNCHANGED <<command, later, outs, faulty>>
        /\ \/ phase' = "temp" /\ command.program = "nanlang" /\ command.verb = "build"
           \/ phase' = "exited" /\ (status' = 1 \/ ~(command.program = "nanlang" /\ command.verb = "build"))
    BY <1>4 DEF PkgReturns, ReturnFromBuild, history
  <2>2. PathInv' BY <2>1 DEF PathInv
  <2>3. phase' = "exited" => status' # 0 \/ ~Documented
    BY <1>1, <2>1 DEF PathInv, Documented
  <2> QED BY <2>1, <2>2, <2>3, QuietStatus
<1>5. ASSUME StartCompile PROVE StatusInv'
  <2>1. /\ phase = "ready" /\ UNCHANGED <<command, later, outs, faulty>>
        /\ \/ phase' = "temp" /\ command.program = "nanlang" /\ command.verb \in {"compile", "build"}
           \/ phase' = "exited" /\ status' = 1
    BY <1>5 DEF StartCompile, buildVars, history
  <2>2. PathInv' BY <2>1 DEF PathInv
  <2> QED BY <2>1, <2>2, QuietStatus
<1>6. ASSUME MakeTemp \/ Preprocess \/ CallCompiler PROVE StatusInv'
  <2>1. /\ phase \in {"temp", "preprocess", "call"} /\ UNCHANGED <<command, later, outs, faulty>>
        /\ \/ phase' \in {"preprocess", "call"}
           \/ phase' = "cpp" /\ argv' = Call
           \/ phase' = "exited" /\ status' = 1
    BY <1>6 DEF MakeTemp, Preprocess, CallCompiler, Failed, buildVars, history, Call
  <2>2. PathInv' BY <1>1, <2>1, SameCommand DEF PathInv
  <2> QED BY <2>1, <2>2, QuietStatus
<1>7. ASSUME CleanUp PROVE StatusInv'
  <2>1. /\ phase = "cleanup" /\ phase' = "exited"
        /\ UNCHANGED <<command, later, outs, faulty, status>>
    BY <1>7 DEF CleanUp, buildVars, history
  <2> QED BY <1>1, <2>1, SameCommand DEF StatusInv, CommandTypes, PathInv, OutsInv
<1>8. ASSUME Kill PROVE StatusInv'
  <2>1. /\ phase \notin {"ready", "exited", "killed"} /\ phase' = "killed"
        /\ UNCHANGED <<command, later, outs>>
    BY <1>8 DEF Kill, Running
  <2> QED BY <1>1, <2>1, SameCommand DEF StatusInv, CommandTypes, PathInv, OutsInv
<1>9. ASSUME NextCommand PROVE StatusInv'
  <2>1. /\ later # <<>> /\ phase' = "ready" /\ command' = Head(later) /\ later' = Tail(later)
        /\ outs' = [o \in Outputs |-> "old"]
    BY <1>9 DEF NextCommand
  <2>2. /\ Head(later) = later[1] /\ 1 \in 1 .. Len(later) /\ later[1] \in Commands
        /\ Tail(later) \in Seq(Commands)
        /\ \A i \in 1 .. Len(Tail(later)) : Tail(later)[i] = later[i + 1] /\ i + 1 \in 1 .. Len(later)
    BY <1>1, <2>1 DEF CommandTypes
  <2>3. CommandTypes' BY <1>1, <2>1, <2>2 DEF CommandTypes
  <2>4. PathInv' /\ OutsInv' BY <2>1 DEF PathInv, OutsInv
  <2> QED BY <2>3, <2>4 DEF StatusInv
<1>10. ASSUME \/ phase = "pkg" /\ BuildStep /\ UNCHANGED cliVars
              \/ Save /\ UNCHANGED cliVars
              \/ UNCHANGED vars
       PROVE  StatusInv'
  <2>1. UNCHANGED <<phase, command, later, argv, outs, status>>
    BY <1>10 DEF cliVars, vars
  <2>2. phase = "pkg" \/ faulty' = faulty
    BY <1>10 DEF Save, vars, buildVars, history
  <2>3. CommandTypes' /\ PathInv'
    BY <1>1, <2>1, SameCommand DEF CommandTypes, PathInv
  <2>4. OutsInv' BY <1>1, <2>1, <2>2, SameCommand DEF OutsInv
  <2> QED BY <2>3, <2>4 DEF StatusInv
<1> QED BY <1>2, <1>3, <1>4, <1>5, <1>6, <1>7, <1>8, <1>9, <1>10, CppStatus DEF Next

LEMMA StatusAlways == Spec => []StatusInv
<1>1. StatusInv /\ [Next]_vars => StatusInv' BY StatusStep
<1> QED BY StatusInit, <1>1, PTL DEF Spec

\* A documented command that ends with 0 has written the file it was asked for
\* in the form it was asked for, and none writes another file (run_compile_cmd,
\* run_build_cmd and the two parsers of nanlang_cpp).
THEOREM StatusAlwaysTellsTheOutput == Spec => []StatusTellsTheOutput
<1>1. StatusInv => StatusTellsTheOutput
  BY DEF StatusInv, OutsInv, StatusTellsTheOutput, WantedForm
<1> QED BY StatusAlways, <1>1, PTL

\* nanlang_cpp --compile and nanlang_cpp compile read documented options alike.
THEOREM ParsersAlwaysAgree == Spec => []ParsersAgree
<1>1. StatusInv => ParsersAgree
  <2> SUFFICES ASSUME StatusInv, command.verb = "compile", Documented,
                      NEW rest, rest = SubSeq(command.args, 2, Len(command.args))
               PROVE  FastParse(rest) = ArgsParse(rest)
    BY DEF ParsersAgree
  <2>1. command.args \in Seq(Tokens) /\ command.args # <<>> /\ DocumentedOptions(rest)
    BY DEF StatusInv, CommandTypes, Commands, Documented
  <2>2. rest \in Seq(Tokens) BY <2>1, RestIs
  <2> QED BY <2>1, <2>2, ParsersAgreeOn
<1> QED BY StatusAlways, <1>1, PTL
===============================================================================
