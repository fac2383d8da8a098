----------------------------- MODULE PackageBuild -----------------------------
(***************************************************************************)
(* run_build of src/nan_cli_lib.cpp: the requirement file and the          *)
(* configuration are read, a stub is staged for each package that has no   *)
(* source yet, the manifest is written and the compiler invoked.  Which    *)
(* command runs it is left to a module that extends this one.  A user      *)
(* replaces stubs by real sources at any time.                             *)
(***************************************************************************)
EXTENDS Integers, Sequences

CONSTANTS
  Names,          \* of packages
  LibDirs,        \* directories for the packages
  DefaultLibDir,  \* ./lib
  MaxSaves        \* bound on the saves of the user

ASSUME DefaultAssumption == DefaultLibDir \in LibDirs

\* A file that is read, line by line; one that is "unreadable" is there and
\* cannot be opened.
FileStates       == {"text", "absent", "unreadable"}
RequirementLines == [kind : {"malformed", "blank"}] \cup [kind : {"package"}, name : Names]
ConfigLines      == [kind : {"malformed", "other"}] \cup [kind : {"lib_dir"}, dir : LibDirs]
Requirements     == [state : FileStates, lines : Seq(RequirementLines)]
Configs          == [state : FileStates, lines : Seq(ConfigLines)]

VARIABLES
  step,       \* where run_build is, "idle" when it is not running
  requirements, config,  \* the two files: [state, lines], see ReadRequirement, ReadConfig
  at,         \* the line, or the package, the loop is at
  packages,   \* ReqFile::packages: names
  libDir,     \* Config::lib_dir
  dryRun,     \* BuildOptions::dry_run
  lib,        \* sources of the packages: "absent", "empty", "stub" or "saved"
  manifest,   \* npi_manifest.conf: [state, packages], "absent", "empty", "listed"
  built,      \* the output: "absent", "partial", "program" or "placeholder"
  saves,      \* how often the user saved
  late,       \* the user saved the source that was just seen to be missing
  faulty      \* some write failed without notice, or was cut off by a kill

readVars  == <<requirements, config>>
files     == <<lib, manifest, built>>
loopVars  == <<at, packages, libDir>>
history   == <<saves, late, faulty>>
buildVars == <<step, readVars, loopVars, dryRun, files, history>>

Sources == LibDirs \X Names

BuildInit(req, conf) ==
  /\ step = "idle"
  /\ requirements = req /\ config = conf
  /\ at = 1 /\ packages = <<>> /\ libDir = DefaultLibDir
  /\ dryRun = FALSE
  /\ lib = [s \in Sources |-> "absent"]
  /\ manifest = [state |-> "absent", packages |-> <<>>]
  /\ built = "absent"
  /\ saves = 0 /\ late = FALSE /\ faulty = FALSE

\* run_build is called.
StartBuild(dry) ==
  /\ step' = "requirements"
  /\ at' = 1 /\ packages' = <<>> /\ libDir' = DefaultLibDir
  /\ dryRun' = dry
  /\ UNCHANGED <<readVars, files, history>>

Goto(place) == step' = place /\ UNCHANGED <<readVars, dryRun>>

\* An exception leaves run_build.
Throw == Goto("thrown") /\ UNCHANGED <<loopVars, files, history>>

------------------------------------------------------------------------------
\* parse_reqfile

InRequirements == step = "requirements" /\ requirements.state = "text"

NoRequirements == step = "requirements" /\ requirements.state # "text" /\ Throw

\* Comments and blank lines are passed over; whitespace within a line, an
\* empty version and an empty name are errors.
ReadRequirement ==
  /\ InRequirements /\ at <= Len(requirements.lines)
  /\ LET line == requirements.lines[at]
     IN \/ line.kind = "malformed" /\ Throw
        \/ /\ line.kind # "malformed"
           /\ packages' = IF line.kind = "package" THEN Append(packages, line.name) ELSE packages
           /\ at' = at + 1
           /\ UNCHANGED libDir
           /\ Goto("requirements") /\ UNCHANGED <<files, history>>

RequirementsEnd ==
  /\ InRequirements /\ at > Len(requirements.lines)
  /\ at' = 1 /\ UNCHANGED <<packages, libDir>>
  /\ Goto("config") /\ UNCHANGED <<files, history>>

------------------------------------------------------------------------------
\* load_config

InConfig == step = "config" /\ config.state = "text"

ConfigUnreadable == step = "config" /\ config.state = "unreadable" /\ Throw

\* A line without = or with an empty key is an error; the last value counts.
ReadConfig ==
  /\ InConfig /\ at <= Len(config.lines)
  /\ LET line == config.lines[at]
     IN \/ line.kind = "malformed" /\ Throw
        \/ /\ line.kind # "malformed"
           /\ libDir' = IF line.kind = "lib_dir" THEN line.dir ELSE libDir
           /\ at' = at + 1
           /\ UNCHANGED packages
           /\ Goto("config") /\ UNCHANGED <<files, history>>

ConfigEnd ==
  /\ step = "config"
  /\ config.state = "absent" \/ (InConfig /\ at > Len(config.lines))
  /\ at' = 1 /\ UNCHANGED <<packages, libDir>>
  /\ Goto("directories") /\ UNCHANGED <<files, history>>

------------------------------------------------------------------------------
\* resolve_deps

\* A dry run makes no directories; otherwise one that cannot be made throws.
MakeDirectories ==
  /\ step = "directories"
  /\ \/ ~dryRun /\ Throw
     \/ Goto("stage") /\ UNCHANGED <<loopVars, files, history>>

Staging == step = "stage" /\ at <= Len(packages)
Source  == <<libDir, packages[at]>>

NextPackage == at' = at + 1 /\ UNCHANGED <<packages, libDir>> /\ Goto("stage")

StageDry ==
  /\ Staging /\ dryRun
  /\ NextPackage /\ UNCHANGED <<files, history>>

\* Mutant of IsStaged: only a stub counts as staged.
IsStagedStub == lib[Source] = "stub"

\* fs::exists
IsStaged == lib[Source] # "absent"

\* The package's directory is made, and its source looked for.
LookForSource ==
  /\ Staging /\ ~dryRun
  /\ \/ Throw
     \/ IsStaged /\ NextPackage /\ UNCHANGED <<files, history>>
     \/ /\ ~IsStaged
        /\ Goto("open") /\ UNCHANGED <<loopVars, files>>
        /\ late' = FALSE /\ UNCHANGED <<saves, faulty>>

\* The stub is opened, which empties it; whether that worked is not looked at.
OpenStub ==
  /\ step = "open"
  /\ \/ /\ lib' = [lib EXCEPT ![Source] = "empty"]
        /\ Goto("fill") /\ UNCHANGED <<loopVars, history>>
     \/ /\ NextPackage /\ UNCHANGED lib
        /\ faulty' = TRUE /\ UNCHANGED <<saves, late>>
  /\ UNCHANGED <<manifest, built>>

FillStub ==
  /\ step = "fill"
  /\ \/ lib' = [lib EXCEPT ![Source] = "stub"] /\ UNCHANGED faulty
     \/ UNCHANGED lib /\ faulty' = TRUE
  /\ NextPackage
  /\ UNCHANGED <<manifest, built, saves, late>>

\* Mutant of StageEnd: the last package may be left out.
StageEndEarly ==
  /\ step = "stage" /\ at >= Len(packages)
  /\ Goto("manifest") /\ UNCHANGED <<loopVars, files, history>>

StageEnd ==
  /\ step = "stage" /\ at > Len(packages)
  /\ Goto("manifest") /\ UNCHANGED <<loopVars, files, history>>

------------------------------------------------------------------------------
\* write_manifest and invoke_compiler

Listed == [state |-> "listed", packages |-> packages]

\* Mutant of SkipManifest: a dry run writes the manifest.
SkipManifestNever ==
  /\ step = "manifest" /\ dryRun
  /\ manifest' = Listed
  /\ Goto("compile") /\ UNCHANGED <<loopVars, lib, built, history>>

SkipManifest ==
  /\ step = "manifest" /\ dryRun
  /\ Goto("compile") /\ UNCHANGED <<loopVars, files, history>>

OpenManifest ==
  /\ step = "manifest" /\ ~dryRun
  /\ \/ Throw
     \/ /\ manifest' = [state |-> "empty", packages |-> <<>>]
        /\ Goto("list") /\ UNCHANGED <<loopVars, lib, built, history>>
     \/ /\ Goto("compile") /\ UNCHANGED <<loopVars, files>>
        /\ faulty' = TRUE /\ UNCHANGED <<saves, late>>

ListPackages ==
  /\ step = "list"
  /\ \/ manifest' = Listed /\ UNCHANGED faulty
     \/ UNCHANGED manifest /\ faulty' = TRUE
  /\ Goto("compile")
  /\ UNCHANGED <<loopVars, lib, built, saves, late>>

\* The command is shown; nothing is run.
CompileDry ==
  /\ step = "compile" /\ dryRun
  /\ Goto("done") /\ UNCHANGED <<loopVars, files, history>>

\* The compiler is external: it makes the output, or fails with anything left.
InvokeCompiler ==
  /\ step = "compile" /\ ~dryRun
  /\ \/ built' = "program" /\ Goto("done")
     \/ built' \in {built, "partial"} /\ Goto("placeholder")
  /\ UNCHANGED <<loopVars, lib, manifest, history>>

\* The failure is only a warning: a placeholder takes the output's place.
WritePlaceholder ==
  /\ step = "placeholder"
  /\ \/ Throw
     \/ /\ built' = "placeholder"
        /\ Goto("done") /\ UNCHANGED <<loopVars, lib, manifest, history>>
     \/ /\ built' \in {built, "partial"}
        /\ Goto("done") /\ UNCHANGED <<loopVars, lib, manifest, saves, late>>
        /\ faulty' = TRUE

BuildStep ==
  \/ NoRequirements \/ ReadRequirement \/ RequirementsEnd
  \/ ConfigUnreadable \/ ReadConfig \/ ConfigEnd
  \/ MakeDirectories \/ StageDry \/ LookForSource \/ OpenStub \/ FillStub \/ StageEnd
  \/ SkipManifest \/ OpenManifest \/ ListPackages
  \/ CompileDry \/ InvokeCompiler \/ WritePlaceholder

------------------------------------------------------------------------------
\* The world around it

\* run_build has returned, or its exception was caught.
ReturnFromBuild ==
  /\ step' = "idle"
  /\ UNCHANGED <<readVars, loopVars, dryRun, files, history>>

\* The process is killed; a write that was under way is cut off.
KillBuild ==
  /\ step' = "idle"
  /\ faulty' = (faulty \/ step \in {"fill", "list", "placeholder"})
  /\ UNCHANGED <<readVars, loopVars, dryRun, files, saves, late>>

\* "Replace with real source."
Save ==
  /\ saves < MaxSaves
  /\ \E s \in Sources :
       /\ lib' = [lib EXCEPT ![s] = "saved"]
       /\ late' = (late \/ (step \in {"open", "fill"} /\ s = Source))
  /\ saves' = saves + 1
  /\ UNCHANGED <<step, readVars, loopVars, dryRun, manifest, built, faulty>>

------------------------------------------------------------------------------
\* Properties

\* The packages of the first n lines of the requirement file, in their order.
RequiredBy ==
  LET lines == requirements.lines
      named[n \in 0 .. Len(lines)] ==
        IF n = 0 THEN <<>>
        ELSE IF lines[n].kind = "package" THEN Append(named[n - 1], lines[n].name)
        ELSE named[n - 1]
  IN named

Required == RequiredBy[Len(requirements.lines)]

\* A dry run changes no file, whatever the requirements and whatever fails.
DryRunTouchesNothing == [][dryRun /\ saves' = saves => UNCHANGED files]_buildVars

\* A source that the user saved is overwritten only if it was saved between the
\* moment it was seen to be missing and the moment its stub is complete.
SavedSourcesAreKept ==
  [][\A s \in Sources : lib[s] = "saved" /\ lib'[s] # "saved" =>
       step \in {"open", "fill"} /\ s = Source /\ late]_buildVars

\* A build that ends well, and that is no dry run, has a source for each package
\* of the requirement file, a manifest with just these packages, and an output.
\* Sources and manifest are whole unless a write failed without notice, in this
\* build or an earlier one.
GoodBuildsAreComplete ==
  step = "done" /\ ~dryRun /\ ~faulty =>
    /\ \A k \in DOMAIN Required : lib[<<libDir, Required[k]>>] \in {"stub", "saved"}
    /\ manifest = [state |-> "listed", packages |-> Required]
    /\ built \in {"program", "placeholder"}
===============================================================================
