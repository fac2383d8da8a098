----------------------------- MODULE CommandLine ------------------------------
(***************************************************************************)
(* The command nanlang (src/nanlang_cli.cpp) with the programs it calls:   *)
(* the preprocessor, which is external, and nanlang_cpp, whose two parsers *)
(* of its command line are both here.  nanlang pkg and nanlang build -r    *)
(* run PackageBuild; npi (src/npi_cli.cpp) is its other user.              *)
(*                                                                         *)
(* A token is a record: how many dashes it begins with, the name behind    *)
(* them and the value behind a =, NoValue when there is none.              *)
(***************************************************************************)
EXTENDS PackageBuild

CONSTANTS
  Sessions,       \* the two files of a build, and what a user types one after
                  \* the other: [requirements, config, commands], a command being
                  \* [program, verb, args]
  Outputs,        \* names of output files
  DefaultOut,     \* output.elf
  DefaultBuildOut,\* out.elf
  NoValue, TempFile

ASSUME OutputAssumption == {DefaultOut, DefaultBuildOut} \subseteq Outputs

VARIABLES
  phase,      \* where nanlang, or npi, is
  command,    \* what was typed
  later,      \* the commands that will be typed after it
  temp,       \* the temporary file: "none", "empty", "partial" or "whole"
  argv,       \* the tokens nanlang_cpp is called with
  outs,       \* the output files: "old", "partial", "elf" or "bin"
  status      \* the exit status

cliVars == <<phase, command, later, temp, argv, outs, status>>
vars    == <<buildVars, cliVars>>

Word(w)          == [dashes |-> 0, name |-> w, value |-> NoValue]
Long(k)          == [dashes |-> 2, name |-> k, value |-> NoValue]
LongValue(k, v)  == [dashes |-> 2, name |-> k, value |-> v]
Short(k)         == [dashes |-> 1, name |-> k, value |-> NoValue]

Init ==
  /\ \E s \in Sessions :
       /\ BuildInit(s.requirements, s.config)
       /\ command = Head(s.commands) /\ later = Tail(s.commands)
  /\ phase = "ready"
  /\ temp = "none"
  /\ argv = <<>>
  /\ outs = [o \in Outputs |-> "old"]
  /\ status = 0

------------------------------------------------------------------------------
\* parse_tokens.  An option takes the token behind it unless that begins with a
\* dash, so no option is ever taken for a value.

Takes(args, i) == i < Len(args) /\ args[i + 1].dashes = 0
Valued(args, i) == args[i].dashes > 0 /\ (args[i].value # NoValue \/ Takes(args, i))

\* The value of the last option with that name; NoValue when there is none.
Kv(args, key) ==
  LET is == {i \in DOMAIN args : args[i].name = key /\ Valued(args, i)}
      last == CHOOSE i \in is : \A j \in is : j <= i
  IN IF is = {} THEN NoValue
     ELSE IF args[last].value # NoValue THEN args[last].value ELSE args[last + 1].name

Flag(args, key) ==
  \E i \in DOMAIN args : args[i].dashes > 0 /\ args[i].name = key /\ ~Valued(args, i)

\* Whether the token at i is taken by one of these options before it, whatever
\* it begins with.
Behind(args, options) ==
  LET behind[i \in 0 .. Len(args)] == i > 1 /\ args[i - 1] \in options /\ ~behind[i - 1]
  IN behind

\* find_compile_source_index: the first word that is not behind --output or -o;
\* 0 when there is none.
SourceIndex(args) ==
  LET skipped == Behind(args, {Long("output"), Short("o")})
      words == {i \in DOMAIN args : args[i].dashes = 0 /\ ~skipped[i]}
  IN IF words = {} THEN 0 ELSE CHOOSE i \in words : \A j \in words : i <= j

\* The tokens of command lines have names and values; every output file that is
\* asked for is one of Outputs.
Tokens   == [dashes : 0 .. 2, name : STRING \ {NoValue}, value : STRING \cup {NoValue}]
Verbs    == {"none", "unknown", "help", "version", "run", "demo", "ui-render", "compile",
             "build", "pkg"}
Commands == [program : {"nanlang", "npi"}, verb : Verbs, args : Seq(Tokens)]

ASSUME SessionsAssumption ==
  \A s \in Sessions :
    /\ s.requirements \in Requirements /\ s.config \in Configs
    /\ s.commands \in Seq(Commands) /\ s.commands # <<>>
    /\ \A i \in DOMAIN s.commands :
         Kv(s.commands[i].args, "output") \in Outputs \cup {NoValue}

------------------------------------------------------------------------------
\* nanlang_cpp: fast_path_compile_run for --compile, Args for compile.  Both
\* give the source, the output and whether raw code is asked for, and err.

ModeNames == {"bin", "elf", "asm", "sh"}

\* Mutant of FastOut: the value behind --output= is not looked for.
FastOutNext(args) ==
  LET is == {i \in DOMAIN args : args[i] = Long("output") /\ i < Len(args)}
  IN IF is = {} THEN DefaultBuildOut ELSE args[CHOOSE i \in is : \A j \in is : j <= i].name

Eaten(args) == Behind(args, {Long("output")})

\* The last --output or --output= counts.
FastOut(args) ==
  LET is == {i \in DOMAIN args : /\ args[i].dashes = 2 /\ args[i].name = "output"
                                 /\ ~Eaten(args)[i]}
      last == CHOOSE i \in is : \A j \in is : j <= i
  IN IF is = {} THEN DefaultOut
     ELSE IF args[last].value # NoValue THEN args[last].value ELSE args[last + 1].name

FastModes(args) ==
  {i \in DOMAIN args : /\ args[i].dashes = 2 /\ args[i].name \in ModeNames
                       /\ args[i].value = NoValue /\ ~Eaten(args)[i]}

\* args are the tokens behind the source.
FastParse(args) ==
  LET modes == FastModes(args)
      last  == CHOOSE i \in modes : \A j \in modes : j <= i
      dangling == args # <<>> /\ args[Len(args)] = Long("output") /\ ~Eaten(args)[Len(args)]
  IN IF dangling \/ \E i, j \in modes : i # j
       THEN [ok |-> FALSE, out |-> DefaultOut, bin |-> FALSE]
       ELSE [ok |-> TRUE, out |-> FastOut(args),
             bin |-> modes # {} /\ args[last].name = "bin"]

\* Args::parse knows no =: --output=o is a flag of that name.
ArgsHas(args, key) ==
  \E i \in DOMAIN args : args[i].dashes = 2 /\ args[i].name = key /\ args[i].value = NoValue

ArgsGet(args, key, default) ==
  LET is == {i \in DOMAIN args : /\ args[i].dashes = 2 /\ args[i].name = key
                                 /\ args[i].value = NoValue /\ Takes(args, i)}
      last == CHOOSE i \in is : \A j \in is : j <= i
  IN IF is = {} THEN default ELSE args[last + 1].name

ArgsParse(args) ==
  [ok |-> TRUE, out |-> ArgsGet(args, "output", DefaultOut), bin |-> ArgsHas(args, "bin")]

\* argv[1] is the verb and argv[2] the source, whatever it begins with.
CppParse ==
  LET rest == SubSeq(argv, 3, Len(argv))
  IN IF argv[1] = Long("compile") THEN FastParse(rest) ELSE ArgsParse(rest)

------------------------------------------------------------------------------
\* nanlang

Exit(code) == phase' = "exited" /\ status' = code

\* npi asks for its help and version with flags, and looks at them first.
NpiHelp ==
  /\ command.program = "npi"
  /\ \E key \in {"help", "h", "version", "origin"} : Flag(command.args, key)

\* help, version and an unknown verb
Help ==
  /\ phase = "ready"
  /\ \/ command.program = "nanlang" /\ command.verb \in {"help", "version", "none"} /\ Exit(0)
     \/ command.program = "nanlang" /\ command.verb = "unknown" /\ Exit(1)
     \/ NpiHelp /\ Exit(0)
  /\ UNCHANGED <<command, later, temp, argv, outs, buildVars>>

\* run, demo and ui-render: the status of nanlang_cpp, or 1 when there is none.
Delegate ==
  /\ phase = "ready" /\ command.program = "nanlang"
  /\ command.verb \in {"run", "demo", "ui-render"}
  /\ \E code \in {0, 1, 127} : Exit(code)
  /\ UNCHANGED <<command, later, temp, argv, outs, buildVars>>

\* pkg, and the -r of build, which is a dry run first.  npi --build likewise.
RunPkg ==
  /\ phase = "ready"
  /\ LET args == command.args
         isNpi == command.program = "npi"
         isPkg == command.program = "nanlang" /\ command.verb = "pkg"
         isBuild == command.program = "nanlang" /\ command.verb = "build"
     IN /\ Kv(args, "r") # NoValue
        /\ isNpi \/ isPkg \/ (isBuild /\ Kv(args, "src") # NoValue)
        /\ isNpi => Flag(args, "build") /\ ~NpiHelp
        /\ StartBuild(isBuild \/ Flag(args, "dry-run"))
  /\ phase' = "pkg"
  /\ UNCHANGED <<command, later, temp, argv, outs, status>>

\* A missing -r or --src is an error; npi without --build only lists packages.
RefusePkg ==
  /\ phase = "ready" /\ ~NpiHelp
  /\ LET args == command.args
     IN \/ /\ command.program = "npi" \/ (command.program = "nanlang" /\ command.verb = "pkg")
           /\ Kv(args, "r") = NoValue
           /\ Exit(1)
        \/ /\ command.program = "npi"
           /\ Kv(args, "r") # NoValue /\ ~Flag(args, "build")
           /\ Exit(IF /\ requirements.state = "text"
                      /\ \A i \in DOMAIN requirements.lines :
                           requirements.lines[i].kind # "malformed"
                     THEN 0 ELSE 1)
        \/ /\ command.program = "nanlang" /\ command.verb = "build"
           /\ Kv(args, "src") = NoValue
           /\ Exit(1)
  /\ UNCHANGED <<command, later, temp, argv, outs, buildVars>>

\* An exception ends the command; npi and pkg are done, build goes on.
PkgReturns ==
  /\ phase = "pkg" /\ step \in {"done", "thrown"}
  /\ ReturnFromBuild
  /\ IF step = "thrown" THEN Exit(1)
     ELSE IF command.program = "nanlang" /\ command.verb = "build"
       THEN phase' = "temp" /\ UNCHANGED status
       ELSE Exit(0)
  /\ UNCHANGED <<command, later, temp, argv, outs>>

StartCompile ==
  /\ phase = "ready" /\ command.program = "nanlang"
  /\ \/ /\ command.verb = "compile" /\ SourceIndex(command.args) # 0
        /\ phase' = "temp" /\ UNCHANGED status
     \/ /\ command.verb = "compile" /\ SourceIndex(command.args) = 0
        /\ Exit(1)
     \/ /\ command.verb = "build"
        /\ Kv(command.args, "src") # NoValue /\ Kv(command.args, "r") = NoValue
        /\ phase' = "temp" /\ UNCHANGED status
  /\ UNCHANGED <<command, later, temp, argv, outs, buildVars>>

\* mkstemps makes an empty file, or throws.
MakeTemp ==
  /\ phase = "temp"
  /\ \/ temp' = "empty" /\ phase' = "preprocess" /\ UNCHANGED status
     \/ Exit(1) /\ UNCHANGED temp
  /\ UNCHANGED <<command, later, argv, outs, buildVars>>

\* Mutant of Failed: the exception goes on before the file is removed.
FailedLeavesTemp == Exit(1) /\ UNCHANGED temp

\* catch (...) removes the temporary file and throws on.
Failed == Exit(1) /\ temp' = "none"

\* Raku or the preprocessor is missing, or the shell reports a failure with a
\* part of the text in the file; on success the file is whole.
Preprocess ==
  /\ phase = "preprocess"
  /\ \/ Failed
     \/ temp' = "whole" /\ phase' = "call" /\ UNCHANGED status
  /\ UNCHANGED <<command, later, argv, outs, buildVars>>

\* The temporary file takes the place of the source.
CompileArgs(args) == [args EXCEPT ![SourceIndex(args)] = Word(TempFile)]

\* resolve_cpp_command_path may throw.
CallCompiler ==
  /\ phase = "call"
  /\ \/ Failed /\ UNCHANGED argv
     \/ /\ argv' = IF command.verb = "compile"
                     THEN <<Word("compile")>> \o CompileArgs(command.args)
                     ELSE <<Long("compile"), Word(TempFile), Long("elf"), Long("output"),
                            Word(IF Kv(command.args, "output") = NoValue
                                   THEN DefaultBuildOut ELSE Kv(command.args, "output"))>>
        /\ phase' = "cpp" /\ UNCHANGED <<temp, status>>
  /\ UNCHANGED <<command, later, outs, buildVars>>

\* nanlang_cpp: a command line it refuses, a source that is not there, a
\* compilation that fails and may leave a part, or one that succeeds: what is
\* lost when the output is closed is not noticed.
Cpp ==
  /\ phase = "cpp"
  /\ LET parsed == CppParse
         out == parsed.out
     IN \/ /\ status' = 1
           /\ outs' \in {outs} \cup (IF parsed.ok /\ argv[2] = Word(TempFile)
                                      THEN {[outs EXCEPT ![out] = "partial"]} ELSE {})
           /\ UNCHANGED faulty
        \/ /\ parsed.ok /\ argv[2] = Word(TempFile)
           /\ status' = 0
           /\ \/ /\ outs' = [outs EXCEPT ![out] = IF parsed.bin THEN "bin" ELSE "elf"]
                 /\ UNCHANGED faulty
              \/ outs' = [outs EXCEPT ![out] = "partial"] /\ faulty' = TRUE
  /\ phase' = "cleanup"
  /\ UNCHANGED <<command, later, temp, argv>>
  /\ UNCHANGED <<step, readVars, loopVars, dryRun, files, saves, late>>

\* Mutant of CleanUp: the status of the compiler is forgotten.
CleanUpForgets ==
  /\ phase = "cleanup"
  /\ temp' = "none" /\ phase' = "exited" /\ status' = 0
  /\ UNCHANGED <<command, later, argv, outs, buildVars>>

CleanUp ==
  /\ phase = "cleanup"
  /\ temp' = "none" /\ phase' = "exited"
  /\ UNCHANGED <<command, later, argv, outs, status, buildVars>>

Running == phase \notin {"ready", "exited", "killed"}

\* A signal ends the process wherever it is; what nanlang_cpp was doing then is
\* not followed.
Kill ==
  /\ Running
  /\ phase' = "killed" /\ status' = 130
  /\ KillBuild
  /\ UNCHANGED <<command, later, temp, argv, outs>>

\* The next command is typed; a file that was left over is not looked at.
NextCommand ==
  /\ phase \in {"exited", "killed"}
  /\ later # <<>>
  /\ phase' = "ready"
  /\ command' = Head(later) /\ later' = Tail(later)
  /\ temp' = "none" /\ argv' = <<>> /\ outs' = [o \in Outputs |-> "old"] /\ status' = 0
  /\ UNCHANGED buildVars

Next ==
  \/ Help \/ Delegate \/ RunPkg \/ RefusePkg \/ PkgReturns \/ StartCompile \/ MakeTemp
  \/ Preprocess \/ CallCompiler \/ Cpp \/ CleanUp \/ Kill \/ NextCommand
  \/ phase = "pkg" /\ BuildStep /\ UNCHANGED cliVars
  \/ Save /\ UNCHANGED cliVars

Spec == Init /\ [][Next]_vars

------------------------------------------------------------------------------
\* Properties

\* Every way out of nanlang but a signal removes the temporary file.
TempIsRemoved == phase = "exited" => temp = "none"

\* The options after a source as README.md gives them: one mode at most, and
\* --output with its file.
DocumentedOptions(args) ==
  /\ \A i \in DOMAIN args :
       \/ args[i].dashes = 2 /\ args[i].value = NoValue /\ args[i].name \in ModeNames \cup {"aot"}
       \/ args[i] = Long("output") /\ Takes(args, i)
       \/ args[i].dashes = 0 /\ i > 1 /\ args[i - 1] = Long("output")
  /\ \A i, j \in DOMAIN args : args[i].name \in ModeNames /\ args[j].name \in ModeNames => i = j

Documented ==
  /\ command.program = "nanlang"
  /\ \/ /\ command.verb = "compile" /\ command.args # <<>> /\ command.args[1].dashes = 0
        /\ DocumentedOptions(SubSeq(command.args, 2, Len(command.args)))
     \/ command.verb = "build"

\* The file the user asked for.
Wanted ==
  LET given == Kv(command.args, "output")
  IN IF given # NoValue THEN given
     ELSE IF command.verb = "build" THEN DefaultBuildOut ELSE DefaultOut

\* A documented compile or build that ends with 0 has written the file that was
\* asked for, in the form that was asked for, unless a write failed without
\* notice; no other file is written, and none before nanlang_cpp has run.
StatusTellsTheOutput ==
  /\ phase = "exited" /\ status = 0 /\ Documented /\ ~faulty =>
       outs[Wanted] = IF command.verb = "compile" /\ ArgsHas(command.args, "bin")
                        THEN "bin" ELSE "elf"
  /\ \A o \in Outputs : outs[o] # "old" =>
       /\ phase \in {"cleanup", "exited", "killed"}
       /\ Documented => o = Wanted

\* Both parsers of nanlang_cpp read documented options alike.
ParsersAgree ==
  phase = "ready" /\ command.verb = "compile" /\ Documented =>
    LET rest == SubSeq(command.args, 2, Len(command.args))
    IN FastParse(rest) = ArgsParse(rest)
===============================================================================
