---------------------------- MODULE MCCommandLine -----------------------------
(***************************************************************************)
(* Instance of CommandLine for TLC: the command lines of README.md, some   *)
(* that are not in it, and pairs of packages with a name twice.            *)
(***************************************************************************)
EXTENDS CommandLine

Nanlang(verb, args) == [program |-> "nanlang", verb |-> verb, args |-> args]
Npi(args)           == [program |-> "npi", verb |-> "none", args |-> args]

App == Word("app.nl")
OutTo(o) == <<Long("output"), Word(o)>>
Modes == {<<>>} \cup {<<Long(m)>> : m \in ModeNames \cup {"aot"}}

CompileLines ==
  {<<App>> \o m \o o : m \in Modes, o \in {<<>>, OutTo("o1")}}
  \cup {<<App>> \o OutTo("o1") \o m : m \in Modes}
  \cup {<<>>, <<Long("elf"), App>>, OutTo("o1"), OutTo("o1") \o <<App>>,
        <<App, LongValue("output", "o1")>>, <<App, Short("o"), Word("o1")>>,
        <<App, Long("bin"), Long("elf")>>, <<App, Long("aot"), Long("bin")>>}

BuildLines ==
  {<<Long("src"), App>> \o o \o r : o \in {<<>>, OutTo("o1")},
                                    r \in {<<>>, <<Short("r"), Word("req.txt")>>}}
  \cup {<<>>, <<Short("r"), Word("req.txt")>>}

PkgLines ==
  {<<>>, <<Short("r"), Word("req.txt")>>, <<Short("r"), Word("req.txt"), Long("dry-run")>>}

OtherLines == {Nanlang(v, <<>>) : v \in {"help", "unknown", "run"}} \cup {Npi(<<Long("version")>>)}

\* Commands that read the two files of a build, and those that do not.
BuildCommands ==
  {Nanlang("pkg", a) : a \in PkgLines}
  \cup {Nanlang("build", <<Long("src"), App, Short("r"), Word("req.txt")>>)}
  \cup {Npi(<<Short("r"), Word("req.txt")>> \o b) : b \in {<<>>, <<Long("build")>>,
                                                         <<Long("build"), Long("dry-run")>>}}
  \cup {Npi(<<>>)}

PlainCommands ==
  {Nanlang("compile", a) : a \in CompileLines} \cup {Nanlang("build", a) : a \in BuildLines}
  \cup OtherLines

Package(n) == [kind |-> "package", name |-> n]
Text(lines) == [state |-> "text", lines |-> lines]
File(state) == [state |-> state, lines |-> <<>>]

MCRequirements ==
  {File("absent"), Text(<<>>), Text(<<[kind |-> "malformed"]>>),
   Text(<<[kind |-> "blank"], Package("a")>>)}
  \cup {Text(<<Package(m), Package(n)>>) : m \in Names, n \in Names}

MCConfigs ==
  {File("absent"), File("unreadable"), Text(<<[kind |-> "malformed"]>>),
   Text(<<[kind |-> "other"], [kind |-> "lib_dir", dir |-> "vendor"]>>)}

\* A build is tried again, with another command or the same.
MCSessions ==
  {[requirements |-> r, config |-> c, commands |-> <<first, second>>] :
     r \in MCRequirements, c \in MCConfigs, first \in BuildCommands,
     second \in BuildCommands}
  \cup {[requirements |-> File("absent"), config |-> File("absent"), commands |-> <<first, second>>] :
          first \in PlainCommands, second \in {Nanlang("compile", <<App>>)}}
===============================================================================
