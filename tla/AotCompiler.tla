----------------------------- MODULE AotCompiler -----------------------------
(***************************************************************************)
(* AOTCompiler::compile_to_native and the program it makes: the parser     *)
(* (AotParser), the code generator, the output file, and the processor     *)
(* running that file.  Addresses are byte offsets in the ELF file, which   *)
(* is mapped whole; only the difference between two of them is used by the *)
(* code, so the load base is left out.                                     *)
(***************************************************************************)
EXTENDS AotParser

CONSTANTS
  TextSize,   \* the bytes of a text, its implicit newline included
  MaxDisp     \* 2^31: a displacement is a signed number of 32 bits

ASSUME TextSizeAssumption == TextSize \in [Texts -> Nat \ {0}]

ASSUME DispAssumption == MaxDisp \in Nat \ {0}

VARIABLES
  phase,      \* where compile_to_native, or the program, is
  irNo,       \* the IR instruction the generator is at
  code,       \* code_ before the strings: [at, size], an instruction at its offset
  pool,       \* string_pool_
  fixups,     \* print_fixups_: where a disp32 stands and the string it is for
  offsets,    \* string_pool_offsets_ of the strings laid out
  running,    \* running_offset
  patched,    \* how many displacements have been patched
  strings,    \* the bytes of the strings appended to the code
  appended,   \* how many strings have been appended
  file,       \* the output file
  rip, reg,   \* the processor
  output,     \* what each write(2) to stdout wrote: a sequence of bytes
  exited

codeVars == <<irNo, pool, fixups>>
linkVars == <<offsets, running, patched, strings, appended>>
backVars == <<phase, code, codeVars, linkVars, file>>
cpuVars  == <<rip, reg, output, exited>>
vars     == <<parserVars, backVars, cpuVars>>

Registers == {"rax", "rdi", "rsi", "rdx"}

\* The machine instructions the generator uses, with their sizes in bytes.
MovImm(r, n) == [op |-> "mov", reg |-> r, imm |-> n, size |-> 10]
LeaRsi(disp) == [op |-> "lea", reg |-> "rsi", imm |-> disp, size |-> 7]
Syscall      == [op |-> "syscall", reg |-> "rax", imm |-> 0, size |-> 2]
Ret          == [op |-> "ret", reg |-> "rax", imm |-> 0, size |-> 1]

\* The bytes of a text.
TextBytes(t) == [j \in 1 .. TextSize[t] |-> <<t, j>>]

NoCode == [at |-> [a \in {} |-> Ret], size |-> 0]

Init ==
  /\ ParserInit
  /\ phase = "parse"
  /\ irNo = 1 /\ code = NoCode /\ pool = <<>> /\ fixups = <<>>
  /\ offsets = <<>> /\ running = 0 /\ patched = 0 /\ strings = <<>> /\ appended = 0
  /\ file = "absent"
  /\ rip = 0 /\ reg = [r \in Registers |-> 0]
  /\ output = <<>> /\ exited = FALSE

------------------------------------------------------------------------------
\* Phase 1

Parse ==
  /\ phase = "parse"
  /\ ParserNext
  /\ phase' = CASE parsed' = "no" -> "parse"
                [] parsed' = "ok" -> "generate"
                [] OTHER          -> "failed"
  /\ UNCHANGED <<code, codeVars, linkVars, file, cpuVars>>

------------------------------------------------------------------------------
\* Phase 2: x86_64Generator::generate

\* An instruction is appended to the code.
Emit(c, m) ==
  [at   |-> [a \in DOMAIN c.at \cup {c.size} |-> IF a = c.size THEN m ELSE c.at[a]],
   size |-> c.size + m.size]

\* A PRINT: up to its lea, and whole.
EmitBeforeLea(c) == Emit(Emit(c, MovImm("rax", 1)), MovImm("rdi", 1))

EmitPrint(c, t) ==
  Emit(Emit(Emit(EmitBeforeLea(c), LeaRsi(0)), MovImm("rdx", TextSize[t])), Syscall)

\* Mutant of EmitHalt: the exit status is whatever rdi holds.
EmitHaltNoStatus(c) == Emit(Emit(c, MovImm("rax", 60)), Syscall)

EmitHalt(c) == Emit(Emit(Emit(c, MovImm("rax", 60)), MovImm("rdi", 0)), Syscall)

AtInstruction == phase = "generate" /\ irNo <= Len(ir)

\* The string joins the pool and the place of its disp32, 3 bytes into the
\* lea, is noted for the patch.
GeneratePrint ==
  /\ AtInstruction
  /\ ir[irNo].op = "PRINT"
  /\ code' = EmitPrint(code, ir[irNo].text)
  /\ pool' = Append(pool, ir[irNo].text)
  /\ fixups' = Append(fixups, [at |-> EmitBeforeLea(code).size + 3, index |-> Len(pool) + 1])
  /\ irNo' = irNo + 1
  /\ UNCHANGED <<parserVars, phase, linkVars, file, cpuVars>>

GenerateHalt ==
  /\ AtInstruction
  /\ ir[irNo].op = "HALT"
  /\ code' = EmitHalt(code)
  /\ irNo' = irNo + 1
  /\ UNCHANGED <<parserVars, phase, pool, fixups, linkVars, file, cpuVars>>

\* Mutant of GenerateRet: the strings are placed over the ret.
GenerateRetUncounted ==
  /\ phase = "generate"
  /\ irNo = Len(ir) + 1
  /\ code' = [code EXCEPT !.at = Emit(code, Ret).at]
  /\ phase' = "link"
  /\ UNCHANGED <<parserVars, codeVars, linkVars, file, cpuVars>>

\* emit_ret() after the only function, main.
GenerateRet ==
  /\ phase = "generate"
  /\ irNo = Len(ir) + 1
  /\ code' = Emit(code, Ret)
  /\ phase' = "link"
  /\ UNCHANGED <<parserVars, codeVars, linkVars, file, cpuVars>>

\* The three loops after it.  First each string is given its offset.
LayOutString ==
  /\ phase = "link" /\ Len(offsets) < Len(pool)
  /\ offsets' = Append(offsets, running)
  /\ running' = running + TextSize[pool[Len(offsets) + 1]]
  /\ UNCHANGED <<parserVars, phase, code, codeVars, patched, strings, appended, file, cpuVars>>

\* What the four bytes of a displacement hold of a number.
Disp32(d) == ((d + MaxDisp) % (2 * MaxDisp)) - MaxDisp

\* Mutant of Displacement: relative to the field, not to what follows it.
DisplacementFromField(f) == Disp32(code.size + offsets[f.index] - f.at)

\* disp = str_off - instr_end, where disp32 is the last field of the lea.
Displacement(f) == Disp32(code.size + offsets[f.index] - (f.at + 4))

\* Then each disp32 is replaced; it stands 3 bytes into its lea.
PatchFixup ==
  /\ phase = "link" /\ Len(offsets) = Len(pool)
  /\ patched < Len(fixups)
  /\ LET f == fixups[patched + 1]
     IN code' = [code EXCEPT !.at[f.at - 3] = LeaRsi(Displacement(f))]
  /\ patched' = patched + 1
  /\ UNCHANGED <<parserVars, phase, codeVars, offsets, running, strings, appended, file, cpuVars>>

\* Last the strings are appended.
AppendString ==
  /\ phase = "link" /\ Len(offsets) = Len(pool) /\ patched = Len(fixups)
  /\ appended < Len(pool)
  /\ strings' = strings \o TextBytes(pool[appended + 1])
  /\ appended' = appended + 1
  /\ UNCHANGED <<parserVars, phase, code, codeVars, offsets, running, patched, file, cpuVars>>

Linked ==
  /\ phase = "link" /\ Len(offsets) = Len(pool) /\ patched = Len(fixups)
  /\ appended = Len(pool)
  /\ phase' = "write"
  /\ UNCHANGED <<parserVars, code, codeVars, linkVars, file, cpuVars>>

------------------------------------------------------------------------------
\* Phase 3: the output file

\* out.is_open() fails: the old file, if any, is left alone.
OpenFails ==
  /\ phase = "write"
  /\ file = "absent"
  /\ phase' = "failed"
  /\ UNCHANGED <<parserVars, code, codeVars, linkVars, file, cpuVars>>

\* std::ios::trunc
Open ==
  /\ phase = "write"
  /\ file = "absent"
  /\ file' = "empty"
  /\ UNCHANGED <<parserVars, phase, code, codeVars, linkVars, cpuVars>>

\* !out.good(): some of the bytes may be in the file, which stays.
WriteFails ==
  /\ phase = "write"
  /\ file = "empty"
  /\ file' \in {"empty", "partial"}
  /\ phase' = "failed"
  /\ UNCHANGED <<parserVars, code, codeVars, linkVars, cpuVars>>

\* ehdr_size + phdr_size, the file offset of the code and of the entry point.
CodeOffset == 64 + 56

\* Mutant of Write: the entry point leaves out the program header.
WriteEntryTooLow ==
  /\ phase = "write"
  /\ file = "empty"
  /\ file' = "complete"
  /\ phase' = "run"
  /\ rip' = 64
  /\ UNCHANGED <<parserVars, code, codeVars, linkVars, reg, output, exited>>

\* The file is complete and executable; the program is started at its entry.
Write ==
  /\ phase = "write"
  /\ file = "empty"
  /\ file' = "complete"
  /\ phase' = "run"
  /\ rip' = CodeOffset
  /\ UNCHANGED <<parserVars, code, codeVars, linkVars, reg, output, exited>>

------------------------------------------------------------------------------
\* The processor

\* The byte at an address: the strings follow the code.
ByteAt(a) ==
  LET k == a - (CodeOffset + code.size) + 1
  IN  IF k \in DOMAIN strings THEN strings[k] ELSE <<NoText, a>>

Fetched(op) ==
  /\ phase = "run"
  /\ rip - CodeOffset \in DOMAIN code.at
  /\ code.at[rip - CodeOffset].op = op

Instruction == code.at[rip - CodeOffset]

ExecuteMov ==
  /\ Fetched("mov")
  /\ reg' = [reg EXCEPT ![Instruction.reg] = Instruction.imm]
  /\ rip' = rip + Instruction.size
  /\ UNCHANGED <<parserVars, backVars, output, exited>>

\* rip-relative: from the end of the instruction.
ExecuteLea ==
  /\ Fetched("lea")
  /\ reg' = [reg EXCEPT !["rsi"] = rip + Instruction.size + Instruction.imm]
  /\ rip' = rip + Instruction.size
  /\ UNCHANGED <<parserVars, backVars, output, exited>>

\* write(1, rsi, rdx), which returns the count in rax.
ExecuteWrite ==
  /\ Fetched("syscall")
  /\ reg["rax"] = 1
  /\ output' = Append(output, [j \in 1 .. reg["rdx"] |-> ByteAt(reg["rsi"] + j - 1)])
  /\ reg' = [reg EXCEPT !["rax"] = reg["rdx"]]
  /\ rip' = rip + Instruction.size
  /\ UNCHANGED <<parserVars, backVars, exited>>

\* exit(rdi)
ExecuteExit ==
  /\ Fetched("syscall")
  /\ reg["rax"] = 60
  /\ exited' = (reg["rdi"] = 0)
  /\ phase' = "ended"
  /\ UNCHANGED <<parserVars, code, codeVars, linkVars, file, rip, reg, output>>

Generate == GeneratePrint \/ GenerateHalt \/ GenerateRet
Output   == OpenFails \/ Open \/ WriteFails \/ Write
Execute  == ExecuteMov \/ ExecuteLea \/ ExecuteWrite \/ ExecuteExit

Link     == LayOutString \/ PatchFixup \/ AppendString \/ Linked

Next == Parse \/ Generate \/ Link \/ Output \/ Execute

\* A sequential program on a processor: it goes on while it can.
Spec == Init /\ [][Next]_vars /\ WF_vars(Next)

------------------------------------------------------------------------------
\* Properties

TypeOK ==
  /\ ParserTypeOK
  /\ phase \in {"parse", "generate", "link", "write", "run", "ended", "failed"}
  /\ irNo \in 1 .. Len(ir) + 1
  /\ \A a \in DOMAIN code.at : a \in Nat /\ a + code.at[a].size <= code.size
  /\ pool \in Seq(Texts)
  /\ Len(offsets) <= Len(pool) /\ patched <= Len(fixups) /\ appended <= Len(pool)
  /\ file \in {"absent", "empty", "partial", "complete"}

\* The executable only ever runs instructions the generator emitted: it does
\* not fall into the strings behind the code, nor reach main's ret, which would
\* return from the entry point of a process that has no caller.
RunsOnlyItsCode ==
  phase = "run" => /\ rip - CodeOffset \in DOMAIN code.at
                   /\ Instruction.op # "ret"

\* What the executable writes is what the source means, message by message
\* and byte by byte, and it exits with status 0 after the last one only.
Program == INSTANCE PrintProgram WITH
  script  <- [k \in 1 .. Len(Meaning(source)) |-> TextBytes(Meaning(source)[k])],
  written <- output
ImplementsProgram == Program!Init /\ [][Program!Next]_(Program!vars)

\* A compilation fails or makes a program that gets to its exit.
EndsOrFails == <>(exited \/ phase = "failed")
==============================================================================
