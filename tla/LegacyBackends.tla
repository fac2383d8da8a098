---------------------------- MODULE LegacyBackends ----------------------------
(***************************************************************************)
(* The two compilers of version 3 in src/nanlang_cpp.cpp and what runs     *)
(* their output: the native emitter, whose machine code writes one message *)
(* after the other, and the bytecode compiler with the bytecode machine.   *)
(* Warnings are left out, and with them emitted_ops: it is 0 only when     *)
(* there was no halt.                                                      *)
(***************************************************************************)
EXTENDS LegacySource

CONSTANTS
  Sources,    \* the sources to compile: sequences of lines
  MaxInt      \* 2^31: displacements and sizes are signed numbers of 32 bits

ASSUME SourcesAssumption == Sources \subseteq Seq(Lines)

ASSUME IntAssumption == MaxInt \in Nat \ {0}

VARIABLES
  backend,    \* "native" or "bytecode"
  source, at, \* the source and the line the compiler is at
  hasHalt,    \* has_halt
  writes,     \* NativeProgram::writes: messages
  bytes,      \* bytecode
  starts,     \* where an instruction begins in bytes (history)
  phase,      \* "parse", "emit", "patch", "write", "run", "ended", "failed"
  writeCode,  \* the machine code of each write: see EmitWrite
  codeSize, rodata,
  file,       \* the bytecode file
  pc,         \* the next byte of the file, or the next write of the executable
  acc,        \* the accumulator
  output,     \* the messages on stdout
  halted, ok  \* of the run: it halted; it succeeded

frontVars == <<backend, source, at, hasHalt, writes, bytes, starts>>
emitVars  == <<writeCode, codeSize, rodata>>
runVars   == <<pc, acc, output, halted, ok>>
vars      == <<frontVars, phase, emitVars, file, runVars>>

HALT  == 1
SAY   == 2
LOAD  == 3
STORE == 4
Magic == <<78, 65, 78, 51>>     \* NAN3

Init ==
  /\ backend \in {"native", "bytecode"}
  /\ source \in Sources /\ at = 1
  /\ hasHalt = FALSE
  /\ writes = <<>>
  /\ bytes = Magic /\ starts = {}
  /\ phase = "parse"
  /\ writeCode = <<>> /\ codeSize = 0 /\ rodata = <<>>
  /\ file = <<>>
  /\ pc = 1 /\ acc = 0 /\ output = <<>>
  /\ halted = FALSE /\ ok = FALSE

------------------------------------------------------------------------------
\* parse_native_program and compile_source, line by line

line == source[at]

\* Mutant of U32: only the lowest byte of the length.
U32LowByte(n) == <<n % 256, 0, 0, 0>>

U32(n) == <<n % 256, (n \div 256) % 256, (n \div 65536) % 256, (n \div 16777216) % 256>>

Native(messages) == backend = "native" /\ writes' = writes \o messages /\ UNCHANGED <<bytes, starts>>

\* Some instructions, each a sequence of bytes, are appended.
Bytecode(code) ==
  /\ backend = "bytecode"
  /\ bytes' = bytes \o FlattenSeq(code)
  /\ starts' = starts \cup
       {Len(bytes) + 1 + Len(FlattenSeq(SubSeq(code, 1, k - 1))) : k \in DOMAIN code}
  /\ UNCHANGED writes

StoreSequence(value, addr) == <<<<LOAD, value>>, <<STORE, addr>>>>

\* The compiler moves on from a line of one of the kinds.
AtLine(kinds) ==
  /\ phase = "parse" /\ at <= Len(source) /\ line.kind \in kinds
  /\ at' = at + 1
  /\ UNCHANGED <<backend, source, emitVars, file, runVars>>

ParseSay ==
  /\ AtLine({"say"})
  /\ Native(<<SayMessage(line.text)>>)
       \/ Bytecode(<<<<SAY>> \o U32(Len(line.text)) \o line.text>>)
  /\ UNCHANGED <<hasHalt, phase>>

ParseSignal ==
  /\ AtLine({"signal"})
  /\ Native(<<SignalMessage(line.port, line.signal)>>)
       \/ Bytecode(StoreSequence(line.signal, line.port))
  /\ UNCHANGED <<hasHalt, phase>>

\* The native emitter only notes the halt.
ParseHalt ==
  /\ AtLine({"halt"})
  /\ hasHalt' = TRUE
  /\ Native(<<>>) \/ Bytecode(<<<<HALT>>>>)
  /\ UNCHANGED phase

\* Numbers that do not fit a byte end the bytecode compiler.
ParseMmio ==
  /\ AtLine({"mmio"})
  /\ \/ Native(<<LogMessage("mmio", at)>>) /\ UNCHANGED phase
     \/ /\ line.addr <= 255 /\ line.value <= 255
        /\ Bytecode(StoreSequence(line.value, line.addr))
        /\ UNCHANGED phase
     \/ /\ line.addr > 255 \/ line.value > 255
        /\ backend = "bytecode"
        /\ phase' = "failed"
        /\ UNCHANGED <<writes, bytes, starts>>
  /\ UNCHANGED hasHalt

ParseAt ==
  /\ AtLine({"at"})
  /\ Native(<<LogMessage("mmio", at)>>) \/ Bytecode(<<>>)
  /\ UNCHANGED <<hasHalt, phase>>

ParseUi ==
  /\ AtLine({"ui"})
  /\ Native(UiMessages(line, at)) \/ Bytecode(<<>>)
  /\ UNCHANGED <<hasHalt, phase>>

ParseSkip ==
  /\ AtLine({"skip"})
  /\ UNCHANGED <<hasHalt, writes, bytes, starts, phase>>

ParseBroken ==
  /\ AtLine({"broken"})
  /\ phase' = "failed"
  /\ UNCHANGED <<hasHalt, writes, bytes, starts>>

\* A program without a halt gets one at its end.
ParseEnd ==
  /\ phase = "parse" /\ at > Len(source)
  /\ hasHalt' = TRUE
  /\ Native(<<>>) \/ Bytecode(IF hasHalt THEN <<>> ELSE <<<<HALT>>>>)
  /\ phase' = IF backend = "native" THEN "emit" ELSE "write"
  /\ UNCHANGED <<backend, source, at, emitVars, file, runVars>>

Parse ==
  \/ ParseSay \/ ParseSignal \/ ParseHalt \/ ParseMmio \/ ParseAt \/ ParseUi
  \/ ParseSkip \/ ParseBroken \/ ParseEnd

------------------------------------------------------------------------------
\* emit_native_payload

\* mov rax, 1; mov rdi, 1; lea rsi, [rip + disp32]; mov rdx, len; syscall
MovSize   == 7
WriteSize == 4 * MovSize + 2
DispField == 2 * MovSize + 3     \* of the lea, whose last field it is
ExitSize  == MovSize + 3 + 2     \* mov rax, 60; xor rdi, rdi; syscall

\* What a field of four bytes holds of a number.
Int32(n) == ((n + MaxInt) % (2 * MaxInt)) - MaxInt

\* The processor extends the size as it does the displacement.
EmitWrite ==
  /\ phase = "emit" /\ Len(writeCode) < Len(writes)
  /\ LET text == writes[Len(writeCode) + 1]
     IN /\ writeCode' = Append(writeCode, [field |-> codeSize + DispField, disp |-> 0,
                                           ro |-> Len(rodata), size |-> Int32(Len(text))])
        /\ rodata' = rodata \o text
  /\ codeSize' = codeSize + WriteSize
  /\ UNCHANGED <<frontVars, phase, file, runVars>>

EmitExit ==
  /\ phase = "emit" /\ Len(writeCode) = Len(writes)
  /\ codeSize' = codeSize + ExitSize
  /\ phase' = "patch"
  /\ UNCHANGED <<frontVars, writeCode, rodata, file, runVars>>

\* Mutant of Displacement: the length of the code at the time of the write.
DisplacementTooEarly(w) == Int32(w.field + MovSize + 4 + w.ro - (w.field + 4))

\* target - next_ip: from the end of the field to the message behind the code.
Displacement(w) == Int32(codeSize + w.ro - (w.field + 4))

Patch ==
  /\ phase = "patch"
  /\ writeCode' = [i \in DOMAIN writeCode |->
                     [writeCode[i] EXCEPT !.disp = Displacement(writeCode[i])]]
  /\ phase' = "write"
  /\ UNCHANGED <<frontVars, codeSize, rodata, file, runVars>>

------------------------------------------------------------------------------
\* The output file

\* It is not opened, or the disk is full and a part of the bytecode is in it;
\* a part of an executable is not run here (see CompileCache).
WriteFails ==
  /\ phase = "write"
  /\ phase' = "failed"
  /\ \/ UNCHANGED file
     \/ /\ backend = "bytecode"
        /\ \E n \in 1 .. Len(bytes) - 1 : file' = SubSeq(bytes, 1, n)
  /\ UNCHANGED <<frontVars, emitVars, runVars>>

\* The entry point of the executable is its first write.
Write ==
  /\ phase = "write"
  /\ file' = IF backend = "bytecode" THEN bytes ELSE file
  /\ phase' = IF backend = "native" THEN "run" ELSE "written"
  /\ UNCHANGED <<frontVars, emitVars, runVars>>

------------------------------------------------------------------------------
\* The processor running the executable

\* What is in memory at an offset from the entry point.
Memory(a) ==
  IF a < codeSize THEN <<"code", a>>
  ELSE IF a - codeSize < Len(rodata) THEN rodata[a - codeSize + 1] ELSE <<"none", a>>

ExecuteWrite ==
  /\ phase = "run" /\ backend = "native" /\ pc <= Len(writeCode)
  /\ LET w == writeCode[pc]
         rsi == w.field + 4 + w.disp
     IN output' = Append(output, [j \in 1 .. w.size |-> Memory(rsi + j - 1)])
  /\ pc' = pc + 1
  /\ UNCHANGED <<frontVars, phase, emitVars, file, acc, halted, ok>>

ExecuteExit ==
  /\ phase = "run" /\ backend = "native" /\ pc > Len(writeCode)
  /\ phase' = "ended"
  /\ halted' = TRUE /\ ok' = TRUE
  /\ UNCHANGED <<frontVars, emitVars, file, pc, acc, output>>

------------------------------------------------------------------------------
\* run_bytecode, also on what a failed compilation left

Left == Len(file) - pc + 1        \* end - p

EndRun(success) ==
  /\ phase' = "ended"
  /\ ok' = success
  /\ UNCHANGED <<frontVars, emitVars, file, pc, acc, output>>

HasMagic == Len(file) >= 4 /\ SubSeq(file, 1, 4) = Magic

StartRun ==
  /\ backend = "bytecode"
  /\ phase = "written" \/ (phase = "failed" /\ file # <<>>)
  /\ \/ /\ ~HasMagic
        /\ EndRun(FALSE)
     \/ /\ HasMagic
        /\ phase' = "run"
        /\ pc' = 5
        /\ UNCHANGED <<frontVars, emitVars, file, acc, output, ok>>
  /\ UNCHANGED halted

\* The machine is at an opcode.
At(opcode) ==
  /\ phase = "run" /\ backend = "bytecode"
  /\ Left > 0 /\ file[pc] = opcode

Goes(bytesTaken) ==
  /\ pc' = pc + bytesTaken
  /\ UNCHANGED <<frontVars, phase, emitVars, file, halted, ok>>

RunHalt ==
  /\ At(HALT)
  /\ halted' = TRUE
  /\ EndRun(TRUE)

\* read_u32_le_ptr
Length == file[pc + 1] + 256 * file[pc + 2] + 65536 * file[pc + 3] + 16777216 * file[pc + 4]

\* Mutant of SayIsCut: the bytes of the text are not counted.
SayIsCutInLength == Left - 1 < 4

\* The length or the text is cut off.
SayIsCut == IF Left - 1 < 4 THEN TRUE ELSE Left - 5 < Length

RunSay ==
  /\ At(SAY) /\ ~SayIsCut
  /\ output' = Append(output, SayMessage([j \in 1 .. Length |->
                 IF pc + 4 + j <= Len(file) THEN file[pc + 4 + j] ELSE -1]))
  /\ Goes(5 + Length)
  /\ UNCHANGED acc

RunLoad ==
  /\ At(LOAD) /\ Left >= 2
  /\ acc' = file[pc + 1]
  /\ Goes(2)
  /\ UNCHANGED output

RunStore ==
  /\ At(STORE) /\ Left >= 2
  /\ output' = IF file[pc + 1] \in {PULSE_PORT, EMIT_PORT}
                 THEN Append(output, SignalMessage(file[pc + 1], acc))
                 ELSE output
  /\ Goes(2)
  /\ UNCHANGED acc

\* An instruction that is cut off, or an opcode that is none.
RunError ==
  /\ \/ At(SAY) /\ SayIsCut
     \/ (At(LOAD) \/ At(STORE)) /\ Left < 2
     \/ /\ phase = "run" /\ backend = "bytecode" /\ Left > 0
        /\ file[pc] \notin {HALT, SAY, LOAD, STORE}
  /\ EndRun(FALSE)
  /\ UNCHANGED halted

\* The end of the file without a halt: a message, and success all the same.
RunOff ==
  /\ phase = "run" /\ backend = "bytecode" /\ Left <= 0
  /\ EndRun(TRUE)
  /\ UNCHANGED halted

Emit    == EmitWrite \/ EmitExit \/ Patch
Execute == ExecuteWrite \/ ExecuteExit
Machine == StartRun \/ RunHalt \/ RunSay \/ RunLoad \/ RunStore \/ RunError \/ RunOff

Next == Parse \/ Emit \/ WriteFails \/ Write \/ Execute \/ Machine

Spec == Init /\ [][Next]_vars

------------------------------------------------------------------------------
\* Properties

\* What is printed is a beginning of what the compiler that was used makes of
\* the source, whatever of its file was written, and a run that halts has
\* printed all of it.
PrintsItsMeaning ==
  LET script == IF backend = "native" THEN NativeScript(source) ELSE BytecodeScript(source)
  IN /\ Len(output) <= Len(script)
     /\ \A i \in DOMAIN output : output[i] = script[i]
     /\ halted => output = script

\* The bytecode machine reads as an opcode only what was emitted as one, in a
\* whole file and in one cut off anywhere; it fails on a cut file only, and a
\* whole file takes it to a halt.
NeverMisdecodes ==
  /\ phase = "run" /\ backend = "bytecode" /\ Left > 0 => pc \in starts
  /\ phase = "ended" /\ ~halted => Len(file) < Len(bytes)

\* On plain sources the two compilers agree: whichever was used, the messages
\* of the source are written in order, and all of them before the run halts.
Program == INSTANCE PrintProgram WITH
  script  <- PlainScript(source),
  written <- output,
  exited  <- halted
ImplementsProgram ==
  /\ Program!Init
  /\ [][Plain(source) => Program!Next \/ UNCHANGED Program!vars]_vars
===============================================================================
