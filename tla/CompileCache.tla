---------------------------- MODULE CompileCache ----------------------------
(***************************************************************************)
(* The compile caches: the launcher nanlang_cc, which answers from the     *)
(* modification times of source and output or starts nanlang_cpp, and the  *)
(* two caches of compile_native_source (modification times in nanoseconds, *)
(* and a recorded fingerprint of the source).                              *)
(*                                                                         *)
(* Invocations run step by step beside an editor that saves the source and *)
(* a clock whose ticks group into the seconds the launcher sees.  A write  *)
(* of the output may fail, or its process be killed, half way.             *)
(*                                                                         *)
(* A saved source is a version number and a size; saving stamps it with    *)
(* the time of the save.  An output carries, for the properties only, the  *)
(* version it was compiled from and the time that version was read.        *)
(***************************************************************************)
EXTENDS Integers

CONSTANTS
  Procs,        \* concurrent invocations
  Policies,     \* the caches looked at: see Launcher, Fast, Strict, Off
  Modes,        \* output modes
  InitialMode, InitialSize,
  Sizes,        \* sizes a saved source may have
  Formats,      \* forms the recorded fingerprint may have on disk
  TicksPerSecond,
  MaxTime,      \* bound of the clock
  MaxVersion,   \* bound of the number of saves
  MaxFaults     \* bound of the number of failures and kills

ASSUME ClockAssumption == TicksPerSecond \in Nat \ {0} /\ MaxTime \in Nat

ASSUME InitialAssumption == InitialMode \in Modes /\ InitialSize \in Sizes

ASSUME BoundsAssumption == MaxVersion \in Nat /\ MaxFaults \in Nat

ASSUME PoliciesAssumption == Policies \subseteq {"launcher", "fast", "strict", "off"}

ASSUME FormatsAssumption == Formats \subseteq {"binary", "v2", "hash"}

VARIABLES
  policy,   \* how the environment variables choose the cache
  now,      \* the clock, in ticks
  src,      \* the source file
  out,      \* the output file
  meta,     \* the file beside the output that records the fingerprint
  proc,     \* the invocations
  faults    \* failures and kills so far

vars == <<policy, now, src, out, meta, proc, faults>>

\* nanlang_cc with NANLANG_FAST_CACHE; compile_native_source with it, without
\* it, and with NANLANG_DISABLE_CACHE.
Launcher == "launcher"
Fast     == "fast"
Strict   == "strict"
Off      == "off"

Second(t) == t \div TicksPerSecond

Times    == 0 .. MaxTime
Versions == 0 .. MaxVersion
Sources  == [version : Versions, size : Sizes, mtime : Times]
Outputs  == [version : Versions, mode : Modes, part : {"none", "empty", "partial", "full"},
             mtime : Times, readAt : Times, recorded : BOOLEAN]
Metas    == [format : Formats \cup {"none", "torn", "binary"}, mode : Modes, size : Sizes,
             mtime : Times, version : Versions, at : Times]
Places   == {"idle", "statSource", "statOutput", "statAgain", "readMeta", "read", "open", "write",
             "finish", "fingerprint", "openMeta", "writeMeta", "fresh", "same", "built",
             "failed", "killed"}
Invocations == [at : Places, mode : Modes, stat : Sources, got : Outputs,
                version : Versions, readAt : Times]

\* An invocation that has not looked at anything.
Idle == [at |-> "idle", mode |-> InitialMode, version |-> 0, readAt |-> 0,
         stat |-> [version |-> 0, size |-> InitialSize, mtime |-> 0],
         got |-> [version |-> 0, mode |-> InitialMode, part |-> "none", mtime |-> 0,
                  readAt |-> 0, recorded |-> FALSE]]

TypeOK ==
  /\ policy \in Policies
  /\ now \in Times
  /\ src \in Sources
  /\ out \in Outputs
  /\ meta \in Metas
  /\ faults \in 0 .. MaxFaults
  /\ proc \in [Procs -> Invocations]

\* Before: no output, or the output of an earlier release with its record.
Init ==
  /\ policy \in Policies
  /\ now = 0
  /\ src = [version |-> 0, size |-> InitialSize, mtime |-> 0]
  /\ out \in [version : {0}, mode : {InitialMode}, part : {"none", "full"}, mtime : {0},
              readAt : {0}, recorded : {TRUE}]
  /\ meta \in [format : IF out.part = "full" THEN Formats ELSE {"none"},
               mode : {InitialMode}, size : {InitialSize}, mtime : {0}, version : {0}, at : {0}]
  /\ proc = [p \in Procs |-> Idle]
  /\ faults = 0

------------------------------------------------------------------------------
\* The editor and the clock

Tick ==
  /\ now < MaxTime
  /\ now' = now + 1
  /\ UNCHANGED <<policy, src, out, meta, proc, faults>>

Save(size) ==
  /\ src.version < MaxVersion
  /\ src' = [version |-> src.version + 1, size |-> size, mtime |-> now]
  /\ UNCHANGED <<policy, now, out, meta, proc, faults>>

------------------------------------------------------------------------------
\* The look into the cache

Goto(p, place) ==
  /\ proc' = [proc EXCEPT ![p].at = place]
  /\ UNCHANGED <<policy, now, src>>

FirstPlace == CASE policy \in {Launcher, Fast} -> "statSource"
                [] policy = Strict -> "statAgain"
                [] policy = Off -> "read"

\* Launchers run side by side.  compile_native_source, which no entry point
\* calls any more, is called once at a time.
Invoke(p, mode) ==
  /\ proc[p].at = "idle"
  /\ policy = Launcher \/ \A q \in Procs : proc[q].at = "idle"
  /\ proc' = [proc EXCEPT ![p].at = FirstPlace, ![p].mode = mode]
  /\ UNCHANGED <<policy, now, src, out, meta, faults>>

\* output_is_fresh stats the source, then the output; cache_hit_native stats
\* the source anew.
StatSource(p) ==
  /\ \/ /\ proc[p].at = "statSource"
        /\ proc' = [proc EXCEPT ![p].at = "statOutput", ![p].stat = src]
     \/ /\ proc[p].at = "statAgain"
        /\ proc' = [proc EXCEPT ![p].at = "readMeta", ![p].stat = src]
  /\ UNCHANGED <<policy, now, src, out, meta, faults>>

\* Mutant of NonEmpty: that the file is there is enough.
Exists(file) == file.part # "none"

NonEmpty(file) == file.part \in {"partial", "full"}

\* Mutant of FreshSeconds: the same second counts as stale.
FreshSecondsLater(s, file) == NonEmpty(file) /\ Second(s.mtime) < Second(file.mtime)

FreshSeconds(s, file) == NonEmpty(file) /\ Second(s.mtime) <= Second(file.mtime)

FreshNanoseconds(s, file) == NonEmpty(file) /\ s.mtime <= file.mtime

Fresh(p) ==
  \/ policy = Launcher /\ FreshSeconds(proc[p].stat, out)
  \/ policy = Fast /\ FreshNanoseconds(proc[p].stat, out)

Answer(p, place) ==
  /\ proc' = [proc EXCEPT ![p].at = place, ![p].got = out]
  /\ UNCHANGED <<policy, now, src, out, meta, faults>>

FreshHit(p) ==
  /\ proc[p].at = "statOutput"
  /\ Fresh(p)
  /\ Answer(p, "fresh")

\* The launcher delegates, the fast cache goes on to the strict one.
FreshMiss(p) ==
  /\ proc[p].at = "statOutput"
  /\ ~Fresh(p)
  /\ \/ policy = Launcher /\ Answer(p, "read")
     \/ policy # Launcher /\ Answer(p, "statAgain")

\* Mutant of SameFingerprint: only mode and size are compared.
SameFingerprintBySize(p) ==
  /\ meta.mode = proc[p].mode
  /\ meta.size = proc[p].stat.size

\* Mutant of SameFingerprint: the mode is not compared.
SameFingerprintAnyMode(p) ==
  /\ meta.size = proc[p].stat.size /\ meta.mtime = proc[p].stat.mtime

\* The binary record and the v2 line compare mode, size and modification time;
\* the oldest form has only the mode and the hash of the contents, which the
\* source is read again for.
SameFingerprint(p) ==
  /\ meta.mode = proc[p].mode
  /\ \/ /\ meta.format \in {"binary", "v2"}
        /\ meta.size = proc[p].stat.size /\ meta.mtime = proc[p].stat.mtime
     \/ /\ meta.format = "hash"
        /\ meta.version = src.version

RecordHit(p) ==
  /\ proc[p].at = "readMeta"
  /\ NonEmpty(out) /\ SameFingerprint(p)
  /\ Answer(p, "same")

RecordMiss(p) ==
  /\ proc[p].at = "readMeta"
  /\ ~(NonEmpty(out) /\ SameFingerprint(p))
  /\ Answer(p, "read")

------------------------------------------------------------------------------
\* The compilation

\* The parser opens the source and reads it; what the cache saw is forgotten.
Read(p) ==
  /\ proc[p].at = "read"
  /\ proc' = [proc EXCEPT ![p] = [Idle EXCEPT !.at = "open", !.mode = proc[p].mode,
                                             !.version = src.version, !.readAt = now]]
  /\ UNCHANGED <<policy, now, src, out, meta, faults>>

\* What the output becomes when p has written that much of it.
Written(p, part) ==
  [version |-> proc[p].version, mode |-> proc[p].mode, part |-> part, mtime |-> now,
   readAt |-> proc[p].readAt, recorded |-> policy = Launcher]

\* The output file is created or truncated.
Open(p) ==
  /\ proc[p].at = "open"
  /\ out' = Written(p, "empty")
  /\ Goto(p, "write")
  /\ UNCHANGED <<meta, faults>>

WriteSome(p) ==
  /\ proc[p].at = "write"
  /\ out' = Written(p, "partial")
  /\ Goto(p, "finish")
  /\ UNCHANGED <<meta, faults>>

WriteRest(p) ==
  /\ proc[p].at = "finish"
  /\ out' = Written(p, "full")
  /\ Goto(p, IF policy \in {Fast, Strict} THEN "fingerprint" ELSE "built")
  /\ UNCHANGED <<meta, faults>>

\* The fingerprint is taken of the source as it is after the compilation.
Fingerprint(p) ==
  /\ proc[p].at = "fingerprint"
  /\ proc' = [proc EXCEPT ![p].at = "openMeta", ![p].stat = src]
  /\ UNCHANGED <<policy, now, src, out, meta, faults>>

OpenMeta(p) ==
  /\ proc[p].at = "openMeta"
  /\ meta' = [meta EXCEPT !.format = "torn"]
  /\ Goto(p, "writeMeta")
  /\ UNCHANGED <<out, faults>>

\* Mutant of RecordOf: a tag that no reader knows.
RecordOfUnknownTag(p) ==
  [format |-> "v3", mode |-> proc[p].mode, size |-> proc[p].stat.size,
   mtime |-> proc[p].stat.mtime, version |-> proc[p].stat.version, at |-> now]

RecordOf(p) ==
  [format |-> "binary", mode |-> proc[p].mode, size |-> proc[p].stat.size,
   mtime |-> proc[p].stat.mtime, version |-> proc[p].stat.version, at |-> now]

WriteMeta(p) ==
  /\ proc[p].at = "writeMeta"
  /\ meta' = RecordOf(p)
  /\ out' = [out EXCEPT !.recorded = TRUE]
  /\ Goto(p, "built")
  /\ UNCHANGED faults

\* Opening or writing the output fails and is reported.  What was written
\* stays.
Fail(p) ==
  /\ proc[p].at \in {"open", "write", "finish"}
  /\ faults < MaxFaults
  /\ faults' = faults + 1
  /\ Goto(p, "failed")
  /\ UNCHANGED <<out, meta>>

\* What is still in the stream's buffer fails to be written when the file is
\* closed, which nobody looks at.
LoseAtClose(p) ==
  /\ proc[p].at \in {"write", "finish"}
  /\ faults < MaxFaults
  /\ faults' = faults + 1
  /\ Goto(p, IF policy \in {Fast, Strict} THEN "fingerprint" ELSE "built")
  /\ UNCHANGED <<out, meta>>

\* The compiler is killed; nanlang_cc reports 128 and the signal.
Kill(p) ==
  /\ proc[p].at \in {"read", "open", "write", "finish", "fingerprint", "openMeta", "writeMeta"}
  /\ faults < MaxFaults
  /\ faults' = faults + 1
  /\ Goto(p, "killed")
  /\ UNCHANGED <<out, meta>>

\* Exit status 0 after a hit or a compilation, another one otherwise.  The
\* process forgets what it knew.
Exit(p) ==
  /\ proc[p].at \in {"fresh", "same", "built", "failed", "killed"}
  /\ proc' = [proc EXCEPT ![p] = Idle]
  /\ UNCHANGED <<policy, now, src, out, meta, faults>>

Compile(p) ==
  \/ Read(p) \/ Open(p) \/ WriteSome(p) \/ WriteRest(p)
  \/ Fingerprint(p) \/ OpenMeta(p) \/ WriteMeta(p)

Next ==
  \/ Tick
  \/ \E size \in Sizes : Save(size)
  \/ \E p \in Procs :
       \/ \E mode \in Modes : Invoke(p, mode)
       \/ StatSource(p)
       \/ FreshHit(p) \/ FreshMiss(p) \/ RecordHit(p) \/ RecordMiss(p)
       \/ Compile(p)
       \/ Fail(p) \/ LoseAtClose(p) \/ Kill(p)
       \/ Exit(p)

Spec == Init /\ [][Next]_vars

------------------------------------------------------------------------------
\* Properties

\* A hit that hands out a complete program older than the source as it was
\* looked at: the missed save fell between the moment the compilation read the
\* source and the end of the second its output was written in (the launcher),
\* the moment it was written (the fast cache), or the moment the fingerprint
\* was recorded (the strict cache).  A save outside that window is never missed.
StaleOnlyInWindow ==
  \A p \in Procs :
    LET saved == proc[p].stat.mtime
        got   == proc[p].got
    IN got.part = "full" /\ got.version < proc[p].stat.version =>
         /\ proc[p].at = "fresh" =>
              /\ got.readAt <= saved
              /\ IF policy = Launcher THEN Second(saved) <= Second(got.mtime)
                                      ELSE saved <= got.mtime
         /\ proc[p].at = "same" => got.readAt <= saved /\ saved <= meta.at

\* The launcher starts the compiler only when it must: not when the output it
\* looked at has contents and is as new as the source it looked at.
MissOnlyWhenNeeded ==
  \A p \in Procs :
    policy = Launcher /\ proc[p].at = "read" /\ NonEmpty(proc[p].got)
      => proc[p].got.version < proc[p].stat.version

\* A hit of the strict cache is an output of the asked mode, unless the
\* compilation that wrote the output never came to record it.
RecordedHitsHaveMode ==
  \A p \in Procs :
    proc[p].at = "same" /\ proc[p].got.recorded => proc[p].got.mode = proc[p].mode

\* A hit never hands out an empty output, and one that is cut short only when
\* a failure or a kill cut it or another process is in the middle of writing it.
TornHitsHaveACause ==
  [][\A p \in Procs :
       (FreshHit(p) \/ RecordHit(p)) /\ out.part # "full"
         => /\ out.part = "partial"
            /\ faults > 0 \/ \E q \in Procs : proc[q].at = "finish"]_vars
=============================================================================
