-------------------------- MODULE CompileCacheProofs --------------------------
(***************************************************************************)
(* Proofs about CompileCache, for any number of invocations, any clock and *)
(* any bounds.                                                             *)
(*                                                                         *)
(* The argument is about times: a version of the source is read at or      *)
(* after the moment it was saved and before the next save.  Agree states   *)
(* that of one look at the source and one reading of it; the invariant     *)
(* holds it of every look and every reading that a process or the output   *)
(* file still remembers.                                                   *)
(***************************************************************************)
EXTENDS CompileCache, TLAPS

\* A look s at the source and a reading of version v at time t are in order.
Agree(s, v, t) ==
  /\ v < s.version => t <= s.mtime
  /\ s.version <= v => s.mtime <= t

\* A version v read at time t is one the source has had by now.
WasRead(v, t) == v <= src.version /\ t <= now /\ Agree(src, v, t)

\* A look s is at a source that was there before, or is there now.
WasSeen(s) ==
  /\ s.version <= src.version
  /\ s.mtime <= src.mtime
  /\ s.version = src.version => s.mtime = src.mtime
  /\ s.version = 0 => s.mtime = 0

SourceInv ==
  /\ src.mtime <= now
  /\ src.version = 0 => src.mtime = 0

OutputInv == WasRead(out.version, out.readAt) /\ out.readAt <= out.mtime /\ out.mtime <= now

ProcInv ==
  \A p \in Procs :
    /\ WasSeen(proc[p].stat)
    /\ WasRead(proc[p].version, proc[p].readAt)
    /\ WasRead(proc[p].got.version, proc[p].got.readAt)
    /\ proc[p].got.readAt <= proc[p].got.mtime

\* Every look and every reading agree.
AgreeInv ==
  \A p \in Procs :
    /\ Agree(proc[p].stat, out.version, out.readAt)
    /\ \A q \in Procs : /\ Agree(proc[p].stat, proc[q].version, proc[q].readAt)
                        /\ Agree(proc[p].stat, proc[q].got.version, proc[q].got.readAt)

\* What the answers of the cache were given for.
AnswerInv ==
  \A p \in Procs :
    /\ policy = Launcher => proc[p].at \notin {"statAgain", "readMeta"}
    /\ proc[p].at = "fresh" =>
         IF policy = Launcher THEN Second(proc[p].stat.mtime) <= Second(proc[p].got.mtime)
                              ELSE proc[p].stat.mtime <= proc[p].got.mtime
    /\ proc[p].at = "same" => proc[p].stat.mtime <= meta.at \/ proc[p].stat.version = 0

\* A record is of a look at the source in its time; in the oldest form it is of
\* the first version only.
MetaInv ==
  /\ meta.mtime <= meta.at
  /\ meta.at <= now
  /\ meta.format = "hash" => meta.version = 0

IInv ==
  /\ TypeOK /\ SourceInv /\ OutputInv /\ ProcInv /\ AgreeInv
  /\ AnswerInv /\ MissOnlyWhenNeeded /\ MetaInv

\* Earlier times are in earlier seconds.
LEMMA SecondMonotone ==
  ASSUME NEW s \in Nat, NEW t \in Nat, s <= t
  PROVE  Second(s) <= Second(t)
  BY ClockAssumption DEF Second

LEMMA SecondIsNat ==
  ASSUME NEW t \in Nat
  PROVE  Second(t) \in Int
  BY ClockAssumption DEF Second

LEMMA IdleType == Idle \in Invocations
  BY InitialAssumption, ClockAssumption, BoundsAssumption
     DEF Idle, Invocations, Places, Sources, Outputs, Versions, Times

------------------------------------------------------------------------------
\* The types

\* Where a process goes on, and what it remembers, keeps to the types.
LEMMA MoveType ==
  ASSUME NEW f \in [Procs -> Invocations], NEW p \in Procs, NEW place \in Places
  PROVE  /\ [f EXCEPT ![p].at = place] \in [Procs -> Invocations]
         /\ \A s \in Sources :
              [f EXCEPT ![p].at = place, ![p].stat = s] \in [Procs -> Invocations]
         /\ \A o \in Outputs :
              [f EXCEPT ![p].at = place, ![p].got = o] \in [Procs -> Invocations]
         /\ \A m \in Modes :
              [f EXCEPT ![p].at = place, ![p].mode = m] \in [Procs -> Invocations]
  BY DEF Invocations

LEMMA WrittenType ==
  ASSUME TypeOK, NEW p \in Procs, NEW part \in {"none", "empty", "partial", "full"}
  PROVE  Written(p, part) \in Outputs
  BY DEF TypeOK, Invocations, Written, Outputs

LEMMA RecordType ==
  ASSUME TypeOK, NEW p \in Procs
  PROVE  RecordOf(p) \in Metas
  BY DEF TypeOK, Invocations, Sources, RecordOf, Metas

LEMMA TypeInit == Init => TypeOK
<1> SUFFICES ASSUME Init PROVE TypeOK
  OBVIOUS
<1>1. 0 \in Times /\ 0 \in Versions
  BY ClockAssumption, BoundsAssumption DEF Times, Versions
<1>2. src \in Sources
  BY <1>1, InitialAssumption DEF Init, Sources
<1>3. out \in Outputs
  BY <1>1, InitialAssumption DEF Init, Outputs
<1>4. meta \in Metas
  BY <1>1, InitialAssumption DEF Init, Metas
<1> QED
  BY <1>1, <1>2, <1>3, <1>4, IdleType, BoundsAssumption DEF Init, TypeOK

LEMMA TypeStep == TypeOK /\ [Next]_vars => TypeOK'
<1> SUFFICES ASSUME TypeOK, [Next]_vars PROVE TypeOK'
  OBVIOUS
<1> USE DEF TypeOK
<1>1. ASSUME Tick PROVE TypeOK'
  BY <1>1, ClockAssumption DEF Tick, Times
<1>2. ASSUME NEW size \in Sizes, Save(size) PROVE TypeOK'
  BY <1>2, BoundsAssumption DEF Save, Sources, Versions
<1>3. ASSUME NEW p \in Procs, NEW mode \in Modes, Invoke(p, mode) PROVE TypeOK'
  <2>1. FirstPlace \in Places
    BY PoliciesAssumption DEF FirstPlace, Places, Launcher, Fast, Strict, Off
  <2> QED
    BY <1>3, <2>1, MoveType DEF Invoke
<1>4. ASSUME NEW p \in Procs, StatSource(p) PROVE TypeOK'
  <2>1. "statOutput" \in Places /\ "readMeta" \in Places
    BY DEF Places
  <2>2. src \in Sources
    OBVIOUS
  <2> HIDE DEF TypeOK
  <2>3. proc' \in [Procs -> Invocations]
    <3>1. PICK place \in Places : proc' = [proc EXCEPT ![p].at = place, ![p].stat = src]
      BY <1>4, <2>1 DEF StatSource
    <3>2. proc \in [Procs -> Invocations]
      BY DEF TypeOK
    <3> QED
      BY <2>2, <3>1, <3>2, MoveType
  <2> QED
    BY <1>4, <2>3 DEF StatSource, TypeOK
<1>5. ASSUME NEW p \in Procs, FreshHit(p) \/ FreshMiss(p) \/ RecordHit(p) \/ RecordMiss(p)
      PROVE TypeOK'
  <2>1. PICK place \in Places : Answer(p, place)
    BY <1>5 DEF FreshHit, FreshMiss, RecordHit, RecordMiss, Places
  <2>2. proc' \in [Procs -> Invocations]
    BY <2>1, MoveType DEF Answer
  <2> QED
    BY <2>1, <2>2 DEF Answer
<1>6. ASSUME NEW p \in Procs, Read(p) PROVE TypeOK'
  <2> DEFINE reading == [Idle EXCEPT !.at = "open", !.mode = proc[p].mode,
                                     !.version = src.version, !.readAt = now]
  <2>1. src.version \in Versions /\ proc[p].mode \in Modes /\ "open" \in Places
    BY DEF Sources, Invocations, Places
  <2>2. reading \in Invocations
    BY <2>1, IdleType DEF Invocations
  <2>3. proc' = [proc EXCEPT ![p] = reading]
    BY <1>6 DEF Read
  <2> HIDE DEF reading
  <2> QED
    BY <1>6, <2>2, <2>3 DEF Read
<1>7. ASSUME NEW p \in Procs, Open(p) \/ WriteSome(p) \/ WriteRest(p) PROVE TypeOK'
  <2>1. PICK place \in Places : Goto(p, place)
    BY <1>7 DEF Open, WriteSome, WriteRest, Places
  <2>2. out' \in Outputs
    BY <1>7, WrittenType DEF Open, WriteSome, WriteRest
  <2> QED
    BY <1>7, <2>1, <2>2, MoveType DEF Goto, Open, WriteSome, WriteRest
<1>8. ASSUME NEW p \in Procs, Fingerprint(p) PROVE TypeOK'
  <2>1. "openMeta" \in Places
    BY DEF Places
  <2> QED
    BY <1>8, <2>1, MoveType DEF Fingerprint
<1>9. ASSUME NEW p \in Procs, OpenMeta(p) PROVE TypeOK'
  <2>1. "writeMeta" \in Places /\ meta' \in Metas
    BY <1>9 DEF OpenMeta, Places, Metas
  <2> QED
    BY <1>9, <2>1, MoveType DEF OpenMeta, Goto
<1>10. ASSUME NEW p \in Procs, WriteMeta(p) PROVE TypeOK'
  <2>1. "built" \in Places /\ meta' \in Metas
    BY <1>10, RecordType DEF WriteMeta, Places
  <2>2. out' \in Outputs
    BY <1>10 DEF WriteMeta, Outputs
  <2> QED
    BY <1>10, <2>1, <2>2, MoveType DEF WriteMeta, Goto
<1>11. ASSUME NEW p \in Procs, Fail(p) \/ LoseAtClose(p) \/ Kill(p) PROVE TypeOK'
  <2>1. PICK place \in Places : Goto(p, place)
    BY <1>11 DEF Fail, LoseAtClose, Kill, Places
  <2>2. faults' \in 0 .. MaxFaults
    BY <1>11, BoundsAssumption DEF Fail, LoseAtClose, Kill
  <2> QED
    BY <1>11, <2>1, <2>2, MoveType DEF Fail, LoseAtClose, Kill, Goto
<1>12. ASSUME NEW p \in Procs, Exit(p) PROVE TypeOK'
  BY <1>12, IdleType DEF Exit
<1>13. ASSUME UNCHANGED vars PROVE TypeOK'
  BY <1>13 DEF vars
<1> QED
  BY <1>1, <1>2, <1>3, <1>4, <1>5, <1>6, <1>7, <1>8, <1>9, <1>10, <1>11, <1>12,
     <1>13 DEF Next, Compile

\* The variables keep to their types.
THEOREM CacheTypes == Spec => []TypeOK
<1> QED
  BY TypeInit, TypeStep, PTL DEF Spec

------------------------------------------------------------------------------
\* Looks, readings and answers

LEMMA Numbers ==
  ASSUME TypeOK
  PROVE  /\ now \in Nat /\ src.version \in Nat /\ src.mtime \in Nat
         /\ out.version \in Nat /\ out.readAt \in Nat /\ out.mtime \in Nat
         /\ meta.version \in Nat /\ meta.mtime \in Nat /\ meta.at \in Nat
         /\ \A p \in Procs :
              /\ proc[p].stat.version \in Nat /\ proc[p].stat.mtime \in Nat
              /\ proc[p].version \in Nat /\ proc[p].readAt \in Nat
              /\ proc[p].got.version \in Nat /\ proc[p].got.readAt \in Nat
              /\ proc[p].got.mtime \in Nat
  BY DEF TypeOK, Invocations, Sources, Outputs, Metas, Versions, Times

LEMMA IdleFields ==
  /\ Idle.at = "idle"
  /\ Idle.stat.version = 0 /\ Idle.stat.mtime = 0
  /\ Idle.version = 0 /\ Idle.readAt = 0
  /\ Idle.got.version = 0 /\ Idle.got.readAt = 0 /\ Idle.got.mtime = 0
  /\ Idle.got.part = "none"
  BY DEF Idle

LEMMA InvInit == Init => IInv
<1> SUFFICES ASSUME Init PROVE IInv
  OBVIOUS
<1>1. TypeOK
  BY TypeInit
<1>2. SourceInv /\ OutputInv
  BY DEF Init, SourceInv, OutputInv, WasRead, Agree
<1>3. \A p \in Procs : proc[p] = Idle
  BY DEF Init
<1>4. ProcInv /\ AgreeInv
  BY <1>3, IdleFields DEF Init, ProcInv, AgreeInv, WasSeen, WasRead, Agree
<1>5. AnswerInv /\ MissOnlyWhenNeeded
  BY <1>3, IdleFields DEF AnswerInv, MissOnlyWhenNeeded
<1>6. MetaInv
  BY DEF Init, MetaInv
<1> QED
  BY <1>1, <1>2, <1>3, <1>4, <1>5, <1>6 DEF IInv

\* What the clock and the editor change.
LEMMA WorldStep ==
  ASSUME IInv, TypeOK', Tick \/ \E size \in Sizes : Save(size)
  PROVE  IInv'
<1> USE DEF IInv
<1>1. CASE Tick
  <2>1. now' = now + 1 /\ UNCHANGED <<policy, src, out, meta, proc>>
    BY <1>1 DEF Tick
  <2>2. SourceInv' /\ OutputInv' /\ MetaInv'
    BY <2>1, Numbers DEF SourceInv, OutputInv, MetaInv, WasRead, Agree
  <2>3. ProcInv'
    BY <2>1, Numbers DEF ProcInv, WasSeen, WasRead, Agree
  <2>4. AgreeInv' /\ AnswerInv' /\ MissOnlyWhenNeeded'
    BY <2>1 DEF AgreeInv, Agree, AnswerInv, MissOnlyWhenNeeded
  <2> QED
    BY <2>2, <2>3, <2>4
<1>2. ASSUME NEW size \in Sizes, Save(size) PROVE IInv'
  <2>1. /\ src'.version = src.version + 1 /\ src'.mtime = now
        /\ UNCHANGED <<policy, now, out, meta, proc>>
    BY <1>2 DEF Save
  <2>2. SourceInv' /\ OutputInv' /\ MetaInv'
    BY <2>1, Numbers DEF SourceInv, OutputInv, MetaInv, WasRead, Agree
  <2>3. ProcInv'
    BY <2>1, Numbers DEF SourceInv, ProcInv, WasSeen, WasRead, Agree
  <2>4. AgreeInv' /\ AnswerInv' /\ MissOnlyWhenNeeded'
    BY <2>1 DEF AgreeInv, Agree, AnswerInv, MissOnlyWhenNeeded
  <2> QED
    BY <2>2, <2>3, <2>4
<1> QED
  BY <1>1, <1>2

\* What a process remembers afterwards: what it did, what there is, or nothing.
Remembers(p) ==
  /\ \A q \in Procs \ {p} : proc'[q] = proc[q]
  /\ \/ proc'[p].stat = proc[p].stat
     \/ proc'[p].stat = src
     \/ proc'[p].stat.version = 0 /\ proc'[p].stat.mtime = 0
  /\ \/ proc'[p].version = proc[p].version /\ proc'[p].readAt = proc[p].readAt
     \/ proc'[p].version = src.version /\ proc'[p].readAt = now
     \/ proc'[p].version = 0 /\ proc'[p].readAt = 0
  /\ \/ proc'[p].got = proc[p].got
     \/ proc'[p].got = out
     \/ /\ proc'[p].got.version = 0 /\ proc'[p].got.readAt = 0
        /\ proc'[p].got.mtime = 0

LEMMA Remembered ==
  ASSUME IInv, TypeOK', NEW p \in Procs, Remembers(p), UNCHANGED <<now, src, out>>
  PROVE  ProcInv' /\ AgreeInv'
<1> USE DEF IInv
<1>1. ASSUME NEW q \in Procs
      PROVE  /\ WasSeen(proc'[q].stat)
             /\ WasRead(proc'[q].version, proc'[q].readAt)
             /\ WasRead(proc'[q].got.version, proc'[q].got.readAt)
             /\ proc'[q].got.readAt <= proc'[q].got.mtime
  BY Numbers DEF Remembers, SourceInv, OutputInv, ProcInv, WasSeen, WasRead, Agree
<1>2. ProcInv'
  BY <1>1 DEF ProcInv, WasSeen, WasRead, Agree
<1>3. ASSUME NEW q \in Procs
      PROVE  Agree(proc'[q].stat, out.version, out.readAt)
  BY Numbers DEF Remembers, SourceInv, OutputInv, AgreeInv, WasRead, Agree
<1>4. ASSUME NEW q \in Procs, NEW r \in Procs
      PROVE  /\ Agree(proc'[q].stat, proc'[r].version, proc'[r].readAt)
             /\ Agree(proc'[q].stat, proc'[r].got.version, proc'[r].got.readAt)
  <2> DEFINE s == proc'[q].stat
  <2>1. \/ \E o \in Procs : s = proc[o].stat
        \/ s = src
        \/ s.version = 0 /\ s.mtime = 0
    BY DEF Remembers
  <2>2. /\ s.version \in Nat /\ s.mtime \in Nat
        /\ s.version = 0 => s.mtime = 0
        /\ WasSeen(s)
    BY <1>1, Numbers, <2>1 DEF WasSeen, SourceInv
  <2>3. \A v, t \in Nat : WasRead(v, t) /\ (\A o \in Procs : Agree(proc[o].stat, v, t)) => Agree(s, v, t)
    BY <2>1, Numbers DEF WasRead, Agree
  <2> HIDE DEF s
  <2>4. Agree(s, src.version, now) /\ Agree(s, 0, 0)
    BY <2>2, Numbers DEF SourceInv, WasSeen, Agree
  <2>5. Agree(s, proc'[r].version, proc'[r].readAt)
    <3>1. CASE r # p \/ (proc'[p].version = proc[p].version /\ proc'[p].readAt = proc[p].readAt)
      <4>1. proc'[r].version = proc[r].version /\ proc'[r].readAt = proc[r].readAt
        BY <3>1 DEF Remembers
      <4> QED
        BY <4>1, <2>3, Numbers DEF ProcInv, AgreeInv
    <3> QED
      BY <3>1, <2>4 DEF Remembers
  <2>6. Agree(s, proc'[r].got.version, proc'[r].got.readAt)
    <3>1. CASE r # p \/ proc'[p].got = proc[p].got
      <4>1. proc'[r].got = proc[r].got
        BY <3>1 DEF Remembers
      <4> QED
        BY <4>1, <2>3, Numbers DEF ProcInv, AgreeInv
    <3>2. CASE r = p /\ proc'[p].got = out
      BY <3>2, <2>3, Numbers DEF OutputInv, AgreeInv
    <3> QED
      BY <3>1, <3>2, <2>4 DEF Remembers
  <2> QED
    BY <2>5, <2>6 DEF s
<1>5. AgreeInv'
  BY <1>3, <1>4 DEF AgreeInv, Agree
<1> QED
  BY <1>2, <1>5

\* What a process does before it writes, and when it is done.
LEMMA LookStep ==
  ASSUME IInv, TypeOK', NEW p \in Procs,
         \/ \E mode \in Modes : Invoke(p, mode)
         \/ StatSource(p) \/ Fingerprint(p) \/ Read(p) \/ Exit(p)
         \/ FreshHit(p) \/ FreshMiss(p) \/ RecordHit(p) \/ RecordMiss(p)
  PROVE  IInv'
<1> USE DEF IInv
<1>1. /\ UNCHANGED <<policy, now, src, out, meta>>
      /\ SourceInv' /\ OutputInv' /\ MetaInv'
  BY DEF Invoke, StatSource, Fingerprint, Read, Exit, FreshHit, FreshMiss, RecordHit,
         RecordMiss, Answer, SourceInv, OutputInv, MetaInv, WasRead, Agree
<1> DEFINE Answers(q) ==
       /\ policy = Launcher => proc'[q].at \notin {"statAgain", "readMeta"}
       /\ proc'[q].at = "fresh" =>
            IF policy = Launcher THEN Second(proc'[q].stat.mtime) <= Second(proc'[q].got.mtime)
                                 ELSE proc'[q].stat.mtime <= proc'[q].got.mtime
       /\ proc'[q].at = "same" => proc'[q].stat.mtime <= meta.at \/ proc'[q].stat.version = 0
       /\ policy = Launcher /\ proc'[q].at = "read" /\ NonEmpty(proc'[q].got)
            => proc'[q].got.version < proc'[q].stat.version
<1>2. SUFFICES Remembers(p) /\ Answers(p)
  <2>1. ASSUME NEW q \in Procs PROVE Answers(q)
    BY <1>2 DEF Remembers, AnswerInv, MissOnlyWhenNeeded
  <2>2. AnswerInv' /\ MissOnlyWhenNeeded'
    BY <1>1, <2>1 DEF AnswerInv, MissOnlyWhenNeeded, NonEmpty
  <2> QED
    BY <1>1, <1>2, <2>2, Remembered
<1> USE DEF TypeOK, Invocations
<1>3. ASSUME NEW mode \in Modes, Invoke(p, mode) PROVE Remembers(p) /\ Answers(p)
  BY <1>3, PoliciesAssumption
     DEF Invoke, Remembers, FirstPlace, Launcher, Fast, Strict, Off
<1>4. ASSUME StatSource(p) PROVE Remembers(p) /\ Answers(p)
  BY <1>4 DEF StatSource, Remembers, AnswerInv
<1>5. ASSUME Fingerprint(p) PROVE Remembers(p) /\ Answers(p)
  BY <1>5 DEF Fingerprint, Remembers
<1>6. ASSUME Read(p) PROVE Remembers(p) /\ Answers(p)
  BY <1>6, IdleFields DEF Read, Remembers, Idle
<1>7. ASSUME Exit(p) PROVE Remembers(p) /\ Answers(p)
  BY <1>7, IdleFields DEF Exit, Remembers
<1>8. ASSUME FreshHit(p) PROVE Remembers(p) /\ Answers(p)
  BY <1>8 DEF FreshHit, Answer, Fresh, FreshSeconds, FreshNanoseconds, Remembers,
              Launcher, Fast
<1>9. ASSUME FreshMiss(p) PROVE Remembers(p) /\ Answers(p)
  <2>1. policy = Launcher /\ NonEmpty(out) => out.version < proc[p].stat.version
    BY <1>9, SecondMonotone, Numbers
       DEF FreshMiss, Fresh, FreshSeconds, OutputInv, AgreeInv, Agree, WasRead
  <2> QED
    BY <1>9, <2>1 DEF FreshMiss, Answer, Remembers
<1>10. ASSUME RecordHit(p) PROVE Remembers(p) /\ Answers(p)
  <2>1. proc[p].stat.mtime <= meta.at \/ proc[p].stat.version = 0
    BY <1>10, Numbers DEF RecordHit, SameFingerprint, MetaInv, ProcInv, WasSeen
  <2> QED
    BY <1>10, <2>1 DEF RecordHit, Answer, Remembers
<1>11. ASSUME RecordMiss(p) PROVE Remembers(p) /\ Answers(p)
  BY <1>11 DEF RecordMiss, Answer, Remembers, AnswerInv
<1> QED
  BY <1>3, <1>4, <1>5, <1>6, <1>7, <1>8, <1>9, <1>10, <1>11

\* What a process that compiles, or is stopped in it, writes.
LEMMA WriteStep ==
  ASSUME IInv, TypeOK', NEW p \in Procs,
         \/ Open(p) \/ WriteSome(p) \/ WriteRest(p) \/ OpenMeta(p) \/ WriteMeta(p)
         \/ Fail(p) \/ LoseAtClose(p) \/ Kill(p)
  PROVE  IInv'
<1> USE DEF IInv
<1>1. /\ UNCHANGED <<policy, now, src>>
      /\ \A q \in Procs \ {p} : proc'[q] = proc[q]
      /\ proc'[p].at \in {"write", "finish", "fingerprint", "writeMeta", "built", "failed",
                          "killed"}
      /\ \A q \in Procs : /\ proc'[q].stat = proc[q].stat /\ proc'[q].got = proc[q].got
                          /\ proc'[q].version = proc[q].version
                          /\ proc'[q].readAt = proc[q].readAt
  BY DEF TypeOK, Invocations, Open, WriteSome, WriteRest, OpenMeta, WriteMeta, Fail,
         LoseAtClose, Kill, Goto
<1>2. \/ UNCHANGED <<out, meta>>
      \/ /\ out'.version = proc[p].version /\ out'.readAt = proc[p].readAt
         /\ out'.mtime = now
         /\ meta' = meta
      \/ /\ out'.version = out.version /\ out'.readAt = out.readAt
         /\ out'.mtime = out.mtime
         /\ meta' = [meta EXCEPT !.format = "torn"] \/ meta' = RecordOf(p)
  BY DEF TypeOK, Outputs, Open, WriteSome, WriteRest, OpenMeta, WriteMeta, Fail,
         LoseAtClose, Kill, Written
<1>3. SourceInv' /\ OutputInv'
  BY <1>1, <1>2, Numbers DEF SourceInv, OutputInv, ProcInv, WasRead, Agree
<1>4. ProcInv'
  BY <1>1 DEF ProcInv, WasSeen, WasRead, Agree
<1>5. AgreeInv'
  BY <1>1, <1>2 DEF AgreeInv, Agree
<1>6. MetaInv'
  BY <1>1, <1>2, Numbers DEF MetaInv, RecordOf, TypeOK, Metas, SourceInv, ProcInv, WasSeen
<1>7. AnswerInv' /\ MissOnlyWhenNeeded'
  <2>1. ASSUME NEW q \in Procs PROVE proc[q].stat.mtime <= now
    BY Numbers DEF ProcInv, SourceInv, WasSeen
  <2>2. meta'.at = meta.at \/ meta'.at = now
    BY <1>2 DEF RecordOf, TypeOK, Metas
  <2> QED
    BY <1>1, <2>1, <2>2 DEF AnswerInv, MissOnlyWhenNeeded, NonEmpty
<1> QED
  BY <1>3, <1>4, <1>5, <1>6, <1>7

LEMMA InvStep == IInv /\ [Next]_vars => IInv'
<1> SUFFICES ASSUME IInv, [Next]_vars PROVE IInv'
  OBVIOUS
<1>1. TypeOK'
  BY TypeStep DEF IInv
<1>2. CASE UNCHANGED vars
  BY <1>2 DEF vars, IInv, TypeOK, SourceInv, OutputInv, ProcInv, AgreeInv, AnswerInv,
              MissOnlyWhenNeeded, MetaInv, WasSeen, WasRead, Agree, NonEmpty
<1> QED
  BY <1>1, <1>2, WorldStep, LookStep, WriteStep DEF Next, Compile

THEOREM InvAlways == Spec => []IInv
<1> QED
  BY InvInit, InvStep, PTL DEF Spec

\* A save is missed by a hit only when it fell between the reading of the
\* source for the output and the end of the clock's unit the output, or the
\* record, was written in: the promise of all three caches.
THEOREM StaleHitsAreInWindow == Spec => []StaleOnlyInWindow
<1>1. IInv => StaleOnlyInWindow
  <2> SUFFICES ASSUME IInv, NEW p \in Procs,
                      proc[p].got.part = "full", proc[p].got.version < proc[p].stat.version
               PROVE  /\ proc[p].at = "fresh" =>
                           /\ proc[p].got.readAt <= proc[p].stat.mtime
                           /\ IF policy = Launcher
                                THEN Second(proc[p].stat.mtime) <= Second(proc[p].got.mtime)
                                ELSE proc[p].stat.mtime <= proc[p].got.mtime
                      /\ proc[p].at = "same" => /\ proc[p].got.readAt <= proc[p].stat.mtime
                                                /\ proc[p].stat.mtime <= meta.at
    BY DEF StaleOnlyInWindow
  <2>1. proc[p].got.readAt <= proc[p].stat.mtime
    BY DEF IInv, AgreeInv, Agree
  <2>2. proc[p].stat.version # 0
    BY Numbers DEF IInv
  <2> QED
    BY <2>1, <2>2 DEF IInv, AnswerInv
<1> QED
  BY <1>1, InvAlways, PTL

\* The launcher starts the compiler only when the output it saw is empty or
\* older than the source it saw.
THEOREM MissesAreNeeded == Spec => []MissOnlyWhenNeeded
<1>1. IInv => MissOnlyWhenNeeded
  BY DEF IInv
<1> QED
  BY <1>1, InvAlways, PTL

------------------------------------------------------------------------------
\* Outputs that are cut short

\* Whoever cut the output is there, or was stopped.
CutInv == out.part = "partial" => faults > 0 \/ \E q \in Procs : proc[q].at = "finish"

LEMMA CutStep == TypeOK /\ CutInv /\ [Next]_vars => CutInv'
<1> SUFFICES ASSUME TypeOK, CutInv, [Next]_vars PROVE CutInv'
  OBVIOUS
<1> USE BoundsAssumption DEF TypeOK, CutInv
<1>1. ASSUME NEW p \in Procs, Fail(p) \/ LoseAtClose(p) \/ Kill(p) PROVE CutInv'
  BY <1>1 DEF Fail, LoseAtClose, Kill
<1>2. ASSUME NEW p \in Procs, WriteSome(p) PROVE CutInv'
  BY <1>2 DEF WriteSome, Goto, Invocations
<1>3. ASSUME NEW p \in Procs, Open(p) \/ WriteRest(p) PROVE CutInv'
  BY <1>3 DEF Open, WriteRest, Written
<1>4. ASSUME NEW p \in Procs, proc[p].at # "finish", out'.part = out.part,
             faults' = faults, \A q \in Procs \ {p} : proc'[q] = proc[q]
      PROVE  CutInv'
  BY <1>4
<1>5. ASSUME NEW p \in Procs, OpenMeta(p) \/ WriteMeta(p) PROVE CutInv'
  <2>1. /\ proc[p].at # "finish" /\ out'.part = out.part /\ faults' = faults
        /\ \A q \in Procs \ {p} : proc'[q] = proc[q]
    BY <1>5 DEF OpenMeta, WriteMeta, Goto, Outputs
  <2> QED
    BY <2>1, <1>4
<1>6. ASSUME NEW p \in Procs,
             \/ \E mode \in Modes : Invoke(p, mode)
             \/ StatSource(p) \/ Fingerprint(p) \/ Read(p) \/ Exit(p)
             \/ FreshHit(p) \/ FreshMiss(p) \/ RecordHit(p) \/ RecordMiss(p)
      PROVE  CutInv'
  <2>1. /\ proc[p].at # "finish" /\ out'.part = out.part /\ faults' = faults
        /\ \A q \in Procs \ {p} : proc'[q] = proc[q]
    BY <1>6 DEF Invoke, StatSource, Fingerprint, Read, Exit, FreshHit, FreshMiss,
                RecordHit, RecordMiss, Answer
  <2> QED
    BY <2>1, <1>4
<1>7. CASE Tick \/ (\E size \in Sizes : Save(size)) \/ UNCHANGED vars
  BY <1>7 DEF Tick, Save, vars
<1> QED
  BY <1>1, <1>2, <1>3, <1>5, <1>6, <1>7 DEF Next, Compile

\* An unfinished output is handed out only when a failure or a kill left it, or
\* while it is being written; an empty one never is.
THEOREM TornHitsAlwaysHaveACause == Spec => TornHitsHaveACause
<1>1. Init => CutInv
  BY DEF Init, CutInv
<1>2. CutInv /\ [Next]_vars =>
        [\A p \in Procs :
           (FreshHit(p) \/ RecordHit(p)) /\ out.part # "full"
             => /\ out.part = "partial"
                /\ faults > 0 \/ \E q \in Procs : proc[q].at = "finish"]_vars
  BY DEF CutInv, FreshHit, RecordHit, Fresh, FreshSeconds, FreshNanoseconds, NonEmpty
<1> QED
  BY <1>1, <1>2, TypeInit, TypeStep, CutStep, PTL DEF Spec, TornHitsHaveACause
------------------------------------------------------------------------------
\* Records and modes

\* A launcher looks at no record and takes none.
NoRecords ==
  \A p \in Procs : proc[p].at \notin {"statAgain", "readMeta", "same", "fingerprint",
                                      "openMeta", "writeMeta"}

OneAtATime == \A p, q \in Procs : p # q => proc[p].at = "idle" \/ proc[q].at = "idle"

\* The record beside an output that came to be recorded names its mode; an
\* output that is being written, or whose record is, is not recorded yet.
RecordsTellMode ==
  /\ out.recorded => meta.mode = out.mode
  /\ \A p \in Procs :
       proc[p].at \in {"write", "finish", "fingerprint", "openMeta", "writeMeta"}
         => ~out.recorded /\ out.mode = proc[p].mode

ModeInv ==
  /\ policy = Launcher => NoRecords
  /\ policy # Launcher => OneAtATime /\ RecordsTellMode
  /\ RecordedHitsHaveMode

LEMMA ModeInit == Init => ModeInv
  BY IdleFields DEF Init, ModeInv, NoRecords, OneAtATime, RecordsTellMode,
                    RecordedHitsHaveMode

\* The steps that write neither the output nor the record.
LEMMA ModeLookStep ==
  ASSUME TypeOK, ModeInv, NEW p \in Procs,
         \/ \E mode \in Modes : Invoke(p, mode)
         \/ StatSource(p) \/ Fingerprint(p) \/ Read(p) \/ Exit(p)
         \/ FreshHit(p) \/ FreshMiss(p) \/ RecordHit(p) \/ RecordMiss(p)
         \/ Fail(p) \/ LoseAtClose(p) \/ Kill(p)
  PROVE  ModeInv'
<1> USE DEF ModeInv
<1> DEFINE Records == {"statAgain", "readMeta", "same", "fingerprint", "openMeta", "writeMeta"}
           Writing == {"write", "finish", "fingerprint", "openMeta", "writeMeta"}
           Moves ==
             /\ UNCHANGED <<policy, out, meta>>
             /\ \A q \in Procs \ {p} : proc'[q] = proc[q]
             /\ policy = Launcher => proc'[p].at \notin Records
             /\ policy # Launcher /\ proc[p].at = "idle" => \A q \in Procs : proc[q].at = "idle"
             /\ proc'[p].at \in Writing => proc[p].at \in Writing /\ proc'[p].mode = proc[p].mode
             /\ proc'[p].at = "same" /\ proc'[p].got.recorded =>
                  proc'[p].got.mode = proc'[p].mode
<1>1. SUFFICES Moves
  <2>1. policy = Launcher => NoRecords'
    BY <1>1 DEF NoRecords
  <2>2. policy # Launcher => OneAtATime'
    BY <1>1 DEF OneAtATime
  <2>3. policy # Launcher => RecordsTellMode'
    BY <1>1 DEF RecordsTellMode
  <2>4. RecordedHitsHaveMode'
    BY <1>1 DEF RecordedHitsHaveMode
  <2> QED
    BY <1>1, <2>1, <2>2, <2>3, <2>4
<1> USE DEF TypeOK, Invocations
<1>2. ASSUME NEW mode \in Modes, Invoke(p, mode) PROVE Moves
  <2>1. FirstPlace \in {"statSource", "statAgain", "read"}
    <3>1. policy \in {Launcher, Fast, Strict, Off}
      BY PoliciesAssumption DEF Launcher, Fast, Strict, Off
    <3>2. Strict \notin {Launcher, Fast} /\ Off \notin {Launcher, Fast, Strict}
      BY DEF Launcher, Fast, Strict, Off
    <3> QED
      BY <3>1, <3>2 DEF FirstPlace
  <2>2. policy = Launcher => FirstPlace = "statSource"
    <3>1. Launcher \in {Launcher, Fast} /\ Launcher # Strict /\ Launcher # Off
      BY DEF Launcher, Strict, Off
    <3> QED
      BY <3>1 DEF FirstPlace
  <2>3. /\ proc'[p].at = FirstPlace /\ \A q \in Procs \ {p} : proc'[q] = proc[q]
        /\ UNCHANGED <<policy, out, meta>>
        /\ policy = Launcher \/ \A q \in Procs : proc[q].at = "idle"
    BY <1>2 DEF Invoke
  <2> QED
    BY <2>1, <2>2, <2>3
<1>3. ASSUME StatSource(p) \/ Fingerprint(p) PROVE Moves
  BY <1>3 DEF StatSource, Fingerprint, NoRecords
<1>4. ASSUME Read(p) \/ Exit(p) PROVE Moves
  <2>1. CASE Read(p)
    <3>1. proc'[p].at = "open" /\ proc[p].at = "read"
      BY <2>1 DEF Read, Idle
    <3> QED
      BY <2>1, <3>1 DEF Read
  <2>2. CASE Exit(p)
    BY <2>2, IdleFields DEF Exit
  <2> QED
    BY <1>4, <2>1, <2>2
<1>5. ASSUME FreshHit(p) \/ FreshMiss(p) \/ RecordMiss(p) PROVE Moves
  BY <1>5 DEF FreshHit, FreshMiss, RecordMiss, Answer
<1>6. ASSUME RecordHit(p) PROVE Moves
  <2>1. policy # Launcher /\ (out.recorded => out.mode = proc[p].mode)
    BY <1>6 DEF RecordHit, SameFingerprint, NoRecords, RecordsTellMode
  <2> QED
    BY <1>6, <2>1 DEF RecordHit, Answer
<1>7. ASSUME Fail(p) \/ LoseAtClose(p) \/ Kill(p) PROVE Moves
  BY <1>7 DEF Fail, LoseAtClose, Kill, Goto, Launcher, Fast, Strict, NoRecords
<1> QED
  BY <1>2, <1>3, <1>4, <1>5, <1>6, <1>7

\* The steps that write them.
LEMMA ModeWriteStep ==
  ASSUME TypeOK, ModeInv, NEW p \in Procs,
         Open(p) \/ WriteSome(p) \/ WriteRest(p) \/ OpenMeta(p) \/ WriteMeta(p)
  PROVE  ModeInv'
<1> USE DEF ModeInv
<1>1. /\ policy' = policy
      /\ \A q \in Procs \ {p} : proc'[q] = proc[q]
      /\ proc[p].at # "idle" /\ proc'[p].at # "same"
      /\ proc'[p].mode = proc[p].mode
      /\ policy = Launcher /\ proc[p].at \notin {"openMeta", "writeMeta"} =>
           proc'[p].at \notin {"fingerprint", "writeMeta", "statAgain", "readMeta", "openMeta"}
  BY DEF TypeOK, Invocations, Open, WriteSome, WriteRest, OpenMeta, WriteMeta, Goto,
         Launcher, Fast, Strict
<1>2. policy = Launcher => NoRecords'
  BY <1>1 DEF NoRecords, OpenMeta, WriteMeta
<1>3. policy # Launcher => OneAtATime'
  BY <1>1 DEF OneAtATime
<1>4. ASSUME policy # Launcher PROVE RecordsTellMode'
  <2>1. \A q \in Procs \ {p} : proc'[q].at = "idle"
    BY <1>1, <1>4 DEF OneAtATime
  <2>2. CASE Open(p) \/ WriteSome(p) \/ WriteRest(p)
    <3>1. PICK part : out' = Written(p, part)
      BY <2>2 DEF Open, WriteSome, WriteRest
    <3>2. Written(p, part).mode = proc[p].mode
      BY DEF Written
    <3>3. Written(p, part).recorded = (policy = Launcher)
      BY Zenon DEF Written
    <3>4. out'.mode = proc[p].mode /\ ~out'.recorded
      BY <3>1, <3>2, <3>3, <1>4
    <3> QED
      BY <3>4, <2>1, <1>1 DEF RecordsTellMode
  <2>3. CASE OpenMeta(p)
    <3>1. out' = out /\ meta'.mode = meta.mode
      BY <2>3 DEF OpenMeta, TypeOK, Metas
    <3>2. ~out.recorded /\ out.mode = proc[p].mode
      BY <2>3, <1>4 DEF OpenMeta, RecordsTellMode
    <3> QED
      BY <3>1, <3>2, <2>1, <1>1 DEF RecordsTellMode
  <2>4. CASE WriteMeta(p)
    <3>1. out'.mode = out.mode /\ meta'.mode = proc[p].mode /\ out.mode = proc[p].mode
      BY <2>4, <1>4 DEF WriteMeta, RecordOf, RecordsTellMode, TypeOK, Outputs
    <3>2. proc'[p].at = "built"
      BY <2>4 DEF WriteMeta, Goto, TypeOK, Invocations
    <3> QED
      BY <3>1, <3>2, <2>1 DEF RecordsTellMode
  <2> QED
    BY <2>2, <2>3, <2>4
<1>5. RecordedHitsHaveMode'
  BY <1>1 DEF RecordedHitsHaveMode
<1> QED
  BY <1>1, <1>2, <1>3, <1>4, <1>5

LEMMA ModeStep == TypeOK /\ ModeInv /\ [Next]_vars => ModeInv'
<1> SUFFICES ASSUME TypeOK, ModeInv, [Next]_vars PROVE ModeInv'
  OBVIOUS
<1>1. CASE Tick \/ (\E size \in Sizes : Save(size)) \/ UNCHANGED vars
  <2>1. UNCHANGED <<policy, out, meta, proc>>
    BY <1>1 DEF Tick, Save, vars
  <2> QED
    BY <2>1 DEF ModeInv, NoRecords, OneAtATime, RecordsTellMode, RecordedHitsHaveMode
<1> QED
  BY <1>1, ModeLookStep, ModeWriteStep DEF Next, Compile

\* A hit of the recorded fingerprint on an output whose compilation got to
\* recording it is an output of the mode that was asked for.
THEOREM RecordedHitsAlwaysHaveMode == Spec => []RecordedHitsHaveMode
<1>1. ModeInv => RecordedHitsHaveMode
  BY DEF ModeInv
<1> QED
  BY <1>1, TypeInit, TypeStep, ModeInit, ModeStep, PTL DEF Spec
=============================================================================
