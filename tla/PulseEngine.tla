----------------------------- MODULE PulseEngine ------------------------------
(***************************************************************************)
(* src/include/nan_pulse.h: the AsyncPulseEmitter, whose emit producers    *)
(* call at the same time as another thread flushes it, and the             *)
(* PulseFlowAnalyzer, which is given a trace in pieces.  The two are used  *)
(* side by side by src/src/pulse_emitter.cpp and share nothing.            *)
(***************************************************************************)
EXTENDS Integers, Sequences, FiniteSets

CONSTANTS
  Producers,  \* threads that call emit
  Cells,      \* sizeof(cache_buf), 1024 in the code
  MaxEmits,   \* bound on the emits
  MaxFlushes, \* bound on the flushes
  Bytes,      \* signals
  Lanes,      \* how many samples are counted at once: 32 with AVX2, 1 without
  MaxTrace    \* bound on the samples of a trace

ASSUME SizeAssumption ==
  Cells \in Nat \ {0} /\ Lanes \in Nat \ {0} /\ Bytes \subseteq 0 .. 255 /\ MaxTrace \in Nat

VARIABLES
  writePos,   \* write_pos
  cacheBuf,   \* the number of the emit whose signal is in a cell, 0 for none
  claimed,    \* what a producer has claimed: [emit, cell], emit 0 when it has none
  clearing,   \* the cells that the flush under way has still to clear
  flushing,   \* a flush is under way
  emits, flushes,  \* how many have begun
  disturbed,  \* an emit and a flush, or emits a turn of the ring apart, overlapped
  trace,      \* all samples since the last reset
  counts,     \* samples, high_count and uncertain_count; low_count is LowCount
  flow        \* prev, the current and the longest streaks, and the edges

emitterVars  == <<writePos, cacheBuf, claimed, clearing, flushing, emits, flushes, disturbed>>
analyzerVars == <<trace, counts, flow>>
vars         == <<emitterVars, analyzerVars>>

Nothing == [emit |-> 0, cell |-> 0]

------------------------------------------------------------------------------
\* AsyncPulseEmitter

\* Mutant of CellAt: the last cell of the ring is never used.
CellAtShort(pos) == pos % (Cells - 1)

CellAt(pos) == pos % Cells

\* fetch_add gives each emit a position of its own; the signal follows.
Claim(p) ==
  /\ claimed[p] = Nothing /\ emits < MaxEmits
  /\ claimed' = [claimed EXCEPT ![p] = [emit |-> emits + 1, cell |-> CellAt(writePos)]]
  /\ writePos' = writePos + 1
  /\ emits' = emits + 1
  /\ disturbed' = (disturbed \/ flushing)
  /\ UNCHANGED <<cacheBuf, clearing, flushing, flushes>>

Store(p) ==
  /\ claimed[p] # Nothing
  /\ cacheBuf' = [cacheBuf EXCEPT ![claimed[p].cell] = claimed[p].emit]
  /\ claimed' = [claimed EXCEPT ![p] = Nothing]
  /\ disturbed' = (disturbed \/ emits >= claimed[p].emit + Cells)
  /\ UNCHANGED <<writePos, clearing, flushing, emits, flushes>>

\* The position is reset first, then memset clears the cells, in any order.
FlushPosition ==
  /\ ~flushing /\ flushes < MaxFlushes
  /\ writePos' = 0
  /\ flushing' = TRUE /\ clearing' = DOMAIN cacheBuf
  /\ flushes' = flushes + 1
  /\ disturbed' = (disturbed \/ \E p \in Producers : claimed[p] # Nothing)
  /\ UNCHANGED <<cacheBuf, claimed, emits>>

FlushCell(c) ==
  /\ flushing /\ c \in clearing
  /\ cacheBuf' = [cacheBuf EXCEPT ![c] = 0]
  /\ clearing' = clearing \ {c}
  /\ flushing' = (clearing # {c})
  /\ UNCHANGED <<writePos, claimed, emits, flushes, disturbed>>

------------------------------------------------------------------------------
\* PulseFlowAnalyzer

Classify(byte) ==
  IF byte = 255 THEN "uncertain" ELSE IF byte % 2 = 1 THEN "high" ELSE "low"

HowMany(data, level) == Cardinality({i \in DOMAIN data : Classify(data[i]) = level})
OddIn(block) == Cardinality({i \in DOMAIN block : block[i] % 2 = 1})

\* The vector counts: an uncertain sample is not high too.
HighInBlock(block) ==
  LET high == OddIn(block) - HowMany(block, "uncertain")
  IN IF high > 0 THEN high ELSE 0

\* Whole blocks are counted at once, what remains one by one.
HighIn(data) ==
  LET blocks == Len(data) \div Lanes
      block(k) == SubSeq(data, (k - 1) * Lanes + 1, k * Lanes)
      rest == SubSeq(data, blocks * Lanes + 1, Len(data))
      high[k \in 0 .. blocks] == IF k = 0 THEN 0 ELSE high[k - 1] + HighInBlock(block(k))
  IN high[blocks] + HowMany(rest, "high")

CountLevels(data) ==
  [samples   |-> counts.samples + Len(data),
   high      |-> counts.high + HighIn(data),
   uncertain |-> counts.uncertain + HowMany(data, "uncertain")]

LowCount == counts.samples - counts.high - counts.uncertain

NoFlow == [prev |-> "none", high |-> 0, low |-> 0, longestHigh |-> 0, longestLow |-> 0,
           rising |-> 0, falling |-> 0]

Larger(a, b) == IF a > b THEN a ELSE b

\* One sample; toggles is the sum of the two kinds of edges.
Sample(f, byte) ==
  LET level == Classify(byte)
      high == IF level = "high" THEN f.high + 1 ELSE 0
      low  == IF level = "low" THEN f.low + 1 ELSE 0
      edge(from, to) == IF f.prev = from /\ level = to THEN 1 ELSE 0
  IN [prev |-> level, high |-> high, low |-> low,
      longestHigh |-> Larger(f.longestHigh, high),
      longestLow  |-> Larger(f.longestLow, low),
      rising      |-> f.rising + edge("low", "high"),
      falling     |-> f.falling + edge("high", "low")]

\* Mutant of CountTransitions: each piece begins without a sample before it.
CountTransitionsAfresh(data) ==
  LET after[i \in 0 .. Len(data)] ==
        IF i = 0 THEN [flow EXCEPT !.prev = "none", !.high = 0, !.low = 0]
                 ELSE Sample(after[i - 1], data[i])
  IN after[Len(data)]

CountTransitions(data) ==
  LET after[i \in 0 .. Len(data)] == IF i = 0 THEN flow ELSE Sample(after[i - 1], data[i])
  IN after[Len(data)]

\* An empty piece leaves everything alone, as the loops over it do.
Ingest(data) ==
  /\ Len(trace) + Len(data) <= MaxTrace
  /\ trace' = trace \o data
  /\ counts' = CountLevels(data)
  /\ flow' = CountTransitions(data)

ResetAnalyzer ==
  /\ trace' = <<>>
  /\ counts' = [samples |-> 0, high |-> 0, uncertain |-> 0]
  /\ flow' = NoFlow

------------------------------------------------------------------------------
Init ==
  /\ writePos = 0
  /\ cacheBuf = [c \in 0 .. Cells - 1 |-> 0]
  /\ claimed = [p \in Producers |-> Nothing]
  /\ clearing = {} /\ flushing = FALSE
  /\ emits = 0 /\ flushes = 0 /\ disturbed = FALSE
  /\ trace = <<>>
  /\ counts = [samples |-> 0, high |-> 0, uncertain |-> 0]
  /\ flow = NoFlow

Pieces == UNION {[1 .. n -> Bytes] : n \in 1 .. MaxTrace}

EmitterNext ==
  \/ \E p \in Producers : Claim(p) \/ Store(p)
  \/ FlushPosition
  \/ \E c \in 0 .. Cells - 1 : FlushCell(c)

AnalyzerNext == ResetAnalyzer \/ \E data \in Pieces : Ingest(data)

Next ==
  \/ EmitterNext /\ UNCHANGED analyzerVars
  \/ AnalyzerNext /\ UNCHANGED emitterVars

Spec == Init /\ [][Next]_vars

------------------------------------------------------------------------------
\* Properties

\* Between calls the buffer holds the last signals since the last flush, as many
\* as pos() says up to a turn of the ring, each in its cell, and nothing else:
\* provided that no emit was overtaken by a turn and none overlapped a flush.
HoldsTheLastSignals ==
  ~disturbed /\ ~flushing /\ (\A p \in Producers : claimed[p] = Nothing) =>
    \A c \in 0 .. Cells - 1 :
      LET laps == {k \in 0 .. writePos - 1 : k % Cells = c}
      IN cacheBuf[c] = IF laps = {} THEN 0
                       ELSE emits - writePos + 1 + CHOOSE k \in laps : \A l \in laps : l <= k

\* The runs of samples of one level in the trace.
Streaks(level) ==
  LET isRun(b, e) == b <= e /\ \A i \in b .. e : Classify(trace[i]) = level
  IN {n \in DOMAIN trace : \E b \in DOMAIN trace : b + n - 1 \in DOMAIN trace /\ isRun(b, b + n - 1)}

Longest(level) ==
  IF Streaks(level) = {} THEN 0 ELSE CHOOSE n \in Streaks(level) : \A m \in Streaks(level) : m <= n

Edges(from, to) ==
  Cardinality({i \in DOMAIN trace : /\ i > 1 /\ Classify(trace[i - 1]) = from
                                    /\ Classify(trace[i]) = to})

\* The statistics are those of the whole trace, however it was cut in pieces and
\* whether or not samples are counted in blocks.
StatsAreOfTheWholeTrace ==
  /\ counts.samples = Len(trace)
  /\ \A l \in {<<"high", counts.high>>, <<"uncertain", counts.uncertain>>, <<"low", LowCount>>} :
       l[2] = Cardinality({i \in DOMAIN trace : Classify(trace[i]) = l[1]})
  /\ flow.longestHigh = Longest("high") /\ flow.longestLow = Longest("low")
  /\ flow.rising = Edges("low", "high") /\ flow.falling = Edges("high", "low")
===============================================================================
