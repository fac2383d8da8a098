--------------------------- MODULE PulseEngineProofs ---------------------------
(***************************************************************************)
(* Proofs about PulseEngine, for any number of producers and cells and     *)
(* any cut of a trace in pieces: the ring holds the last signals           *)
(* (RingInv), and the statistics are those of the whole trace (FlowInv).   *)
(***************************************************************************)
EXTENDS PulseEngine, FiniteSetTheorems, SequenceTheorems, TLAPS

------------------------------------------------------------------------------
\* The ring

\* The positions of a cell since the last flush, and the number of the emit
\* that was given a position.
Laps(c) == {k \in 0 .. writePos - 1 : k % Cells = c}
EmitAt(k) == emits - writePos + 1 + k

\* The cell holds the signal of the emit at position k, or that emit is under
\* way and will put it there.
Holds(c, k) ==
  \/ cacheBuf[c] = EmitAt(k)
  \/ \E p \in Producers : claimed[p] = [emit |-> EmitAt(k), cell |-> c]

CellInv(c) ==
  \/ Laps(c) = {} /\ cacheBuf[c] = 0
  \/ \E k \in Laps(c) : (\A l \in Laps(c) : l <= k) /\ Holds(c, k)

\* An emit under way was given a position after the last flush.
ClaimInv(p) ==
  claimed[p] # Nothing =>
    /\ claimed[p].emit > emits - writePos /\ claimed[p].emit <= emits
    /\ claimed[p].cell = (claimed[p].emit - (emits - writePos) - 1) % Cells

RingTypes ==
  /\ cacheBuf \in [0 .. Cells - 1 -> Nat]
  /\ claimed \in [Producers -> [emit : Nat, cell : 0 .. Cells - 1]]
  /\ writePos \in Nat /\ emits \in Nat /\ writePos <= emits
  /\ clearing \subseteq 0 .. Cells - 1
  /\ flushing \in BOOLEAN /\ disturbed \in BOOLEAN

FlushInv ==
  flushing =>
    /\ writePos = 0
    /\ \A p \in Producers : claimed[p] = Nothing
    /\ \A c \in (0 .. Cells - 1) \ clearing : cacheBuf[c] = 0

QuietInv ==
  /\ FlushInv
  /\ ~flushing => \A c \in 0 .. Cells - 1 : CellInv(c)
  /\ \A p \in Producers : ClaimInv(p)

RingInv == RingTypes /\ (~disturbed => QuietInv)

LEMMA CellType == ASSUME NEW n \in Nat PROVE n % Cells \in 0 .. Cells - 1
BY SizeAssumption

LEMMA RingInit == Init => RingInv
<1> SUFFICES ASSUME Init PROVE RingInv OBVIOUS
<1>1. 0 \in 0 .. Cells - 1 BY SizeAssumption
<1>2. RingTypes
  <2>1. Nothing \in [emit : Nat, cell : 0 .. Cells - 1] BY <1>1 DEF Nothing
  <2>2. claimed \in [Producers -> [emit : Nat, cell : 0 .. Cells - 1]] BY <2>1 DEF Init
  <2>3. cacheBuf \in [0 .. Cells - 1 -> Nat] BY DEF Init
  <2>4. writePos = 0 /\ emits = 0 /\ clearing = {} /\ flushing = FALSE /\ disturbed = FALSE
    BY DEF Init
  <2>5. flushing \in BOOLEAN /\ disturbed \in BOOLEAN BY <2>4
  <2>6. writePos \in Nat /\ emits \in Nat /\ writePos <= emits BY <2>4
  <2>7. clearing \subseteq 0 .. Cells - 1 BY <2>4
  <2> QED BY <2>2, <2>3, <2>5, <2>6, <2>7 DEF RingTypes
<1>3. \A c \in 0 .. Cells - 1 : Laps(c) = {} /\ cacheBuf[c] = 0 BY DEF Init, Laps
<1>4. FlushInv BY DEF Init, FlushInv
<1>5. \A p \in Producers : claimed[p] = Nothing BY DEF Init
<1> QED BY <1>2, <1>3, <1>4, <1>5 DEF RingInv, QuietInv, CellInv, ClaimInv

LEMMA ClaimStep == ASSUME RingInv, NEW q \in Producers, Claim(q) PROVE RingInv'
<1> DEFINE e == emits + 1
           c == CellAt(writePos)
           w == writePos
<1>1. /\ claimed[q] = Nothing
      /\ claimed' = [claimed EXCEPT ![q] = [emit |-> e, cell |-> c]]
      /\ writePos' = w + 1 /\ emits' = e
      /\ disturbed' = (disturbed \/ flushing)
      /\ UNCHANGED <<cacheBuf, clearing, flushing>>
  BY DEF Claim
<1>2. RingTypes BY DEF RingInv
<1>3. w \in Nat /\ c \in 0 .. Cells - 1 /\ c = w % Cells BY <1>2, CellType DEF CellAt, RingTypes
<1>4. e \in Nat /\ e - (w + 1) = emits - w BY <1>2 DEF RingTypes
<1> HIDE DEF c
<1>5. RingTypes' BY <1>1, <1>2, <1>3, <1>4 DEF RingTypes
<1> SUFFICES ASSUME ~disturbed' PROVE QuietInv' BY <1>5 DEF RingInv
<1>6. ~disturbed /\ ~flushing BY <1>1
<1>7. QuietInv BY <1>6 DEF RingInv
<1>8. FlushInv' BY <1>1, <1>6 DEF FlushInv
<1>9. \A k \in Int : EmitAt(k)' = EmitAt(k) BY <1>1, <1>2 DEF EmitAt, RingTypes
<1>10. EmitAt(w) = e BY <1>2 DEF EmitAt, RingTypes
<1>11. claimed'[q] = [emit |-> e, cell |-> c] /\ \A p \in Producers : p # q => claimed'[p] = claimed[p]
  BY <1>1, <1>2 DEF RingTypes
<1>12. ASSUME NEW d \in 0 .. Cells - 1 PROVE CellInv(d)'
  <2>1. Laps(d)' = IF d = c THEN Laps(d) \cup {w} ELSE Laps(d)
    BY <1>1, <1>3 DEF Laps
  <2>2. \A l \in Laps(d) : l \in Nat /\ l <= w BY <1>3 DEF Laps
  <2>3. CASE d = c
    <3>1. PICK n \in Nat : n = w BY <1>3
    <3>2. EmitAt(n)' = e /\ EmitAt(n)' \in Nat BY <1>4, <1>9, <1>10, <3>1
    <3>3. Holds(d, n)' BY <1>11, <2>3, <3>2 DEF Holds
    <3>4. n \in Laps(d)' /\ \A l \in Laps(d)' : l <= n BY <2>1, <2>2, <2>3, <3>1
    <3> QED BY <3>3, <3>4 DEF CellInv
  <2>4. CASE d # c
    <3>1. CellInv(d) BY <1>6, <1>7 DEF QuietInv
    <3>2. Laps(d)' = Laps(d) /\ cacheBuf'[d] = cacheBuf[d] BY <1>1, <2>1, <2>4
    <3>3. ASSUME NEW k \in Laps(d), Holds(d, k) PROVE Holds(d, k)'
      <4>1. EmitAt(k)' = EmitAt(k) BY <1>9, <2>2
      <4>2. ASSUME NEW p \in Producers, claimed[p] = [emit |-> EmitAt(k), cell |-> d]
            PROVE  claimed'[p] = [emit |-> EmitAt(k), cell |-> d]
        <5>1. claimed[p].emit = EmitAt(k) /\ EmitAt(k) \in Nat /\ EmitAt(k) # 0
          <6>1. claimed[p].emit = EmitAt(k) BY <4>2
          <6>2. EmitAt(k) > 0 BY <1>2, <2>2 DEF EmitAt, RingTypes
          <6> QED BY <1>2, <6>1, <6>2 DEF RingTypes
        <5>2. claimed[p] # Nothing BY <5>1 DEF Nothing
        <5> QED BY <1>1, <1>11, <4>2, <5>2
      <4> QED BY <3>2, <3>3, <4>1, <4>2 DEF Holds
    <3> QED BY <3>1, <3>2, <3>3 DEF CellInv
  <2> QED BY <2>3, <2>4
<1>13. ASSUME NEW p \in Producers PROVE ClaimInv(p)'
  <2>1. CASE p = q
    <3>1. claimed'[p].emit = e /\ claimed'[p].cell = c BY <1>11, <2>1
    <3>2. e - (emits' - writePos') - 1 = w BY <1>1, <1>2 DEF RingTypes
    <3>3. e > emits' - writePos' /\ e <= emits' BY <1>1, <1>2 DEF RingTypes
    <3> QED BY <1>3, <3>1, <3>2, <3>3 DEF ClaimInv
  <2>2. CASE p # q
    <3>1. claimed'[p] = claimed[p] /\ emits' - writePos' = emits - writePos /\ emits <= emits'
      BY <1>1, <1>2, <1>11, <2>2 DEF RingTypes
    <3>2. claimed[p].emit \in Nat BY <1>2 DEF RingTypes
    <3>3. ClaimInv(p) BY <1>7 DEF QuietInv
    <3> QED BY <1>1, <1>2, <3>1, <3>2, <3>3 DEF ClaimInv, RingTypes
  <2> QED BY <2>1, <2>2
<1> QED BY <1>1, <1>6, <1>8, <1>12, <1>13 DEF QuietInv
\* Two positions of the same cell are a turn of the ring apart.
LEMMA TurnApart ==
  ASSUME NEW k \in Nat, NEW l \in Nat, k < l, k % Cells = l % Cells
  PROVE  k + Cells <= l
<1>1. Cells \in Nat \ {0} BY SizeAssumption
<1>2. PICK a \in Nat, b \in Nat, r \in Nat :
        a = k \div Cells /\ b = l \div Cells /\ r = k % Cells /\ k = a * Cells + r /\ l = b * Cells + r
  BY <1>1
<1>3. a * Cells \in Nat /\ b * Cells \in Nat BY <1>1
<1>4. a * Cells < b * Cells BY <1>2, <1>3
<1>5. a < b
  <2>1. ASSUME b <= a PROVE FALSE
    <3>1. PICK d \in Nat : a = b + d BY <2>1
    <3>2. a * Cells = b * Cells + d * Cells /\ d * Cells \in Nat BY <1>1, <3>1
    <3> QED BY <1>3, <1>4, <3>2
  <2> QED BY <2>1
<1>6. b * Cells >= a * Cells + Cells
  <2>1. PICK d \in Nat : b = a + 1 + d BY <1>5
  <2>2. b * Cells = a * Cells + Cells + d * Cells /\ d * Cells \in Nat BY <1>1, <2>1
  <2> QED BY <1>1, <1>3, <2>2
<1> QED BY <1>1, <1>2, <1>3, <1>6

LEMMA StoreStep == ASSUME RingInv, NEW q \in Producers, Store(q) PROVE RingInv'
<1> DEFINE e == claimed[q].emit
           c == claimed[q].cell
<1>1. /\ claimed[q] # Nothing
      /\ cacheBuf' = [cacheBuf EXCEPT ![c] = e]
      /\ claimed' = [claimed EXCEPT ![q] = Nothing]
      /\ disturbed' = (disturbed \/ emits >= e + Cells)
      /\ UNCHANGED <<writePos, clearing, flushing, emits>>
  BY DEF Store
<1>2. RingTypes BY DEF RingInv
<1>3. e \in Nat /\ c \in 0 .. Cells - 1 BY <1>2 DEF RingTypes
<1>4. claimed'[q] = Nothing /\ \A p \in Producers : p # q => claimed'[p] = claimed[p]
  BY <1>1, <1>2 DEF RingTypes
<1>5. RingTypes'
  <2>1. 0 \in 0 .. Cells - 1 BY SizeAssumption
  <2>2. Nothing \in [emit : Nat, cell : 0 .. Cells - 1] BY <2>1 DEF Nothing
  <2>3. claimed' \in [Producers -> [emit : Nat, cell : 0 .. Cells - 1]]
    BY <1>1, <1>2, <2>2 DEF RingTypes
  <2> HIDE DEF e, c
  <2>4. cacheBuf' \in [0 .. Cells - 1 -> Nat] BY <1>1, <1>2, <1>3 DEF RingTypes
  <2>5. (emits >= e + Cells) \in BOOLEAN BY <1>2, <1>3, SizeAssumption DEF RingTypes
  <2>6. disturbed' \in BOOLEAN BY <1>1, <1>2, <2>5, Zenon DEF RingTypes
  <2> QED BY <1>1, <1>2, <2>3, <2>4, <2>6 DEF RingTypes
<1> SUFFICES ASSUME ~disturbed' PROVE QuietInv' BY <1>5 DEF RingInv
<1>6. ~disturbed /\ ~(emits >= e + Cells) BY <1>1
<1>7. QuietInv BY <1>6 DEF RingInv
<1>8. ~flushing BY <1>1, <1>7 DEF QuietInv, FlushInv
<1>9. FlushInv' BY <1>1, <1>8 DEF FlushInv
<1>10. \A p \in Producers : ClaimInv(p)'
  BY <1>1, <1>4, <1>7 DEF QuietInv, ClaimInv
<1>11. \A k : EmitAt(k)' = EmitAt(k) BY <1>1 DEF EmitAt
<1>12. \A d : Laps(d)' = Laps(d) BY <1>1 DEF Laps
<1> HIDE DEF e, c
<1>13. ASSUME NEW d \in 0 .. Cells - 1 PROVE CellInv(d)'
  <2>1. CASE d = c
    <3>1. ClaimInv(q) BY <1>7 DEF QuietInv
    <3>2. e > emits - writePos /\ e <= emits /\ c = (e - (emits - writePos) - 1) % Cells
      BY <1>1, <3>1 DEF ClaimInv, e, c
    <3>3. PICK k \in Nat : k = e - (emits - writePos) - 1 BY <1>2, <1>3, <3>2 DEF RingTypes
    <3>4. k < writePos /\ EmitAt(k) = e /\ k % Cells = d
      BY <1>2, <1>3, <2>1, <3>2, <3>3 DEF RingTypes, EmitAt
    <3>5. k \in Laps(d) BY <1>2, <3>4 DEF Laps, RingTypes
    <3>6. ASSUME NEW l \in Laps(d), ~(l <= k) PROVE FALSE
      <4>1. l \in Nat /\ l < writePos /\ k < l /\ l % Cells = k % Cells
        BY <1>2, <3>4, <3>6 DEF Laps, RingTypes
      <4>2. k + Cells <= l BY <4>1, TurnApart
      <4> QED BY <1>2, <1>3, <1>6, <3>3, <4>1, <4>2, SizeAssumption DEF RingTypes
    <3>7. cacheBuf'[d] = EmitAt(k)' BY <1>1, <1>2, <1>11, <2>1, <3>4 DEF RingTypes
    <3>8. Holds(d, k)' BY <3>7 DEF Holds
    <3> QED BY <1>12, <3>5, <3>6, <3>8 DEF CellInv
  <2>2. CASE d # c
    <3>1. CellInv(d) BY <1>7, <1>8 DEF QuietInv
    <3>2. cacheBuf'[d] = cacheBuf[d] BY <1>1, <1>2, <2>2 DEF RingTypes
    <3>3. ASSUME NEW k \in Laps(d), Holds(d, k) PROVE Holds(d, k)'
      <4>1. ASSUME NEW p \in Producers, claimed[p] = [emit |-> EmitAt(k), cell |-> d]
            PROVE  claimed'[p] = [emit |-> EmitAt(k), cell |-> d]
        <5>1. p # q BY <2>2, <4>1 DEF c
        <5> QED BY <1>4, <4>1, <5>1
      <4> QED BY <1>11, <3>2, <3>3, <4>1 DEF Holds
    <3> QED BY <1>12, <3>1, <3>2, <3>3 DEF CellInv
  <2> QED BY <2>1, <2>2
<1> QED BY <1>1, <1>8, <1>9, <1>10, <1>13 DEF QuietInv

LEMMA FlushSteps ==
  ASSUME RingInv, FlushPosition \/ \E c \in 0 .. Cells - 1 : FlushCell(c) PROVE RingInv'
<1>1. RingTypes BY DEF RingInv
<1>2. CASE FlushPosition
  <2>1. /\ ~flushing /\ writePos' = 0 /\ flushing' = TRUE /\ clearing' = DOMAIN cacheBuf
        /\ disturbed' = (disturbed \/ \E p \in Producers : claimed[p] # Nothing)
        /\ UNCHANGED <<cacheBuf, claimed, emits>>
    BY <1>2 DEF FlushPosition
  <2>2. clearing' = 0 .. Cells - 1 BY <1>1, <2>1 DEF RingTypes
  <2>3. disturbed' \in BOOLEAN BY <1>1, <2>1, Zenon DEF RingTypes
  <2>4. RingTypes' BY <1>1, <2>1, <2>2, <2>3 DEF RingTypes
  <2>5. ASSUME ~disturbed' PROVE QuietInv'
    <3>1. \A p \in Producers : claimed'[p] = Nothing BY <2>1, <2>5
    <3>2. FlushInv' BY <2>1, <2>2, <3>1 DEF FlushInv
    <3> QED BY <2>1, <3>1, <3>2 DEF QuietInv, ClaimInv
  <2> QED BY <2>4, <2>5 DEF RingInv
<1>3. ASSUME NEW c \in 0 .. Cells - 1, FlushCell(c) PROVE RingInv'
  <2>1. /\ flushing /\ c \in clearing
        /\ cacheBuf' = [cacheBuf EXCEPT ![c] = 0] /\ clearing' = clearing \ {c}
        /\ flushing' = (clearing # {c})
        /\ UNCHANGED <<writePos, claimed, emits, disturbed>>
    BY <1>3 DEF FlushCell
  <2>2. (clearing # {c}) \in BOOLEAN OBVIOUS
  <2>3. RingTypes' BY <1>1, <2>1, <2>2 DEF RingTypes
  <2>4. ASSUME ~disturbed' PROVE QuietInv'
    <3>1. FlushInv /\ \A p \in Producers : ClaimInv(p) BY <2>1, <2>4 DEF RingInv, QuietInv
    <3>2. writePos' = 0 /\ \A p \in Producers : claimed'[p] = Nothing
      BY <2>1, <3>1 DEF FlushInv
    <3>3. \A d \in (0 .. Cells - 1) \ clearing' : cacheBuf'[d] = 0
      BY <1>1, <2>1, <3>1 DEF FlushInv, RingTypes
    <3>4. FlushInv' BY <3>2, <3>3 DEF FlushInv
    <3>5. ASSUME ~flushing', NEW d \in 0 .. Cells - 1 PROVE CellInv(d)'
      <4>1. clearing' = {} BY <2>1, <3>5
      <4>2. cacheBuf'[d] = 0 BY <3>3, <4>1
      <4>3. Laps(d)' = {} BY <3>2 DEF Laps
      <4> QED BY <4>2, <4>3 DEF CellInv
    <3>6. \A p \in Producers : ClaimInv(p)' BY <3>2 DEF ClaimInv
    <3> QED BY <3>4, <3>5, <3>6 DEF QuietInv
  <2> QED BY <2>3, <2>4 DEF RingInv
<1> QED BY <1>2, <1>3

LEMMA RingStep == ASSUME RingInv, [Next]_vars PROVE RingInv'
<1>1. ASSUME UNCHANGED emitterVars PROVE RingInv'
  <2>1. /\ writePos' = writePos /\ cacheBuf' = cacheBuf /\ claimed' = claimed
        /\ clearing' = clearing /\ flushing' = flushing /\ emits' = emits
        /\ disturbed' = disturbed
    BY <1>1 DEF emitterVars
  <2>2. RingTypes' <=> RingTypes BY <2>1 DEF RingTypes
  <2>3. FlushInv' <=> FlushInv BY <2>1 DEF FlushInv
  <2>4. \A p : ClaimInv(p)' <=> ClaimInv(p) BY <2>1, Zenon DEF ClaimInv, EmitAt
  <2>5. \A c : CellInv(c)' <=> CellInv(c) BY <2>1, Zenon DEF CellInv, Holds, Laps, EmitAt
  <2>6. QuietInv' <=> QuietInv BY <2>1, <2>3, <2>4, <2>5, Zenon DEF QuietInv
  <2> QED BY <2>1, <2>2, <2>6, Zenon DEF RingInv
<1>2. ASSUME EmitterNext PROVE RingInv'
  BY <1>2, ClaimStep, StoreStep, FlushSteps DEF EmitterNext
<1> QED BY <1>1, <1>2 DEF Next, vars

\* The buffer holds the last signals since the last flush, each in its cell
\* (AsyncPulseEmitter::emit and flush), whatever the number of producers.
THEOREM AlwaysHoldsTheLastSignals == Spec => []HoldsTheLastSignals
<1>1. ASSUME RingInv PROVE HoldsTheLastSignals
  <2> SUFFICES ASSUME ~disturbed, ~flushing, \A p \in Producers : claimed[p] = Nothing,
                      NEW c \in 0 .. Cells - 1
               PROVE  LET laps == {k \in 0 .. writePos - 1 : k % Cells = c}
                      IN cacheBuf[c] = IF laps = {} THEN 0
                           ELSE emits - writePos + 1 + CHOOSE k \in laps : \A l \in laps : l <= k
    BY DEF HoldsTheLastSignals
  <2> DEFINE last == CHOOSE k \in Laps(c) : \A l \in Laps(c) : l <= k
  <2>1. CellInv(c) BY <1>1 DEF RingInv, QuietInv
  <2>2. RingTypes BY <1>1 DEF RingInv
  <2>3. cacheBuf[c] = IF Laps(c) = {} THEN 0 ELSE EmitAt(last)
    <3>1. CASE Laps(c) = {} BY <2>1, <3>1 DEF CellInv
    <3>2. CASE Laps(c) # {}
      <4>1. PICK k \in Laps(c) : (\A l \in Laps(c) : l <= k) /\ Holds(c, k)
        BY <2>1, <3>2 DEF CellInv
      <4>2. \A l \in Laps(c) : l \in Nat BY DEF Laps
      <4>3. PICK m : m = last OBVIOUS
      <4>4. m \in Laps(c) /\ \A l \in Laps(c) : l <= m BY <4>1, <4>3
      <4>5. m \in Nat /\ k \in Nat /\ m <= k /\ k <= m BY <4>1, <4>2, <4>4
      <4>6. m = k BY <4>5
      <4>7. EmitAt(k) # 0 BY <2>2, <4>5 DEF EmitAt, RingTypes
      <4>8. cacheBuf[c] = EmitAt(k) BY <4>1, <4>7 DEF Holds, Nothing
      <4> QED BY <3>2, <4>3, <4>6, <4>8
    <3> QED BY <3>1, <3>2
  <2> QED BY <2>3 DEF Laps, EmitAt
<1> QED BY <1>1, RingInit, RingStep, PTL DEF Spec
------------------------------------------------------------------------------
\* Recursion on the naturals

\* A set of naturals has a least element: its members' intervals do.
LEMMA LeastElement ==
  ASSUME NEW T \in SUBSET Nat, T # {}
  PROVE  \E n \in T : \A m \in T : n <= m
<1> DEFINE R == StrictSubsetOrdering(Nat)
           U == {0 .. m : m \in T}
<1>1. U \subseteq FiniteSubsetsOf(Nat) /\ U # {}
  <2>1. \A m \in Nat : 0 .. m \in SUBSET Nat /\ IsFiniteSet(0 .. m) BY FS_Interval
  <2> QED BY <2>1 DEF FiniteSubsetsOf
<1>2. \E x \in U : \A y \in U : <<y, x>> \notin R
  <2>1. IsWellFoundedOn(R, FiniteSubsetsOf(Nat)) BY FS_StrictSubsetOrderingWellFounded
  <2> HIDE DEF R, U
  <2> QED BY <2>1, <1>1, WFMin
<1>3. PICK n \in T : \A m \in T : <<0 .. m, 0 .. n>> \notin R BY <1>2
<1>4. ASSUME NEW m \in T, m < n PROVE FALSE
  <2>1. n \in 0 .. n /\ n \notin 0 .. m BY <1>4
  <2>2. 0 .. m \subseteq 0 .. n /\ 0 .. m # 0 .. n BY <2>1, <1>4
  <2>3. 0 .. m \in SUBSET Nat /\ 0 .. n \in SUBSET Nat OBVIOUS
  <2>4. <<0 .. m, 0 .. n>> \in StrictSubsetOrdering(Nat)
    BY <2>2, <2>3, Zenon DEF StrictSubsetOrdering
  <2> QED BY <2>4, <1>3
<1> QED BY <1>4

\* Induction, for a set.
LEMMA NatInduct ==
  ASSUME NEW S \in SUBSET Nat, 0 \in S, \A n \in S : n + 1 \in S
  PROVE  S = Nat
<1> SUFFICES ASSUME S # Nat PROVE FALSE OBVIOUS
<1>1. Nat \ S \in SUBSET Nat /\ Nat \ S # {} OBVIOUS
<1>2. PICK n \in Nat \ S : \A m \in Nat \ S : n <= m BY <1>1, LeastElement
<1>3. n # 0 /\ n - 1 \in Nat /\ n - 1 < n BY <1>2
<1>4. n - 1 \in S BY <1>2, <1>3
<1> QED BY <1>2, <1>3, <1>4

\* g is the function on 0 .. n that starts with base and goes on by H.
IsRecursive(g, base, H, n) ==
  g = [i \in 0 .. n |-> IF i = 0 THEN base ELSE H[<<i, g[i - 1]>>]]

\* There is one for every n, and its values are in V.
LEMMA RecursionExists ==
  ASSUME NEW V, NEW base \in V, NEW H \in [Nat \X V -> V]
  PROVE  \A n \in Nat : \E g \in [0 .. n -> V] : IsRecursive(g, base, H, n)
<1> DEFINE S == {n \in Nat : \E g \in [0 .. n -> V] : IsRecursive(g, base, H, n)}
<1>1. 0 \in S
  <2> DEFINE g == [i \in 0 .. 0 |-> base]
  <2>1. g \in [0 .. 0 -> V] OBVIOUS
  <2>2. IsRecursive(g, base, H, 0) BY DEF IsRecursive
  <2> QED BY <2>1, <2>2
<1>2. ASSUME NEW n \in S PROVE n + 1 \in S
  <2>1. PICK g \in [0 .. n -> V] : IsRecursive(g, base, H, n) OBVIOUS
  <2> DEFINE next == H[<<n + 1, g[n]>>]
             h == [i \in 0 .. n + 1 |-> IF i = n + 1 THEN next ELSE g[i]]
  <2>2. next \in V
    <3>1. n + 1 \in Nat /\ g[n] \in V OBVIOUS
    <3>2. <<n + 1, g[n]>> \in Nat \X V BY <3>1
    <3> QED BY <3>2
  <2> HIDE DEF next
  <2>3. h \in [0 .. n + 1 -> V] BY <2>2
  <2>4. (\A i \in 0 .. n : h[i] = g[i]) /\ \A i \in 1 .. n + 1 : h[i - 1] = g[i - 1] OBVIOUS
  <2>5. h[n + 1] = H[<<n + 1, h[n]>>]
    <3>1. h[n + 1] = next /\ h[n] = g[n] BY <2>4
    <3> QED BY <3>1 DEF next
  <2>6. h = [i \in 0 .. n + 1 |-> h[i]] OBVIOUS
  <2> HIDE DEF h
  <2>7. \A i \in 0 .. n : g[i] = IF i = 0 THEN base ELSE H[<<i, g[i - 1]>>]
    BY <2>1 DEF IsRecursive
  <2>8. \A i \in 0 .. n : h[i] = IF i = 0 THEN base ELSE H[<<i, h[i - 1]>>]
    <3> SUFFICES ASSUME NEW i \in 0 .. n
                 PROVE  h[i] = IF i = 0 THEN base ELSE H[<<i, h[i - 1]>>]
      OBVIOUS
    <3>1. CASE i = 0 BY <2>4, <2>7, <3>1
    <3>2. CASE i # 0
      <4>1. h[i] = g[i] /\ h[i - 1] = g[i - 1] BY <2>4, <3>2
      <4> QED BY <2>7, <3>2, <4>1
    <3> QED BY <3>1, <3>2
  <2>9. \A i \in 0 .. n + 1 : h[i] = IF i = 0 THEN base ELSE H[<<i, h[i - 1]>>]
    <3> SUFFICES ASSUME NEW i \in 0 .. n + 1
                 PROVE  h[i] = IF i = 0 THEN base ELSE H[<<i, h[i - 1]>>]
      OBVIOUS
    <3>1. CASE i \in 0 .. n BY <2>8, <3>1
    <3>2. CASE i = n + 1
      <4>1. i # 0 /\ i - 1 = n BY <3>2
      <4> QED BY <2>5, <3>2, <4>1
    <3> QED BY <3>1, <3>2
  <2>10. IsRecursive(h, base, H, n + 1) BY <2>6, <2>9 DEF IsRecursive
  <2> QED BY <2>3, <2>10
<1>3. S \in SUBSET Nat OBVIOUS
<1> HIDE DEF S
<1>4. S = Nat BY <1>1, <1>2, <1>3, NatInduct
<1> QED BY <1>4 DEF S
------------------------------------------------------------------------------
\* Counting

\* How many elements of a sequence are among V.
Among(d, V) == Cardinality({i \in DOMAIN d : d[i] \in V})

LEMMA AmongType ==
  ASSUME NEW d \in Seq(Bytes), NEW V
  PROVE  IsFiniteSet({i \in DOMAIN d : d[i] \in V}) /\ Among(d, V) \in Nat
<1>1. Len(d) \in Nat /\ DOMAIN d = 1 .. Len(d) OBVIOUS
<1>2. IsFiniteSet(1 .. Len(d)) BY <1>1, FS_Interval
<1>3. {i \in DOMAIN d : d[i] \in V} \in SUBSET (1 .. Len(d)) BY <1>1
<1>4. IsFiniteSet({i \in DOMAIN d : d[i] \in V}) BY <1>2, <1>3, FS_Subset
<1> QED BY <1>4, FS_CardinalityType DEF Among

LEMMA AmongAppend ==
  ASSUME NEW d \in Seq(Bytes), NEW b \in Bytes, NEW V
  PROVE  Among(Append(d, b), V) = Among(d, V) + IF b \in V THEN 1 ELSE 0
<1> DEFINE at(s) == {i \in DOMAIN s : s[i] \in V}
           n == Len(d) + 1
<1>1. Len(d) \in Nat /\ DOMAIN d = 1 .. Len(d) OBVIOUS
<1>2. DOMAIN Append(d, b) = 1 .. n /\ Append(d, b)[n] = b
      /\ \A i \in 1 .. Len(d) : Append(d, b)[i] = d[i]
  OBVIOUS
<1>3. 1 .. n = (1 .. Len(d)) \cup {n} /\ n \notin 1 .. Len(d) BY <1>1
<1>4. at(Append(d, b)) = IF b \in V THEN at(d) \cup {n} ELSE at(d) BY <1>1, <1>2, <1>3
<1>5. n \notin at(d) BY <1>1, <1>3
<1>6. IsFiniteSet(at(d)) /\ Among(d, V) \in Nat BY AmongType
<1>7. Among(d, V) = Cardinality(at(d)) /\ Among(Append(d, b), V) = Cardinality(at(Append(d, b)))
  BY DEF Among
<1> HIDE DEF at, n
<1>8. Cardinality(at(d) \cup {n}) = Cardinality(at(d)) + 1 BY <1>5, <1>6, FS_AddElement
<1>9. CASE b \in V BY <1>4, <1>7, <1>8, <1>9
<1>10. CASE b \notin V BY <1>4, <1>6, <1>7, <1>10
<1> QED BY <1>9, <1>10

\* A cut of a sequence in two.
LEMMA Cut ==
  ASSUME NEW d \in Seq(Bytes), NEW m \in Nat, NEW n \in Nat, m <= n, n <= Len(d)
  PROVE  /\ SubSeq(d, 1, m) \in Seq(Bytes) /\ SubSeq(d, m + 1, n) \in Seq(Bytes)
         /\ Len(SubSeq(d, 1, m)) = m
         /\ SubSeq(d, 1, n) = SubSeq(d, 1, m) \o SubSeq(d, m + 1, n)
<1> DEFINE a == SubSeq(d, 1, m)
           b == SubSeq(d, m + 1, n)
           c == SubSeq(d, 1, n)
<1>1. Len(d) \in Nat /\ \A i \in 1 .. Len(d) : d[i] \in Bytes OBVIOUS
<1>2. a \in Seq(Bytes) /\ Len(a) = m /\ \A i \in 1 .. m : a[i] = d[i] BY <1>1, SubSeqProperties
<1>3. b \in Seq(Bytes) /\ Len(b) = n - m /\ \A i \in 1 .. n - m : b[i] = d[m + i]
  <2>1. m + 1 \in Int /\ \A i \in m + 1 .. n : d[i] \in Bytes BY <1>1
  <2>2. /\ b \in Seq(Bytes)
        /\ Len(b) = IF m + 1 <= n THEN n - (m + 1) + 1 ELSE 0
        /\ \A i \in 1 .. n - (m + 1) + 1 : b[i] = d[m + 1 + i - 1]
    BY <2>1, SubSeqProperties
  <2> HIDE DEF b
  <2> QED BY <2>2
<1>4. c \in Seq(Bytes) /\ Len(c) = n /\ \A i \in 1 .. n : c[i] = d[i] BY <1>1, SubSeqProperties
<1> HIDE DEF a, b, c
<1>5. /\ a \o b \in Seq(Bytes) /\ Len(a \o b) = n
      /\ \A i \in 1 .. n : (a \o b)[i] = IF i <= m THEN a[i] ELSE b[i - m]
  <2>1. /\ a \o b \in Seq(Bytes) /\ Len(a \o b) = Len(a) + Len(b)
        /\ \A i \in 1 .. Len(a) + Len(b) :
             (a \o b)[i] = IF i <= Len(a) THEN a[i] ELSE b[i - Len(a)]
    <3>1. a \in Seq(Bytes) /\ b \in Seq(Bytes) BY <1>2, <1>3, Zenon
    <3> QED BY <3>1, ConcatProperties, Zenon
  <2>2. Len(a) = m /\ Len(a) + Len(b) = n
    <3>1. Len(a) = m /\ Len(b) = n - m BY <1>2, <1>3, Zenon
    <3> QED BY <3>1
  <2> QED BY <2>1, <2>2, Zenon
<1>6. \A i \in 1 .. n : c[i] = (a \o b)[i]
  <2> SUFFICES ASSUME NEW i \in 1 .. n PROVE c[i] = (a \o b)[i] OBVIOUS
  <2>1. CASE i <= m BY <1>2, <1>4, <1>5, <2>1
  <2>2. CASE ~(i <= m)
    <3>1. i - m \in 1 .. n - m /\ m + (i - m) = i BY <2>2
    <3> QED BY <1>3, <1>4, <1>5, <2>2, <3>1
  <2> QED BY <2>1, <2>2
<1>7. c = a \o b BY <1>4, <1>5, <1>6, SeqEqual
<1> QED BY <1>2, <1>3, <1>7 DEF a, b, c

\* One element more of a sequence behind another.
LEMMA OneMore ==
  ASSUME NEW s \in Seq(Bytes), NEW d \in Seq(Bytes), NEW n \in Nat, n + 1 <= Len(d)
  PROVE  /\ s \o SubSeq(d, 1, n) \in Seq(Bytes) /\ d[n + 1] \in Bytes
         /\ s \o SubSeq(d, 1, n + 1) = Append(s \o SubSeq(d, 1, n), d[n + 1])
<1> DEFINE a == SubSeq(d, 1, n)
           b == SubSeq(d, n + 1, n + 1)
<1>1. Len(d) \in Nat /\ d[n + 1] \in Bytes OBVIOUS
<1>2. a \in Seq(Bytes) /\ b \in Seq(Bytes) /\ SubSeq(d, 1, n + 1) = a \o b BY <1>1, Cut
<1>3. b = <<d[n + 1]>>
  <2>1. Len(b) = 1 /\ b[1] = d[n + 1]
    <3>1. n + 1 \in Int /\ \A i \in n + 1 .. n + 1 : d[i] \in Bytes BY <1>1
    <3>2. /\ Len(b) = IF n + 1 <= n + 1 THEN (n + 1) - (n + 1) + 1 ELSE 0
          /\ \A i \in 1 .. (n + 1) - (n + 1) + 1 : b[i] = d[n + 1 + i - 1]
      BY <3>1, SubSeqProperties
    <3> HIDE DEF b
    <3>3. 1 \in 1 .. (n + 1) - (n + 1) + 1 /\ n + 1 + 1 - 1 = n + 1
          /\ n + 1 <= n + 1 /\ (n + 1) - (n + 1) + 1 = 1
      OBVIOUS
    <3>4. b[1] = d[n + 1 + 1 - 1] BY <3>2, <3>3, Zenon
    <3> QED BY <3>2, <3>3, <3>4, Zenon
  <2>2. <<d[n + 1]>> \in Seq(Bytes) BY <1>1
  <2>3. Len(<<d[n + 1]>>) = 1 /\ <<d[n + 1]>>[1] = d[n + 1] OBVIOUS
  <2> HIDE DEF b
  <2>4. \A i \in 1 .. Len(b) : b[i] = <<d[n + 1]>>[i] BY <2>1, <2>3
  <2>5. Len(b) = Len(<<d[n + 1]>>) BY <2>1, <2>3
  <2> QED BY <1>2, <2>2, <2>4, <2>5, SeqEqual
<1> HIDE DEF a, b
<1>4. s \o (a \o b) = (s \o a) \o b BY <1>2
<1>5. s \o a \in Seq(Bytes) BY <1>2
<1>6. (s \o a) \o <<d[n + 1]>> = Append(s \o a, d[n + 1]) BY <1>1, <1>5, AppendIsConcat
<1> QED BY <1>1, <1>2, <1>3, <1>4, <1>5, <1>6 DEF a

LEMMA Whole ==
  ASSUME NEW s \in Seq(Bytes), NEW d \in Seq(Bytes)
  PROVE  s \o SubSeq(d, 1, 0) = s /\ SubSeq(d, 1, Len(d)) = d
<1>1. SubSeq(d, 1, 0) = <<>> BY SubSeqEmpty
<1>2. SubSeq(d, 1, Len(d)) \in Seq(Bytes) /\ Len(SubSeq(d, 1, Len(d))) = Len(d)
      /\ \A i \in 1 .. Len(d) : SubSeq(d, 1, Len(d))[i] = d[i]
  BY SubSeqProperties
<1>3. SubSeq(d, 1, Len(d)) = d BY <1>2, SeqEqual
<1> QED BY <1>1, <1>3, ConcatEmptySeq

LEMMA AmongConcat ==
  ASSUME NEW s \in Seq(Bytes), NEW d \in Seq(Bytes), NEW V
  PROVE  Among(s \o d, V) = Among(s, V) + Among(d, V)
<1> DEFINE first(n) == SubSeq(d, 1, n)
           S == {n \in Nat : n <= Len(d) =>
                   Among(s \o first(n), V) = Among(s, V) + Among(first(n), V)}
<1>1. Len(d) \in Nat /\ Among(s, V) \in Nat
  <2>1. Among(s, V) \in Nat BY AmongType
  <2> QED BY <2>1
<1>2. 0 \in S
  <2>1. s \o first(0) = s /\ first(0) = <<>> BY Whole, SubSeqEmpty
  <2>2. Among(<<>>, V) = 0 BY FS_EmptySet DEF Among
  <2> HIDE DEF first
  <2>3. Among(s \o first(0), V) = Among(s, V) /\ Among(first(0), V) = 0 BY <2>1, <2>2, Zenon
  <2>4. Among(s \o first(0), V) = Among(s, V) + Among(first(0), V) BY <1>1, <2>3
  <2> QED BY <2>4
<1>3. ASSUME NEW n \in S PROVE n + 1 \in S
  <2> SUFFICES ASSUME n + 1 <= Len(d)
               PROVE  Among(s \o first(n + 1), V) = Among(s, V) + Among(first(n + 1), V)
    OBVIOUS
  <2>1. n \in Nat /\ n <= Len(d) /\ n + 1 <= Len(d) BY <1>1
  <2>2. Among(s \o first(n), V) = Among(s, V) + Among(first(n), V) BY <2>1
  <2>3. <<>> \in Seq(Bytes) OBVIOUS
  <2>4. /\ s \o first(n) \in Seq(Bytes) /\ d[n + 1] \in Bytes
        /\ s \o first(n + 1) = Append(s \o first(n), d[n + 1])
    BY <2>1, OneMore
  <2>5. first(n) \in Seq(Bytes) /\ first(n + 1) \in Seq(Bytes) BY <1>1, <2>1, Cut
  <2>6. <<>> \o first(n + 1) = Append(<<>> \o first(n), d[n + 1]) BY <2>1, <2>3, OneMore
  <2>7. first(n + 1) = Append(first(n), d[n + 1])
    <3> HIDE DEF first
    <3> QED BY <2>5, <2>6, ConcatEmptySeq
  <2>8. Among(first(n), V) \in Nat BY <2>5, AmongType
  <2> HIDE DEF first
  <2>9. PICK k \in {0, 1} : k = IF d[n + 1] \in V THEN 1 ELSE 0 OBVIOUS
  <2>10. \A x \in Seq(Bytes) : Among(Append(x, d[n + 1]), V) = Among(x, V) + k
    BY <2>4, <2>9, AmongAppend
  <2>11. Among(s \o first(n + 1), V) = Among(s \o first(n), V) + k BY <2>4, <2>10, Zenon
  <2>12. Among(first(n + 1), V) = Among(first(n), V) + k BY <2>5, <2>7, <2>10, Zenon
  <2> QED BY <1>1, <2>2, <2>8, <2>11, <2>12
<1>4. S \in SUBSET Nat OBVIOUS
<1> HIDE DEF S
<1>5. S = Nat BY <1>2, <1>3, <1>4, NatInduct
<1>6. Among(s \o first(Len(d)), V) = Among(s, V) + Among(first(Len(d)), V)
  BY <1>1, <1>5 DEF S
<1> QED BY <1>6, Whole

LEMMA AmongUnion ==
  ASSUME NEW d \in Seq(Bytes), NEW V, NEW W, V \cap W = {}
  PROVE  Among(d, V \cup W) = Among(d, V) + Among(d, W)
<1> DEFINE at(U) == {i \in DOMAIN d : d[i] \in U}
<1>1. at(V \cup W) = at(V) \cup at(W) /\ at(V) \cap at(W) = {} OBVIOUS
<1>2. IsFiniteSet(at(V)) /\ IsFiniteSet(at(W)) BY AmongType
<1>3. Among(d, V) \in Nat /\ Among(d, W) \in Nat BY AmongType
<1>4. Among(d, V) = Cardinality(at(V)) /\ Among(d, W) = Cardinality(at(W))
      /\ Among(d, V \cup W) = Cardinality(at(V \cup W))
  BY DEF Among
<1> HIDE DEF at
<1>5. Cardinality(at(V) \cup at(W)) = Cardinality(at(V)) + Cardinality(at(W)) - Cardinality(at(V) \cap at(W))
  BY <1>2, FS_Union
<1>6. Cardinality(at(V) \cap at(W)) = 0 BY <1>1, FS_EmptySet
<1>7. Among(d, V \cup W) = Cardinality(at(V) \cup at(W)) BY <1>1, <1>4, Zenon
<1> QED BY <1>3, <1>4, <1>5, <1>6, <1>7

------------------------------------------------------------------------------
\* The levels

Level(level) == {v \in Bytes : Classify(v) = level}
Odd          == {v \in Bytes : v % 2 = 1}

LEMMA Levels ==
  /\ Odd = Level("high") \cup Level("uncertain")
  /\ Level("high") \cap Level("uncertain") = {}
  /\ Bytes = Odd \cup Level("low")
  /\ Odd \cap Level("low") = {}
<1>1. \A v \in Bytes : v \in 0 .. 255 BY SizeAssumption
<1>2. 255 % 2 = 1 OBVIOUS
<1> QED BY <1>1, <1>2 DEF Level, Odd, Classify

LEMMA CountIs ==
  ASSUME NEW d \in Seq(Bytes)
  PROVE  /\ \A level : HowMany(d, level) = Among(d, Level(level))
         /\ HighInBlock(d) = Among(d, Level("high"))
<1>1. \A i \in DOMAIN d : d[i] \in Bytes OBVIOUS
<1>2. \A level : HowMany(d, level) = Among(d, Level(level))
  <2> SUFFICES ASSUME NEW level PROVE HowMany(d, level) = Among(d, Level(level)) OBVIOUS
  <2>1. {i \in DOMAIN d : Classify(d[i]) = level} = {i \in DOMAIN d : d[i] \in Level(level)}
    BY <1>1 DEF Level
  <2> QED BY <2>1, Zenon DEF HowMany, Among
<1>3. OddIn(d) = Among(d, Odd)
  <2>1. {i \in DOMAIN d : d[i] % 2 = 1} = {i \in DOMAIN d : d[i] \in Odd} BY <1>1 DEF Odd
  <2> QED BY <2>1, Zenon DEF OddIn, Among
<1>4. Among(d, Odd) = Among(d, Level("high")) + Among(d, Level("uncertain"))
  <2>1. Among(d, Level("high") \cup Level("uncertain"))
          = Among(d, Level("high")) + Among(d, Level("uncertain"))
    <3>1. PICK V, W : V = Level("high") /\ W = Level("uncertain") OBVIOUS
    <3>2. V \cap W = {} BY <3>1, Levels, Zenon
    <3>3. Among(d, V \cup W) = Among(d, V) + Among(d, W) BY <3>2, AmongUnion
    <3> QED BY <3>1, <3>3, Zenon
  <2> QED BY <2>1, Levels, Zenon
<1>5. Among(d, Level("high")) \in Nat /\ Among(d, Level("uncertain")) \in Nat BY AmongType
<1>6. HowMany(d, "uncertain") = Among(d, Level("uncertain")) BY <1>2, Zenon
<1>7. HighInBlock(d) = Among(d, Level("high"))
  <2>1. OddIn(d) - HowMany(d, "uncertain") = Among(d, Level("high")) BY <1>3, <1>4, <1>5, <1>6
  <2> QED BY <1>5, <2>1 DEF HighInBlock
<1> QED BY <1>2, <1>7

\* Counting in blocks is counting one by one.
LEMMA BlocksCountAll ==
  ASSUME NEW d \in Seq(Bytes) PROVE HighIn(d) = Among(d, Level("high"))
<1> DEFINE blocks   == Len(d) \div Lanes
           block(k) == SubSeq(d, (k - 1) * Lanes + 1, k * Lanes)
           rest     == SubSeq(d, blocks * Lanes + 1, Len(d))
           to(k)    == SubSeq(d, 1, k * Lanes)
           B        == [k \in Nat |-> IF k \in 1 .. blocks THEN HighInBlock(block(k)) ELSE 0]
           H        == [q \in Nat \X Nat |-> q[2] + B[q[1]]]
           Named(g) == g = [k \in 0 .. blocks |->
                              IF k = 0 THEN 0 ELSE g[k - 1] + HighInBlock(block(k))]
<1>1. Lanes \in Nat \ {0} /\ Len(d) \in Nat BY SizeAssumption
<1>2. blocks \in Nat /\ blocks * Lanes \in Nat /\ blocks * Lanes <= Len(d) BY <1>1
<1>3. HighIn(d) = (CHOOSE g : Named(g))[blocks] + HowMany(rest, "high") BY DEF HighIn
<1> HIDE DEF blocks
<1>4. ASSUME NEW k \in 1 .. blocks
      PROVE  /\ (k - 1) * Lanes \in Nat /\ k * Lanes \in Nat
             /\ (k - 1) * Lanes <= k * Lanes /\ k * Lanes <= Len(d)
  <2>1. PICK b \in Nat : b = blocks BY <1>2
  <2>2. PICK j \in Nat, r \in Nat : k = j + 1 /\ b = k + r BY <2>1
  <2>3. j * Lanes \in Nat /\ r * Lanes \in Nat BY <1>1
  <2>4. k * Lanes = j * Lanes + Lanes BY <1>1, <2>2
  <2>5. b * Lanes = k * Lanes + r * Lanes BY <1>1, <2>2
  <2>6. k - 1 = j BY <2>2
  <2> QED BY <1>1, <1>2, <2>1, <2>3, <2>4, <2>5, <2>6
<1>5. ASSUME NEW k \in 1 .. blocks
      PROVE  /\ block(k) \in Seq(Bytes) /\ to(k - 1) \in Seq(Bytes)
             /\ to(k) = to(k - 1) \o block(k)
  BY <1>4, Cut
<1>6. ASSUME NEW k \in 1 .. blocks
      PROVE  /\ HighInBlock(block(k)) \in Nat
             /\ Among(to(k), Level("high"))
                  = Among(to(k - 1), Level("high")) + HighInBlock(block(k))
  <2> HIDE DEF block, to
  <2>1. HighInBlock(block(k)) = Among(block(k), Level("high")) BY <1>5, CountIs
  <2>2. Among(block(k), Level("high")) \in Nat BY <1>5, AmongType
  <2>3. Among(to(k - 1) \o block(k), Level("high"))
          = Among(to(k - 1), Level("high")) + Among(block(k), Level("high"))
    BY <1>5, AmongConcat
  <2>4. Among(to(k), Level("high")) = Among(to(k - 1) \o block(k), Level("high")) BY <1>5, Zenon
  <2> QED BY <2>1, <2>2, <2>3, <2>4
<1>7. to(0) = <<>>
  <2>1. 0 * Lanes = 0 BY <1>1
  <2> QED BY <2>1, SubSeqEmpty
<1> HIDE DEF block
<1>8. H \in [Nat \X Nat -> Nat]
  <2>1. \A k \in Nat : B[k] \in Nat BY <1>6
  <2> HIDE DEF B
  <2> QED BY <2>1
<1>9. PICK g \in [0 .. blocks -> Nat] : IsRecursive(g, 0, H, blocks)
  <2>1. 0 \in Nat OBVIOUS
  <2> HIDE DEF H
  <2> QED BY <1>2, <1>8, <2>1, RecursionExists
<1>10. \A k \in 1 .. blocks : H[<<k, g[k - 1]>>] = g[k - 1] + HighInBlock(block(k))
  <2> SUFFICES ASSUME NEW k \in 1 .. blocks
               PROVE  H[<<k, g[k - 1]>>] = g[k - 1] + HighInBlock(block(k))
    OBVIOUS
  <2>1. k \in Nat /\ k - 1 \in 0 .. blocks BY <1>2
  <2>2. <<k, g[k - 1]>> \in Nat \X Nat BY <2>1
  <2>3. B[k] = HighInBlock(block(k)) BY <2>1
  <2> HIDE DEF B
  <2> QED BY <2>2, <2>3
<1> HIDE DEF H
<1>11. Named(g) BY <1>2, <1>9, <1>10 DEF IsRecursive
<1>12. PICK f : f = CHOOSE h : Named(h) OBVIOUS
<1>13. Named(f) BY <1>11, <1>12
<1>14. f[0] = 0 /\ \A k \in 1 .. blocks : f[k] = f[k - 1] + HighInBlock(block(k)) BY <1>2, <1>13
<1> HIDE DEF Named, to
<1> DEFINE S == {k \in Nat : k <= blocks => f[k] = Among(to(k), Level("high"))}
<1>15. 0 \in S
  <2>1. Among(<<>>, Level("high")) = 0 BY FS_EmptySet DEF Among
  <2>2. f[0] = Among(to(0), Level("high")) BY <1>7, <1>14, <2>1, Zenon
  <2> QED BY <2>2
<1>16. ASSUME NEW k \in S PROVE k + 1 \in S
  <2> SUFFICES ASSUME k + 1 <= blocks PROVE f[k + 1] = Among(to(k + 1), Level("high")) OBVIOUS
  <2>1. k \in Nat /\ k <= blocks /\ k + 1 \in 1 .. blocks /\ (k + 1) - 1 = k BY <1>2
  <2>2. f[k] = Among(to(k), Level("high")) BY <2>1
  <2>3. f[k + 1] = f[k] + HighInBlock(block(k + 1)) BY <1>14, <2>1
  <2>4. Among(to(k + 1), Level("high"))
          = Among(to((k + 1) - 1), Level("high")) + HighInBlock(block(k + 1))
    BY <1>6, <2>1
  <2> QED BY <2>1, <2>2, <2>3, <2>4
<1>17. S \in SUBSET Nat OBVIOUS
<1> HIDE DEF S
<1>18. S = Nat BY <1>15, <1>16, <1>17, NatInduct
<1>19. f[blocks] = Among(to(blocks), Level("high")) BY <1>2, <1>18 DEF S
<1>20. rest \in Seq(Bytes) /\ to(blocks) \in Seq(Bytes) /\ d = to(blocks) \o rest
  <2>1. SubSeq(d, 1, Len(d)) = d BY Whole
  <2>2. PICK m \in Nat : m = blocks * Lanes BY <1>2
  <2>3. Len(d) \in Nat /\ m <= Len(d) /\ Len(d) <= Len(d) BY <1>1, <1>2, <2>2
  <2>4. /\ SubSeq(d, 1, m) \in Seq(Bytes) /\ SubSeq(d, m + 1, Len(d)) \in Seq(Bytes)
        /\ SubSeq(d, 1, Len(d)) = SubSeq(d, 1, m) \o SubSeq(d, m + 1, Len(d))
    BY <2>3, Cut
  <2>5. to(blocks) = SubSeq(d, 1, m) /\ rest = SubSeq(d, m + 1, Len(d)) BY <2>2, Zenon DEF to
  <2> HIDE DEF rest
  <2> QED BY <2>1, <2>4, <2>5, Zenon
<1> HIDE DEF rest
<1>21. HowMany(rest, "high") = Among(rest, Level("high")) BY <1>20, CountIs
<1>22. Among(d, Level("high")) = Among(to(blocks), Level("high")) + Among(rest, Level("high"))
  <2>1. Among(to(blocks) \o rest, Level("high"))
          = Among(to(blocks), Level("high")) + Among(rest, Level("high"))
    BY <1>20, AmongConcat
  <2> QED BY <1>20, <2>1, Zenon
<1> QED BY <1>3, <1>12, <1>19, <1>21, <1>22, Zenon

\* What has been counted of the trace.
CountInv ==
  /\ trace \in Seq(Bytes)
  /\ counts = [samples   |-> Len(trace),
               high      |-> Among(trace, Level("high")),
               uncertain |-> Among(trace, Level("uncertain"))]

LEMMA PiecesAreBytes == ASSUME NEW data \in Pieces PROVE data \in Seq(Bytes)
<1>1. PICK n \in 1 .. MaxTrace : data \in [1 .. n -> Bytes] BY DEF Pieces
<1>2. n \in Nat BY SizeAssumption
<1> QED BY <1>1, <1>2

LEMMA CountInit == Init => CountInv
<1> SUFFICES ASSUME Init PROVE CountInv OBVIOUS
<1>1. trace = <<>> /\ counts = [samples |-> 0, high |-> 0, uncertain |-> 0] BY DEF Init
<1>2. \A V : Among(<<>>, V) = 0 BY FS_EmptySet DEF Among
<1> QED BY <1>1, <1>2 DEF CountInv

LEMMA CountStep == ASSUME CountInv, [Next]_vars PROVE CountInv'
<1>1. ASSUME NEW data \in Pieces, Ingest(data) PROVE CountInv'
  <2>1. data \in Seq(Bytes) BY PiecesAreBytes
  <2>2. trace' = trace \o data
        /\ counts' = [samples   |-> counts.samples + Len(data),
                      high      |-> counts.high + HighIn(data),
                      uncertain |-> counts.uncertain + HowMany(data, "uncertain")]
    BY <1>1 DEF Ingest, CountLevels
  <2>3. trace \in Seq(Bytes) /\ counts.samples = Len(trace)
        /\ counts.high = Among(trace, Level("high"))
        /\ counts.uncertain = Among(trace, Level("uncertain"))
    BY DEF CountInv
  <2>4. HighIn(data) = Among(data, Level("high")) BY <2>1, BlocksCountAll
  <2>5. HowMany(data, "uncertain") = Among(data, Level("uncertain")) BY <2>1, CountIs
  <2>6. PICK t : t = trace \o data OBVIOUS
  <2>7. t \in Seq(Bytes) /\ Len(t) = Len(trace) + Len(data) BY <2>1, <2>3, <2>6
  <2>8. \A V : Among(t, V) = Among(trace, V) + Among(data, V) BY <2>1, <2>3, <2>6, AmongConcat
  <2>9. counts' = [samples |-> Len(t), high |-> Among(t, Level("high")),
                   uncertain |-> Among(t, Level("uncertain"))]
    BY <2>2, <2>3, <2>4, <2>5, <2>7, <2>8, Zenon
  <2>10. trace' = t BY <2>2, <2>6
  <2> QED BY <2>7, <2>9, <2>10 DEF CountInv, Among, Level
<1>2. ASSUME ResetAnalyzer PROVE CountInv'
  <2>1. trace' = <<>> /\ counts' = [samples |-> 0, high |-> 0, uncertain |-> 0]
    BY <1>2 DEF ResetAnalyzer
  <2>2. \A V : Among(<<>>, V) = 0 BY FS_EmptySet DEF Among
  <2> QED BY <2>1, <2>2 DEF CountInv
<1>3. ASSUME UNCHANGED analyzerVars PROVE CountInv'
  BY <1>3 DEF analyzerVars, CountInv
<1> QED BY <1>1, <1>2, <1>3 DEF Next, AnalyzerNext, vars, analyzerVars

------------------------------------------------------------------------------
\* Streaks and edges of any sequence of samples

IsRun(t, level, b, n) ==
  b \in 1 .. Len(t) /\ b + n - 1 <= Len(t) /\ \A i \in b .. b + n - 1 : Classify(t[i]) = level

\* The run the samples end with has the length n; the longest one the length n.
EndsWith(t, level, n) ==
  /\ n \in 0 .. Len(t)
  /\ \A i \in Len(t) - n + 1 .. Len(t) : Classify(t[i]) = level
  /\ n = Len(t) \/ Classify(t[Len(t) - n]) # level

LongestIs(t, level, n) ==
  /\ n \in 0 .. Len(t)
  /\ n = 0 \/ \E b \in 1 .. Len(t) : IsRun(t, level, b, n)
  /\ \A m \in Nat, b \in 1 .. Len(t) : IsRun(t, level, b, m) => m <= n

EdgesOf(t, from, to) == {i \in DOMAIN t : /\ i > 1 /\ Classify(t[i - 1]) = from
                                          /\ Classify(t[i]) = to}

LastLevel(t) == IF t = <<>> THEN "none" ELSE Classify(t[Len(t)])

LevelNames == {"high", "low", "uncertain"}
Flows == [prev : LevelNames \cup {"none"}, high : Nat, low : Nat,
          longestHigh : Nat, longestLow : Nat, rising : Nat, falling : Nat]

\* The state f of the analyzer is that of the samples t.
FlowOf(t, f) ==
  /\ f \in Flows
  /\ f.prev = LastLevel(t)
  /\ EndsWith(t, "high", f.high) /\ LongestIs(t, "high", f.longestHigh)
  /\ EndsWith(t, "low", f.low) /\ LongestIs(t, "low", f.longestLow)
  /\ f.rising = Cardinality(EdgesOf(t, "low", "high"))
  /\ f.falling = Cardinality(EdgesOf(t, "high", "low"))

LEMMA OneLevelMore ==
  ASSUME NEW t \in Seq(Bytes), NEW b \in Bytes, NEW level, NEW n, NEW m,
         EndsWith(t, level, n), LongestIs(t, level, m),
         NEW n1, n1 = IF Classify(b) = level THEN n + 1 ELSE 0
  PROVE  /\ EndsWith(Append(t, b), level, n1) /\ n1 \in Nat
         /\ LongestIs(Append(t, b), level, Larger(m, n1)) /\ Larger(m, n1) \in Nat
<1>1. PICK u : u = Append(t, b) OBVIOUS
<1>2. PICK k \in Nat : k = Len(t) OBVIOUS
<1>3. /\ u \in Seq(Bytes) /\ Len(u) = k + 1 /\ u[k + 1] = b
      /\ \A i \in 1 .. k : u[i] = t[i]
  BY <1>1, <1>2, AppendProperties
<1>4. /\ n \in 0 .. k /\ \A i \in k - n + 1 .. k : Classify(t[i]) = level
      /\ n = k \/ Classify(t[k - n]) # level
  BY <1>2 DEF EndsWith
<1>5. /\ m \in 0 .. k
      /\ m = 0 \/ \E a \in 1 .. k : IsRun(t, level, a, m)
      /\ \A l \in Nat, a \in 1 .. k : IsRun(t, level, a, l) => l <= m
  BY <1>2 DEF LongestIs
<1>6. n1 \in 0 .. k + 1 BY <1>4
<1>7. EndsWith(u, level, n1)
  <2>1. CASE Classify(b) = level
    <3>1. n1 = n + 1 /\ Len(u) - n1 + 1 = k - n + 1 /\ Len(u) - n1 = k - n BY <1>3, <1>4, <2>1
    <3>2. ASSUME NEW i \in k - n + 1 .. k + 1 PROVE Classify(u[i]) = level
      <4>1. CASE i = k + 1 BY <1>3, <2>1, <4>1
      <4>2. CASE i # k + 1
        <5>1. i \in 1 .. k /\ i \in k - n + 1 .. k BY <1>4, <4>2
        <5> QED BY <1>3, <1>4, <5>1
      <4> QED BY <4>1, <4>2
    <3>3. n1 = Len(u) \/ Classify(u[Len(u) - n1]) # level
      <4>1. CASE n = k BY <1>3, <3>1, <4>1
      <4>2. CASE n # k
        <5>1. k - n \in 1 .. k BY <1>4, <4>2
        <5>2. u[k - n] = t[k - n] BY <1>3, <5>1
        <5> QED BY <1>4, <3>1, <4>2, <5>2
      <4> QED BY <4>1, <4>2
    <3> QED BY <1>3, <1>6, <3>1, <3>2, <3>3 DEF EndsWith
  <2>2. CASE Classify(b) # level
    <3>1. n1 = 0 /\ Len(u) - n1 = k + 1 BY <1>3, <2>2
    <3> QED BY <1>3, <2>2, <3>1 DEF EndsWith
  <2> QED BY <2>1, <2>2
<1>8. \A a \in 1 .. k : \A l \in Nat : a + l - 1 <= k =>
        (IsRun(u, level, a, l) <=> IsRun(t, level, a, l))
  <2> SUFFICES ASSUME NEW a \in 1 .. k, NEW l \in Nat, a + l - 1 <= k
               PROVE  IsRun(u, level, a, l) <=> IsRun(t, level, a, l)
    OBVIOUS
  <2>1. \A i \in a .. a + l - 1 : u[i] = t[i] BY <1>3
  <2>2. a \in 1 .. Len(u) /\ a + l - 1 <= Len(u) /\ a \in 1 .. Len(t) BY <1>2, <1>3
  <2> QED BY <1>2, <2>1, <2>2 DEF IsRun
<1>9. PICK w : w = Larger(m, n1) OBVIOUS
<1>10. w \in 0 .. k + 1 /\ m <= w /\ n1 <= w /\ (w = m \/ w = n1)
  BY <1>5, <1>6, <1>9 DEF Larger
<1>11. w = 0 \/ \E a \in 1 .. Len(u) : IsRun(u, level, a, w)
  <2>1. CASE w = m /\ m # 0
    <3>1. PICK a \in 1 .. k : IsRun(t, level, a, m) BY <1>5, <2>1
    <3>2. a + m - 1 <= k BY <1>2, <3>1 DEF IsRun
    <3>3. IsRun(u, level, a, m) BY <1>5, <1>8, <3>1, <3>2
    <3> QED BY <1>3, <2>1, <3>3
  <2>2. CASE w = n1 /\ n1 # 0
    <3>1. PICK a \in 1 .. k + 1 : a = k + 1 - n1 + 1 BY <1>6, <2>2
    <3>2. a + n1 - 1 = k + 1 BY <1>6, <3>1
    <3>3. \A i \in a .. k + 1 : Classify(u[i]) = level BY <1>3, <1>7, <3>1 DEF EndsWith
    <3>4. IsRun(u, level, a, n1) BY <1>3, <3>2, <3>3 DEF IsRun
    <3> QED BY <1>3, <2>2, <3>4
  <2> QED BY <1>10, <2>1, <2>2
<1>12. ASSUME NEW l \in Nat, NEW a \in 1 .. Len(u), IsRun(u, level, a, l) PROVE l <= w
  <2>1. a \in 1 .. k + 1 /\ a + l - 1 <= k + 1 BY <1>3, <1>12 DEF IsRun
  <2>2. CASE l = 0 BY <1>10, <2>2
  <2>3. CASE l # 0 /\ a + l - 1 <= k
    <3>1. a \in 1 .. k BY <2>1, <2>3
    <3>2. IsRun(t, level, a, l) BY <1>8, <1>12, <2>3, <3>1
    <3>3. l <= m BY <1>5, <3>1, <3>2
    <3> QED BY <1>5, <1>10, <3>3
  <2>4. CASE l # 0 /\ a + l - 1 = k + 1
    <3>1. \A i \in a .. k + 1 : Classify(u[i]) = level BY <1>12, <2>4 DEF IsRun
    <3>2. Classify(b) = level BY <1>3, <2>1, <3>1
    <3>3. n1 = n + 1 BY <3>2
    <3>4. ASSUME l > n + 1 PROVE FALSE
      <4>1. n # k /\ k - n \in a .. k + 1 /\ k - n \in 1 .. k BY <1>4, <2>1, <2>4, <3>4
      <4>2. Classify(u[k - n]) = level BY <3>1, <4>1
      <4> QED BY <1>3, <1>4, <4>1, <4>2
    <3> QED BY <1>4, <1>10, <3>3, <3>4
  <2> QED BY <2>1, <2>2, <2>3, <2>4
<1>13. LongestIs(u, level, w) BY <1>3, <1>10, <1>11, <1>12 DEF LongestIs
<1> QED BY <1>1, <1>6, <1>7, <1>9, <1>10, <1>13

LEMMA EdgesAreFinite ==
  ASSUME NEW t \in Seq(Bytes), NEW from, NEW to
  PROVE  IsFiniteSet(EdgesOf(t, from, to)) /\ Cardinality(EdgesOf(t, from, to)) \in Nat
<1>1. Len(t) \in Nat /\ DOMAIN t = 1 .. Len(t) OBVIOUS
<1>2. IsFiniteSet(1 .. Len(t)) BY <1>1, FS_Interval
<1>3. EdgesOf(t, from, to) \in SUBSET (1 .. Len(t)) BY <1>1 DEF EdgesOf
<1> QED BY <1>2, <1>3, FS_Subset, FS_CardinalityType

LEMMA OneEdgeMore ==
  ASSUME NEW t \in Seq(Bytes), NEW b \in Bytes, NEW from \in LevelNames, NEW to \in LevelNames
  PROVE  Cardinality(EdgesOf(Append(t, b), from, to))
           = Cardinality(EdgesOf(t, from, to))
               + IF LastLevel(t) = from /\ Classify(b) = to THEN 1 ELSE 0
<1>1. PICK u : u = Append(t, b) OBVIOUS
<1>2. PICK k \in Nat : k = Len(t) OBVIOUS
<1>3. /\ u \in Seq(Bytes) /\ Len(u) = k + 1 /\ u[k + 1] = b /\ DOMAIN u = 1 .. k + 1
      /\ \A i \in 1 .. k : u[i] = t[i]
  BY <1>1, <1>2, AppendProperties
<1>4. DOMAIN t = 1 .. k /\ (t = <<>> <=> k = 0) BY <1>2
<1>5. 1 .. k + 1 = (1 .. k) \cup {k + 1} OBVIOUS
<1>6. k + 1 \in EdgesOf(u, from, to) <=> LastLevel(t) = from /\ Classify(b) = to
  <2>1. CASE k = 0 BY <1>3, <1>4, <2>1 DEF EdgesOf, LastLevel, LevelNames
  <2>2. CASE k # 0
    <3>1. k + 1 > 1 /\ k + 1 \in DOMAIN u /\ (k + 1) - 1 = k /\ k \in 1 .. k BY <1>3, <2>2
    <3>2. u[(k + 1) - 1] = t[Len(t)] BY <1>2, <1>3, <3>1
    <3>3. LastLevel(t) = Classify(t[Len(t)]) BY <1>4, <2>2 DEF LastLevel
    <3> QED BY <1>3, <3>1, <3>2, <3>3 DEF EdgesOf
  <2> QED BY <2>1, <2>2
<1>7. \A i \in 1 .. k : i \in EdgesOf(u, from, to) <=> i \in EdgesOf(t, from, to)
  <2> SUFFICES ASSUME NEW i \in 1 .. k, i > 1
               PROVE  u[i] = t[i] /\ u[i - 1] = t[i - 1]
    BY <1>3, <1>4 DEF EdgesOf
  <2> QED BY <1>3
<1>8. EdgesOf(t, from, to) \subseteq 1 .. k /\ EdgesOf(u, from, to) \subseteq 1 .. k + 1
  BY <1>3, <1>4 DEF EdgesOf
<1>9. k + 1 \notin EdgesOf(t, from, to) BY <1>8
<1>10. IsFiniteSet(EdgesOf(t, from, to)) /\ Cardinality(EdgesOf(t, from, to)) \in Nat
  BY EdgesAreFinite
<1>11. CASE k + 1 \in EdgesOf(u, from, to)
  <2>1. EdgesOf(u, from, to) = EdgesOf(t, from, to) \cup {k + 1} BY <1>5, <1>7, <1>8, <1>11
  <2>2. Cardinality(EdgesOf(t, from, to) \cup {k + 1}) = Cardinality(EdgesOf(t, from, to)) + 1
    BY <1>9, <1>10, FS_AddElement
  <2> QED BY <1>1, <1>6, <1>11, <2>1, <2>2
<1>12. CASE k + 1 \notin EdgesOf(u, from, to)
  <2>1. EdgesOf(u, from, to) = EdgesOf(t, from, to) BY <1>5, <1>7, <1>8, <1>12
  <2> QED BY <1>1, <1>6, <1>10, <1>12, <2>1
<1> QED BY <1>11, <1>12

LEMMA SampleStep ==
  ASSUME NEW t \in Seq(Bytes), NEW b \in Bytes, NEW f, FlowOf(t, f)
  PROVE  FlowOf(Append(t, b), Sample(f, b))
<1> DEFINE level == Classify(b)
           high == IF level = "high" THEN f.high + 1 ELSE 0
           low  == IF level = "low" THEN f.low + 1 ELSE 0
           up   == IF f.prev = "low" /\ level = "high" THEN 1 ELSE 0
           fall == IF f.prev = "high" /\ level = "low" THEN 1 ELSE 0
<1>1. PICK s : s = Sample(f, b) OBVIOUS
<1>2. s = [prev |-> level, high |-> high, low |-> low,
           longestHigh |-> Larger(f.longestHigh, high), longestLow |-> Larger(f.longestLow, low),
           rising |-> f.rising + up, falling |-> f.falling + fall]
  BY <1>1, Zenon DEF Sample
<1>3. f \in Flows /\ f.prev = LastLevel(t) BY DEF FlowOf
<1>4. level \in LevelNames BY DEF Classify, LevelNames
<1>5. up \in Nat /\ fall \in Nat OBVIOUS
<1>6. Append(t, b) \in Seq(Bytes) /\ Append(t, b) # <<>>
      /\ Append(t, b)[Len(Append(t, b))] = b
  OBVIOUS
<1>7. LastLevel(Append(t, b)) = level BY <1>6 DEF LastLevel
<1>8. /\ EndsWith(Append(t, b), "high", high) /\ high \in Nat
      /\ LongestIs(Append(t, b), "high", Larger(f.longestHigh, high))
      /\ Larger(f.longestHigh, high) \in Nat
  <2>1. EndsWith(t, "high", f.high) /\ LongestIs(t, "high", f.longestHigh) BY DEF FlowOf
  <2>2. PICK n : n = high OBVIOUS
  <2> QED BY <2>1, <2>2, OneLevelMore
<1>9. /\ EndsWith(Append(t, b), "low", low) /\ low \in Nat
      /\ LongestIs(Append(t, b), "low", Larger(f.longestLow, low))
      /\ Larger(f.longestLow, low) \in Nat
  <2>1. EndsWith(t, "low", f.low) /\ LongestIs(t, "low", f.longestLow) BY DEF FlowOf
  <2>2. PICK n : n = low OBVIOUS
  <2> QED BY <2>1, <2>2, OneLevelMore
<1>10. f.rising + up = Cardinality(EdgesOf(Append(t, b), "low", "high"))
  <2>1. "low" \in LevelNames /\ "high" \in LevelNames BY DEF LevelNames
  <2>2. f.rising = Cardinality(EdgesOf(t, "low", "high")) BY DEF FlowOf
  <2>3. Cardinality(EdgesOf(Append(t, b), "low", "high")) = Cardinality(EdgesOf(t, "low", "high")) + up
    BY <1>3, <2>1, OneEdgeMore
  <2> QED BY <2>2, <2>3
<1>11. f.falling + fall = Cardinality(EdgesOf(Append(t, b), "high", "low"))
  <2>1. "low" \in LevelNames /\ "high" \in LevelNames BY DEF LevelNames
  <2>2. f.falling = Cardinality(EdgesOf(t, "high", "low")) BY DEF FlowOf
  <2>3. Cardinality(EdgesOf(Append(t, b), "high", "low")) = Cardinality(EdgesOf(t, "high", "low")) + fall
    BY <1>3, <2>1, OneEdgeMore
  <2> QED BY <2>2, <2>3
<1> HIDE DEF level, high, low, up, fall
<1>12. f.rising + up \in Nat /\ f.falling + fall \in Nat BY <1>3, <1>5 DEF Flows
<1>13. s \in Flows BY <1>2, <1>4, <1>8, <1>9, <1>12 DEF Flows
<1>14. /\ s.prev = level /\ s.high = high /\ s.low = low
       /\ s.longestHigh = Larger(f.longestHigh, high) /\ s.longestLow = Larger(f.longestLow, low)
       /\ s.rising = f.rising + up /\ s.falling = f.falling + fall
  BY <1>2
<1> QED BY <1>1, <1>7, <1>8, <1>9, <1>10, <1>11, <1>13, <1>14, Zenon DEF FlowOf
\* The loop over a piece carries the state over to it.
LEMMA PieceStep ==
  ASSUME NEW data \in Seq(Bytes), trace \in Seq(Bytes), FlowOf(trace, flow)
  PROVE  FlowOf(trace \o data, CountTransitions(data))
<1> DEFINE B        == [i \in Nat |-> IF i \in 1 .. Len(data) THEN data[i] ELSE 0]
           H        == [q \in Nat \X Flows |-> Sample(q[2], B[q[1]])]
           Named(g) == g = [i \in 0 .. Len(data) |->
                              IF i = 0 THEN flow ELSE Sample(g[i - 1], data[i])]
           first(i) == trace \o SubSeq(data, 1, i)
<1>1. Len(data) \in Nat /\ flow \in Flows BY DEF FlowOf
<1>2. CountTransitions(data) = (CHOOSE g : Named(g))[Len(data)] BY DEF CountTransitions
<1>3. \A f \in Flows : \A v : Sample(f, v) \in Flows
  <2> SUFFICES ASSUME NEW f \in Flows, NEW v PROVE Sample(f, v) \in Flows OBVIOUS
  <2>1. Classify(v) \in LevelNames BY DEF Classify, LevelNames
  <2>2. \A a, b \in Nat : Larger(a, b) \in Nat BY DEF Larger
  <2>3. PICK l : l = Classify(v) OBVIOUS
  <2>4. PICK high \in Nat : high = IF l = "high" THEN f.high + 1 ELSE 0 BY DEF Flows
  <2>5. PICK low \in Nat : low = IF l = "low" THEN f.low + 1 ELSE 0 BY DEF Flows
  <2>6. PICK up \in Nat : up = f.rising + IF f.prev = "low" /\ l = "high" THEN 1 ELSE 0
    BY DEF Flows
  <2>7. PICK fall \in Nat : fall = f.falling + IF f.prev = "high" /\ l = "low" THEN 1 ELSE 0
    BY DEF Flows
  <2>8. Sample(f, v) = [prev |-> l, high |-> high, low |-> low,
                        longestHigh |-> Larger(f.longestHigh, high),
                        longestLow |-> Larger(f.longestLow, low),
                        rising |-> up, falling |-> fall]
    BY <2>3, <2>4, <2>5, <2>6, <2>7, Zenon DEF Sample
  <2>9. Larger(f.longestHigh, high) \in Nat /\ Larger(f.longestLow, low) \in Nat
    BY <2>2 DEF Flows
  <2> QED BY <2>1, <2>3, <2>8, <2>9 DEF Flows
<1>4. H \in [Nat \X Flows -> Flows] BY <1>3
<1>5. PICK g \in [0 .. Len(data) -> Flows] : IsRecursive(g, flow, H, Len(data))
  <2> HIDE DEF H
  <2> QED BY <1>1, <1>4, RecursionExists
<1>6. \A i \in 1 .. Len(data) : H[<<i, g[i - 1]>>] = Sample(g[i - 1], data[i])
  <2> SUFFICES ASSUME NEW i \in 1 .. Len(data)
               PROVE  H[<<i, g[i - 1]>>] = Sample(g[i - 1], data[i])
    OBVIOUS
  <2>1. i \in Nat /\ i - 1 \in 0 .. Len(data) BY <1>1
  <2>2. <<i, g[i - 1]>> \in Nat \X Flows BY <2>1
  <2>3. B[i] = data[i] BY <2>1
  <2> HIDE DEF B
  <2> QED BY <2>2, <2>3
<1> HIDE DEF H
<1>7. Named(g)
  <2>1. g = [i \in 0 .. Len(data) |-> g[i]] BY <1>5
  <2>2. \A i \in 0 .. Len(data) : g[i] = IF i = 0 THEN flow ELSE H[<<i, g[i - 1]>>]
    BY <1>5 DEF IsRecursive
  <2>3. \A i \in 0 .. Len(data) : i = 0 \/ i \in 1 .. Len(data) BY <1>1
  <2>4. \A i \in 0 .. Len(data) : g[i] = IF i = 0 THEN flow ELSE Sample(g[i - 1], data[i])
    BY <1>6, <2>2, <2>3, Zenon
  <2> QED BY <2>1, <2>4, Zenon
<1>8. PICK f : f = CHOOSE h : Named(h) OBVIOUS
<1>9. Named(f) BY <1>7, <1>8
<1>10. f[0] = flow /\ \A i \in 1 .. Len(data) : f[i] = Sample(f[i - 1], data[i]) BY <1>1, <1>9
<1> HIDE DEF Named
<1> DEFINE S == {i \in Nat : i <= Len(data) => FlowOf(first(i), f[i])}
<1>11. 0 \in S
  <2>1. first(0) = trace BY Whole
  <2> HIDE DEF first
  <2>2. FlowOf(first(0), f[0]) BY <1>10, <2>1, Zenon
  <2> QED BY <2>2
<1>12. ASSUME NEW i \in S PROVE i + 1 \in S
  <2> SUFFICES ASSUME i + 1 <= Len(data) PROVE FlowOf(first(i + 1), f[i + 1]) OBVIOUS
  <2>1. i \in Nat /\ i <= Len(data) /\ i + 1 \in 1 .. Len(data) /\ (i + 1) - 1 = i BY <1>1
  <2>2. FlowOf(first(i), f[i]) BY <2>1
  <2>3. first(i) \in Seq(Bytes) /\ data[i + 1] \in Bytes
        /\ first(i + 1) = Append(first(i), data[i + 1])
    BY <2>1, OneMore
  <2>4. f[i + 1] = Sample(f[i], data[i + 1])
    <3>1. f[i + 1] = Sample(f[(i + 1) - 1], data[i + 1]) BY <1>10, <2>1
    <3> QED BY <2>1, <3>1
  <2> HIDE DEF first
  <2>5. FlowOf(Append(first(i), data[i + 1]), Sample(f[i], data[i + 1]))
    BY <2>2, <2>3, SampleStep
  <2> QED BY <2>3, <2>4, <2>5, Zenon
<1>13. S \in SUBSET Nat OBVIOUS
<1> HIDE DEF S
<1>14. S = Nat BY <1>11, <1>12, <1>13, NatInduct
<1>15. FlowOf(first(Len(data)), f[Len(data)]) BY <1>1, <1>14 DEF S
<1>16. first(Len(data)) = trace \o data
  <2>1. SubSeq(data, 1, Len(data)) = data BY Whole
  <2> QED BY <2>1, Zenon
<1> HIDE DEF first
<1> QED BY <1>2, <1>8, <1>15, <1>16, Zenon

FlowInv == CountInv /\ FlowOf(trace, flow)

LEMMA NoFlowIsEmpty == FlowOf(<<>>, NoFlow)
<1>1. \A from, to : EdgesOf(<<>>, from, to) = {} BY DEF EdgesOf
<1>2. Cardinality({}) = 0 BY FS_EmptySet
<1>3. NoFlow \in Flows BY DEF NoFlow, Flows
<1>4. \A level : EndsWith(<<>>, level, 0) /\ LongestIs(<<>>, level, 0)
  BY DEF EndsWith, LongestIs, IsRun
<1>5. LastLevel(<<>>) = "none" BY DEF LastLevel
<1>6. /\ NoFlow.prev = "none" /\ NoFlow.high = 0 /\ NoFlow.low = 0 /\ NoFlow.longestHigh = 0
      /\ NoFlow.longestLow = 0 /\ NoFlow.rising = 0 /\ NoFlow.falling = 0
  BY DEF NoFlow
<1> QED BY <1>1, <1>2, <1>3, <1>4, <1>5, <1>6 DEF FlowOf

LEMMA FlowInit == Init => FlowInv
BY CountInit, NoFlowIsEmpty DEF Init, FlowInv

LEMMA FlowStep == ASSUME FlowInv, [Next]_vars PROVE FlowInv'
<1>1. CountInv' BY CountStep DEF FlowInv
<1>2. ASSUME NEW data \in Pieces, Ingest(data) PROVE FlowOf(trace, flow)'
  <2>1. data \in Seq(Bytes) BY PiecesAreBytes
  <2>2. trace' = trace \o data /\ flow' = CountTransitions(data) BY <1>2 DEF Ingest
  <2>3. trace \in Seq(Bytes) /\ FlowOf(trace, flow) BY DEF FlowInv, CountInv
  <2>4. FlowOf(trace \o data, CountTransitions(data)) BY <2>1, <2>3, PieceStep
  <2>5. PICK t, f : t = trace \o data /\ f = CountTransitions(data) OBVIOUS
  <2>6. FlowOf(t, f) /\ trace' = t /\ flow' = f BY <2>2, <2>4, <2>5, Zenon
  <2> QED BY <2>6
<1>3. ASSUME ResetAnalyzer PROVE FlowOf(trace, flow)'
  <2>1. trace' = <<>> /\ flow' = NoFlow BY <1>3 DEF ResetAnalyzer
  <2> QED BY <2>1, NoFlowIsEmpty
<1>4. ASSUME UNCHANGED analyzerVars PROVE FlowOf(trace, flow)'
  <2>1. trace' = trace /\ flow' = flow /\ FlowOf(trace, flow) BY <1>4 DEF analyzerVars, FlowInv
  <2> QED BY <2>1
<1>5. FlowOf(trace, flow)'
  BY <1>2, <1>3, <1>4 DEF Next, AnalyzerNext, vars, analyzerVars
<1> QED BY <1>1, <1>5 DEF FlowInv

LEMMA LongestOfTrace ==
  ASSUME trace \in Seq(Bytes), NEW level, NEW n, LongestIs(trace, level, n)
  PROVE  Longest(level) = n
<1>1. PICK k \in Nat : k = Len(trace) /\ DOMAIN trace = 1 .. k OBVIOUS
<1>2. \A m \in 1 .. k, b \in 1 .. k : b + m - 1 \in 1 .. k <=> b + m - 1 <= k OBVIOUS
<1>3. Streaks(level) = {m \in 1 .. k : \E b \in 1 .. k : IsRun(trace, level, b, m)}
  <2>1. ASSUME NEW m \in 1 .. k, NEW b \in 1 .. k
        PROVE  (/\ b + m - 1 \in 1 .. k
                /\ b <= b + m - 1
                /\ \A i \in b .. b + m - 1 : Classify(trace[i]) = level)
               <=> IsRun(trace, level, b, m)
    BY <1>1 DEF IsRun
  <2> QED BY <1>1, <2>1 DEF Streaks
<1>4. /\ n \in 0 .. k /\ (n = 0 \/ \E b \in 1 .. k : IsRun(trace, level, b, n))
      /\ \A m \in Nat, b \in 1 .. k : IsRun(trace, level, b, m) => m <= n
  BY <1>1 DEF LongestIs
<1>5. CASE Streaks(level) = {}
  <2>1. n = 0 BY <1>3, <1>4, <1>5
  <2> QED BY <1>5, <2>1 DEF Longest
<1>6. CASE Streaks(level) # {}
  <2>1. PICK m \in Streaks(level) : TRUE BY <1>6
  <2>2. m \in Nat /\ m >= 1 /\ m <= n BY <1>3, <1>4, <2>1
  <2>3. n \in Streaks(level) BY <1>3, <1>4, <2>2
  <2>4. \A l \in Streaks(level) : l \in Nat /\ l <= n BY <1>3, <1>4
  <2>5. PICK c : c = CHOOSE l \in Streaks(level) : \A j \in Streaks(level) : j <= l OBVIOUS
  <2>6. c \in Streaks(level) /\ \A j \in Streaks(level) : j <= c BY <2>3, <2>4, <2>5
  <2>7. c \in Nat /\ n \in Nat /\ c <= n /\ n <= c BY <2>3, <2>4, <2>6
  <2>8. c = n BY <2>7
  <2> QED BY <1>6, <2>5, <2>8 DEF Longest
<1> QED BY <1>5, <1>6

\* The statistics are those of the whole trace, for every cut of it in pieces
\* and any number of samples counted at once (PulseFlowAnalyzer::ingest).
THEOREM StatsAreAlwaysOfTheWholeTrace == Spec => []StatsAreOfTheWholeTrace
<1>1. ASSUME FlowInv PROVE StatsAreOfTheWholeTrace
  <2>1. CountInv /\ FlowOf(trace, flow) BY <1>1 DEF FlowInv
  <2>2. /\ trace \in Seq(Bytes) /\ counts.samples = Len(trace)
        /\ counts.high = Among(trace, Level("high"))
        /\ counts.uncertain = Among(trace, Level("uncertain"))
    BY <2>1 DEF CountInv
  <2>3. \A level : Cardinality({i \in DOMAIN trace : Classify(trace[i]) = level})
                     = Among(trace, Level(level))
    BY <2>2, CountIs DEF HowMany
  <2>4. LowCount = Among(trace, Level("low"))
    <3>1. PICK H, U, L : H = Level("high") /\ U = Level("uncertain") /\ L = Level("low") OBVIOUS
    <3>2. /\ Odd = H \cup U /\ H \cap U = {} /\ Bytes = Odd \cup L /\ Odd \cap L = {}
      BY <3>1, Levels, Zenon
    <3>. DEFINE adds(V, W) == Among(trace, V \cup W) = Among(trace, V) + Among(trace, W)
    <3>3. \A V, W : V \cap W = {} => adds(V, W)
      <4>1. trace \in Seq(Bytes) BY <2>2
      <4> QED BY <4>1, AmongUnion
    <3>4. adds(H, U) /\ adds(Odd, L) BY <3>2, <3>3, Zenon
    <3>5. Among(trace, Bytes) = Len(trace)
      <4>1. {i \in DOMAIN trace : trace[i] \in Bytes} = 1 .. Len(trace) BY <2>2
      <4>2. Len(trace) \in Nat BY <2>2
      <4>3. Cardinality(1 .. Len(trace)) = Len(trace)
        <5>1. Cardinality(1 .. Len(trace)) = IF 1 > Len(trace) THEN 0 ELSE Len(trace) - 1 + 1
          BY <4>2, FS_Interval
        <5> QED BY <4>2, <5>1
      <4> QED BY <4>1, <4>3, Zenon DEF Among
    <3>6. Among(trace, H) \in Nat /\ Among(trace, U) \in Nat /\ Among(trace, L) \in Nat
      BY <2>2, AmongType
    <3>7. Len(trace) = Among(trace, H) + Among(trace, U) + Among(trace, L)
      <4>1. Among(trace, Odd) = Among(trace, H) + Among(trace, U) BY <3>2, <3>4, Zenon
      <4>2. Len(trace) = Among(trace, Odd) + Among(trace, L) BY <3>2, <3>4, <3>5, Zenon
      <4> QED BY <3>6, <4>1, <4>2
    <3>8. LowCount = Len(trace) - Among(trace, H) - Among(trace, U)
      BY <2>2, <3>1, Zenon DEF LowCount
    <3>9. LowCount = Among(trace, L) BY <3>6, <3>7, <3>8
    <3> QED BY <3>1, <3>9
  <2>5. flow.longestHigh = Longest("high") /\ flow.longestLow = Longest("low")
    BY <2>1, <2>2, LongestOfTrace DEF FlowOf
  <2>6. flow.rising = Edges("low", "high") /\ flow.falling = Edges("high", "low")
    BY <2>1, Zenon DEF FlowOf, Edges, EdgesOf
  <2>7. ASSUME NEW l \in {<<"high", counts.high>>, <<"uncertain", counts.uncertain>>,
                          <<"low", LowCount>>}
        PROVE  l[2] = Cardinality({i \in DOMAIN trace : Classify(trace[i]) = l[1]})
    <3>1. l[2] = Among(trace, Level(l[1])) BY <2>2, <2>4
    <3> QED BY <2>3, <3>1, Zenon
  <2> QED BY <2>2, <2>5, <2>6, <2>7, Zenon DEF StatsAreOfTheWholeTrace
<1> QED BY <1>1, FlowInit, FlowStep, PTL DEF Spec
===============================================================================
