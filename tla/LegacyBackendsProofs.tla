-------------------------- MODULE LegacyBackendsProofs -------------------------
(***************************************************************************)
(* Proofs about LegacyBackends: what either backend prints is a beginning  *)
(* of what its compiler makes of the source and all of it at a halt, the   *)
(* bytecode machine never takes a byte of a text for an opcode, and on     *)
(* plain sources both implement PrintProgram.                              *)
(*                                                                         *)
(* Hypotheses.  ShortTexts: a text is shorter than 2^32, so that its       *)
(* length is what the four bytes of it say.  ImageFits: code and messages  *)
(* fit the signed 32 bits of a displacement.  Beyond them the code does    *)
(* go wrong, silently.                                                     *)
(*                                                                         *)
(* The argument.  A compiler appends, line by line, a piece to what it     *)
(* has; UpTo(p)[k] is what the first k pieces make, which turns FlattenSeq *)
(* into a recurrence an invariant can follow.                              *)
(*   Native: the writes are UpTo of the lines read.  Each write, until it  *)
(*   is patched, lies where the code sizes of those before it put it, and  *)
(*   its messages stay in rodata; so the patched displacement reaches its  *)
(*   message, and the executable prints the writes in order.               *)
(*   Bytecode: the bytes are the magic and UpTo of the codes of the lines  *)
(*   read.  The file is a beginning of them.  The machine is always before *)
(*   the code of some reached line (AtPiece) or between the load and the   *)
(*   store of one (InStore), and has printed what the lines before it say; *)
(*   the bytes there are those of that code, as far as the file goes.      *)
(***************************************************************************)
EXTENDS LegacyBackends, FiniteSetTheorems, SequenceTheorems, TLAPS

------------------------------------------------------------------------------
\* Induction over the naturals

\* A set of naturals has a least element.
LEMMA LeastElement ==
  ASSUME NEW T \in SUBSET Nat, T # {}
  PROVE  \E n \in T : \A m \in T : n <= m
<1> DEFINE R == StrictSubsetOrdering(Nat)
           U == {0 .. m : m \in T}
<1>1. U \subseteq FiniteSubsetsOf(Nat) /\ U # {}
  <2>1. \A m \in Nat : IsFiniteSet(0 .. m) BY FS_Interval
  <2>2. \A m \in Nat : 0 .. m \in SUBSET Nat OBVIOUS
  <2>3. \A m \in Nat : 0 .. m \in FiniteSubsetsOf(Nat) BY <2>1, <2>2 DEF FiniteSubsetsOf
  <2> QED BY <2>3
<1>2. \E x \in U : \A y \in U : <<y, x>> \notin R
  <2>1. IsWellFoundedOn(R, FiniteSubsetsOf(Nat)) BY FS_StrictSubsetOrderingWellFounded
  <2> HIDE DEF R, U
  <2> QED BY <2>1, <1>1, WFMin
<1>3. PICK n \in T : \A m \in T : <<0 .. m, 0 .. n>> \notin R BY <1>2
<1>4. ASSUME NEW m \in T, m < n PROVE FALSE
  <2>1. 0 .. m \subseteq 0 .. n /\ 0 .. m # 0 .. n
    <3>1. n \in 0 .. n /\ n \notin 0 .. m BY <1>4
    <3> QED BY <3>1, <1>4
  <2>2. 0 .. m \in SUBSET Nat /\ 0 .. n \in SUBSET Nat OBVIOUS
  <2>3. <<0 .. m, 0 .. n>> \in StrictSubsetOrdering(Nat)
    BY <2>1, <2>2, Zenon DEF StrictSubsetOrdering
  <2> QED BY <2>3, <1>3
<1> QED BY <1>4

LEMMA NatInduct ==
  ASSUME NEW S \in SUBSET Nat, 0 \in S, \A n \in S : n + 1 \in S
  PROVE  S = Nat
<1>1. ASSUME S # Nat PROVE FALSE
  <2>1. PICK n \in Nat \ S : \A m \in Nat \ S : n <= m
    <3>1. Nat \ S \in SUBSET Nat /\ Nat \ S # {} BY <1>1
    <3> QED BY <3>1, LeastElement
  <2>2. n # 0 /\ n - 1 \in Nat /\ n - 1 < n BY <2>1
  <2>3. n - 1 \in S BY <2>1, <2>2
  <2> QED BY <2>1, <2>2, <2>3
<1> QED BY <1>1

\* Of some numbers up to n there is a largest.
LEMMA LargestElement ==
  ASSUME NEW n \in Nat, NEW T \in SUBSET (0 .. n), T # {}
  PROVE  \E k \in T : \A m \in T : m <= k
<1> DEFINE U == {n - m : m \in T}
<1>1. U \in SUBSET Nat /\ U # {}
  <2>1. \A m \in T : n - m \in Nat OBVIOUS
  <2>2. U \subseteq Nat BY <2>1
  <2> QED BY <2>2
<1>2. PICK u \in U : \A m \in U : u <= m BY <1>1, LeastElement
<1>3. PICK k \in T : u = n - k BY <1>2
<1>4. ASSUME NEW m \in T PROVE m <= k
  <2>1. n - k <= n - m BY <1>2, <1>3
  <2>2. m \in Int /\ k \in Int BY <1>4
  <2> QED BY <2>1, <2>2
<1> QED BY <1>4

------------------------------------------------------------------------------
\* Sequences of pieces put together

\* What the first pieces of p make, for every number of them.
IsUpTo(g, p, n) == g = [k \in 0 .. n |-> IF k = 0 THEN <<>> ELSE g[k - 1] \o p[k]]
UpTo(p) ==
  LET made[k \in 0 .. Len(p)] == IF k = 0 THEN <<>> ELSE made[k - 1] \o p[k] IN made

LEMMA UpToExists ==
  ASSUME NEW S, NEW p \in Seq(Seq(S)), NEW n \in 0 .. Len(p)
  PROVE  \E g \in [0 .. n -> Seq(S)] : IsUpTo(g, p, n)
<1> DEFINE T == {m \in Nat : m <= Len(p) => \E g \in [0 .. m -> Seq(S)] : IsUpTo(g, p, m)}
<1>1. Len(p) \in Nat OBVIOUS
<1>2. 0 \in T
  <2> DEFINE g == [k \in 0 .. 0 |-> <<>>]
  <2>1. g \in [0 .. 0 -> Seq(S)] BY EmptySeq
  <2>2. IsUpTo(g, p, 0) BY DEF IsUpTo
  <2> QED BY <2>1, <2>2
<1>3. ASSUME NEW m \in T, m + 1 <= Len(p)
      PROVE  \E h \in [0 .. m + 1 -> Seq(S)] : IsUpTo(h, p, m + 1)
  <2>1. m \in Nat /\ m <= Len(p) BY <1>1, <1>3
  <2>2. PICK g \in [0 .. m -> Seq(S)] : IsUpTo(g, p, m) BY <2>1
  <2>3. p[m + 1] \in Seq(S) /\ g[m] \in Seq(S)
    <3>1. m + 1 \in 1 .. Len(p) /\ m \in 0 .. m BY <1>1, <1>3, <2>1
    <3> QED BY <2>2, <3>1, ElementOfSeq
  <2> DEFINE new == g[m] \o p[m + 1]
             h == [k \in 0 .. m + 1 |-> IF k = m + 1 THEN new ELSE g[k]]
  <2>4. new \in Seq(S) BY <2>3, ConcatProperties
  <2> HIDE DEF new
  <2>5. h \in [0 .. m + 1 -> Seq(S)] BY <2>1, <2>2, <2>4
  <2>6. h[m + 1] = new /\ \A k \in 0 .. m : h[k] = g[k] BY <2>1
  <2>7. h = [k \in 0 .. m + 1 |-> h[k]] OBVIOUS
  <2> HIDE DEF h
  <2>8. \A k \in 0 .. m : g[k] = IF k = 0 THEN <<>> ELSE g[k - 1] \o p[k]
    BY <2>2 DEF IsUpTo
  <2>9. ASSUME NEW k \in 0 .. m + 1
        PROVE  h[k] = IF k = 0 THEN <<>> ELSE h[k - 1] \o p[k]
    <3>1. CASE k = m + 1
      <4>1. k # 0 /\ k - 1 = m /\ m \in 0 .. m BY <2>1, <3>1
      <4>2. h[k - 1] = g[m] BY <2>6, <4>1
      <4> QED BY <2>6, <3>1, <4>1, <4>2 DEF new
    <3>2. CASE k # m + 1 /\ k # 0
      <4>1. k \in 0 .. m /\ k - 1 \in 0 .. m BY <2>1, <3>2
      <4>2. h[k] = g[k] /\ h[k - 1] = g[k - 1] BY <2>6, <4>1
      <4> QED BY <2>8, <3>2, <4>1, <4>2
    <3>3. CASE k # m + 1 /\ k = 0
      <4>1. k \in 0 .. m BY <2>1, <3>3
      <4> QED BY <2>6, <2>8, <3>3, <4>1
    <3> QED BY <3>1, <3>2, <3>3
  <2>10. IsUpTo(h, p, m + 1)
    <3>1. [k \in 0 .. m + 1 |-> h[k]]
            = [k \in 0 .. m + 1 |-> IF k = 0 THEN <<>> ELSE h[k - 1] \o p[k]]
      BY <2>9
    <3> QED BY <2>7, <3>1, Zenon DEF IsUpTo
  <2> QED BY <2>5, <2>10
<1>4. ASSUME NEW m \in T PROVE m + 1 \in T
  <2>1. m + 1 \in Nat BY <1>4
  <2> QED BY <1>3, <2>1
<1>5. T \in SUBSET Nat OBVIOUS
<1> HIDE DEF T
<1>6. T = Nat BY <1>2, <1>4, <1>5, NatInduct
<1> QED BY <1>1, <1>6 DEF T

LEMMA UpToFacts ==
  ASSUME NEW S, NEW p \in Seq(Seq(S))
  PROVE  /\ Len(p) \in Nat
         /\ UpTo(p)[0] = <<>>
         /\ \A k \in 0 .. Len(p) : UpTo(p)[k] \in Seq(S)
         /\ \A k \in 1 .. Len(p) : p[k] \in Seq(S) /\ UpTo(p)[k] = UpTo(p)[k - 1] \o p[k]
<1>1. Len(p) \in Nat /\ Len(p) \in 0 .. Len(p) /\ 0 \in 0 .. Len(p) OBVIOUS
<1>2. PICK n : n = Len(p) OBVIOUS
<1>3. \E g : IsUpTo(g, p, n)
  BY <1>1, <1>2, UpToExists
<1>4. PICK u : u = UpTo(p) OBVIOUS
<1>5. IsUpTo(u, p, n)
  <2>1. u = CHOOSE g : IsUpTo(g, p, n) BY <1>2, <1>4, Zenon DEF UpTo, IsUpTo
  <2> QED BY <1>3, <2>1, Zenon
<1>6. \A k \in 0 .. n : u[k] = IF k = 0 THEN <<>> ELSE u[k - 1] \o p[k]
  BY <1>5 DEF IsUpTo
<1>7. \A k \in 1 .. n : p[k] \in Seq(S) BY <1>2, ElementOfSeq
<1>8. u[0] = <<>> BY <1>1, <1>2, <1>6
<1>9. \A k \in 1 .. n : u[k] = u[k - 1] \o p[k]
  <2> SUFFICES ASSUME NEW k \in 1 .. n PROVE u[k] = u[k - 1] \o p[k] OBVIOUS
  <2>1. k \in 0 .. n /\ k # 0 BY <1>1, <1>2
  <2> QED BY <1>6, <2>1
<1> DEFINE T == {k \in Nat : k <= n => u[k] \in Seq(S)}
<1>10. 0 \in T BY <1>8, EmptySeq
<1>11. ASSUME NEW k \in T PROVE k + 1 \in T
  <2> SUFFICES ASSUME k + 1 <= n PROVE u[k + 1] \in Seq(S) OBVIOUS
  <2>1. k + 1 \in 1 .. n /\ (k + 1) - 1 = k /\ k <= n BY <1>1, <1>2
  <2>2. u[k] \in Seq(S) /\ p[k + 1] \in Seq(S) BY <1>7, <1>11, <2>1
  <2>3. u[k + 1] = u[k] \o p[k + 1] BY <1>9, <2>1
  <2> QED BY <2>2, <2>3, ConcatProperties
<1>12. T \in SUBSET Nat OBVIOUS
<1> HIDE DEF T
<1>13. T = Nat BY <1>10, <1>11, <1>12, NatInduct
<1>14. \A k \in 0 .. n : u[k] \in Seq(S) BY <1>1, <1>2, <1>13 DEF T
<1> QED BY <1>1, <1>2, <1>4, <1>7, <1>8, <1>9, <1>14, Zenon

\* FlattenSeq makes what all the pieces make.
LEMMA FlattenIsUpTo ==
  ASSUME NEW S, NEW p \in Seq(Seq(S))
  PROVE  FlattenSeq(p) = UpTo(p)[Len(p)]
<1>1. PICK n, u : n = Len(p) /\ u = UpTo(p) OBVIOUS
<1>2. n \in Nat /\ u[0] = <<>> /\ (\A k \in 0 .. n : u[k] \in Seq(S))
      /\ \A k \in 1 .. n : p[k] \in Seq(S) /\ u[k] = u[k - 1] \o p[k]
  BY <1>1, UpToFacts, Zenon
<1>3. CASE n = 0
  <2>1. p = <<>> BY <1>1, <1>3, EmptySeq
  <2>2. FlattenSeq(p) = p BY <1>1, <1>3 DEF FlattenSeq
  <2> QED BY <1>1, <1>2, <1>3, <2>1, <2>2
<1>4. CASE n # 0
  <2> DEFINE IsFlat(f) == f = [i \in 1 .. n |-> IF i = 1 THEN p[i] ELSE f[i - 1] \o p[i]]
             g == [i \in 1 .. n |-> u[i]]
             flat == CHOOSE f : IsFlat(f)
  <2>1. u[1] = p[1]
    <3>1. 1 \in 1 .. n /\ 1 - 1 = 0 BY <1>2, <1>4
    <3>2. p[1] \in Seq(S) /\ u[1] = <<>> \o p[1] BY <1>2, <3>1
    <3> QED BY <3>2, ConcatEmptySeq
  <2>2. IsFlat(g)
    <3>1. ASSUME NEW i \in 1 .. n PROVE g[i] = IF i = 1 THEN p[i] ELSE g[i - 1] \o p[i]
      <4>1. CASE i = 1 BY <2>1, <4>1
      <4>2. CASE i # 1
        <5>1. i - 1 \in 1 .. n BY <1>2, <4>2
        <5> QED BY <1>2, <4>2, <5>1
      <4> QED BY <4>1, <4>2
    <3>2. g = [i \in 1 .. n |-> g[i]] OBVIOUS
    <3> HIDE DEF g
    <3> QED BY <3>1, <3>2
  <2>3. IsFlat(flat)
    <3>1. \E f : IsFlat(f) BY <2>2
    <3> HIDE DEF IsFlat
    <3> QED BY <3>1
  <2>4. FlattenSeq(p) = flat[n]
    BY <1>1, <1>4, Zenon DEF FlattenSeq
  <2>5. PICK f : f = flat OBVIOUS
  <2>6. IsFlat(f) BY <2>3, <2>5, Zenon
  <2>7. \A i \in 1 .. n : f[i] = IF i = 1 THEN p[i] ELSE f[i - 1] \o p[i] BY <2>6
  <2> HIDE DEF flat, g, IsFlat
  <2> DEFINE T == {k \in Nat : k + 1 <= n => f[k + 1] = u[k + 1]}
  <2>8. 0 \in T
    <3>1. 0 + 1 = 1 /\ 1 \in 1 .. n BY <1>2, <1>4
    <3> QED BY <2>1, <2>7, <3>1
  <2>9. ASSUME NEW k \in T PROVE k + 1 \in T
    <3> SUFFICES ASSUME (k + 1) + 1 <= n PROVE f[(k + 1) + 1] = u[(k + 1) + 1] OBVIOUS
    <3>1. PICK i \in 1 .. n : i = (k + 1) + 1 BY <1>2
    <3>2. i - 1 = k + 1 /\ i # 1 /\ k + 1 <= n BY <1>2, <3>1
    <3>3. f[k + 1] = u[k + 1] BY <2>9, <3>2
    <3>4. f[i] = f[i - 1] \o p[i] BY <2>7, <3>2
    <3>5. u[i] = u[i - 1] \o p[i] BY <1>2, <3>2
    <3> QED BY <3>1, <3>2, <3>3, <3>4, <3>5
  <2>10. T \in SUBSET Nat OBVIOUS
  <2> HIDE DEF T
  <2>11. T = Nat BY <2>8, <2>9, <2>10, NatInduct
  <2>12. n - 1 \in Nat /\ (n - 1) + 1 = n BY <1>2, <1>4
  <2>13. f[n] = u[n] BY <2>11, <2>12 DEF T
  <2> QED BY <1>1, <2>4, <2>5, <2>13
<1> QED BY <1>3, <1>4

\* More pieces make what fewer make, and then more.
LEMMA UpToGrows ==
  ASSUME NEW S, NEW p \in Seq(Seq(S)), NEW k \in 0 .. Len(p), NEW j \in 0 .. k
  PROVE  /\ Len(UpTo(p)[j]) <= Len(UpTo(p)[k])
         /\ \A i \in 1 .. Len(UpTo(p)[j]) : UpTo(p)[k][i] = UpTo(p)[j][i]
<1>1. PICK n, u : n = Len(p) /\ u = UpTo(p) OBVIOUS
<1>2. n \in Nat /\ (\A m \in 0 .. n : u[m] \in Seq(S))
      /\ \A m \in 1 .. n : p[m] \in Seq(S) /\ u[m] = u[m - 1] \o p[m]
  BY <1>1, UpToFacts, Zenon
<1> DEFINE T == {d \in Nat : j + d <= n => /\ Len(u[j]) <= Len(u[j + d])
                                           /\ \A i \in 1 .. Len(u[j]) : u[j + d][i] = u[j][i]}
<1>3. j \in Nat /\ k \in Nat /\ j <= k /\ k <= n BY <1>1, <1>2
<1>4. Len(u[j]) \in Nat
  <2>1. u[j] \in Seq(S) BY <1>2, <1>3
  <2> QED BY <2>1
<1>5. 0 \in T
  <2>1. j + 0 = j BY <1>3
  <2> QED BY <1>4, <2>1
<1>6. ASSUME NEW d \in T PROVE d + 1 \in T
  <2> SUFFICES ASSUME j + (d + 1) <= n
               PROVE  /\ Len(u[j]) <= Len(u[j + (d + 1)])
                      /\ \A i \in 1 .. Len(u[j]) : u[j + (d + 1)][i] = u[j][i]
    OBVIOUS
  <2>1. PICK m \in 1 .. n : m = j + (d + 1) BY <1>2, <1>3
  <2>2. m - 1 = j + d /\ m - 1 \in 0 .. n /\ j + d <= n BY <1>2, <1>3, <2>1
  <2>3. PICK a, b : a = u[m - 1] /\ b = p[m] OBVIOUS
  <2>4. a \in Seq(S) /\ b \in Seq(S) /\ u[m] = a \o b BY <1>2, <2>2, <2>3
  <2>5. Len(u[j]) <= Len(a) /\ \A i \in 1 .. Len(u[j]) : a[i] = u[j][i]
    BY <2>2, <2>3
  <2>6. Len(a) \in Nat /\ Len(b) \in Nat /\ Len(a \o b) = Len(a) + Len(b)
        /\ \A i \in 1 .. Len(a) + Len(b) : (a \o b)[i] = IF i <= Len(a) THEN a[i] ELSE b[i - Len(a)]
    BY <2>4, ConcatProperties, LenProperties
  <2>7. \A i \in 1 .. Len(u[j]) : (a \o b)[i] = a[i]
    <3> SUFFICES ASSUME NEW i \in 1 .. Len(u[j]) PROVE (a \o b)[i] = a[i] OBVIOUS
    <3>1. i \in 1 .. Len(a) + Len(b) /\ i <= Len(a) BY <1>4, <2>5, <2>6
    <3> QED BY <2>6, <3>1
  <2>8. Len(u[j]) <= Len(a \o b) BY <1>4, <2>5, <2>6
  <2> HIDE DEF T
  <2> QED BY <2>1, <2>4, <2>5, <2>7, <2>8
<1>7. T \in SUBSET Nat OBVIOUS
<1> HIDE DEF T
<1>8. T = Nat BY <1>5, <1>6, <1>7, NatInduct
<1>9. k - j \in T /\ j + (k - j) = k BY <1>3, <1>8
<1> USE DEF T
<1> QED BY <1>1, <1>3, <1>9

\* Where a piece lies among the others.
LEMMA UpToHas ==
  ASSUME NEW S, NEW p \in Seq(Seq(S)), NEW k \in 1 .. Len(p), NEW n \in k .. Len(p)
  PROVE  /\ Len(UpTo(p)[k - 1]) \in Nat /\ Len(p[k]) \in Nat
         /\ Len(UpTo(p)[k]) = Len(UpTo(p)[k - 1]) + Len(p[k])
         /\ Len(UpTo(p)[k]) <= Len(UpTo(p)[n])
         /\ \A i \in 1 .. Len(p[k]) : UpTo(p)[n][Len(UpTo(p)[k - 1]) + i] = p[k][i]
<1>1. PICK u : u = UpTo(p) OBVIOUS
<1>2. Len(p) \in Nat /\ k \in 1 .. Len(p) /\ k - 1 \in 0 .. Len(p) /\ n \in 0 .. Len(p) /\ k \in 0 .. n
  BY UpToFacts
<1>3. PICK a, b : a = u[k - 1] /\ b = p[k] OBVIOUS
<1>4. a \in Seq(S) /\ b \in Seq(S) /\ u[k] = a \o b BY <1>1, <1>2, <1>3, UpToFacts, Zenon
<1>5. /\ Len(a) \in Nat /\ Len(b) \in Nat /\ Len(a \o b) = Len(a) + Len(b)
      /\ \A i \in 1 .. Len(a) + Len(b) : (a \o b)[i] = IF i <= Len(a) THEN a[i] ELSE b[i - Len(a)]
  BY <1>4, ConcatProperties, LenProperties
<1>6. Len(u[k]) <= Len(u[n]) /\ \A i \in 1 .. Len(u[k]) : u[n][i] = u[k][i]
  BY <1>1, <1>2, UpToGrows, Zenon
<1>7. ASSUME NEW i \in 1 .. Len(b) PROVE u[n][Len(a) + i] = b[i]
  <2>1. Len(a) + i \in 1 .. Len(a) + Len(b) /\ ~(Len(a) + i <= Len(a)) /\ (Len(a) + i) - Len(a) = i
    BY <1>5
  <2>2. (a \o b)[Len(a) + i] = b[i] BY <1>5, <2>1
  <2>3. Len(a) + i \in 1 .. Len(u[k]) BY <1>4, <1>5, <2>1, Zenon
  <2> QED BY <1>4, <1>6, <2>2, <2>3, Zenon
<1> QED BY <1>1, <1>3, <1>4, <1>5, <1>6, <1>7, Zenon

\* Empty pieces make no difference.
LEMMA UpToRests ==
  ASSUME NEW S, NEW p \in Seq(Seq(S)), NEW k \in 0 .. Len(p), NEW j \in 0 .. k,
         \A i \in j + 1 .. k : p[i] = <<>>
  PROVE  UpTo(p)[k] = UpTo(p)[j]
<1>1. PICK n, u : n = Len(p) /\ u = UpTo(p) OBVIOUS
<1>2. n \in Nat /\ (\A m \in 0 .. n : u[m] \in Seq(S))
      /\ \A m \in 1 .. n : u[m] = u[m - 1] \o p[m]
  BY <1>1, UpToFacts, Zenon
<1> DEFINE T == {d \in Nat : j + d <= k => u[j + d] = u[j]}
<1>3. j \in Nat /\ k \in Nat /\ j <= k /\ k <= n BY <1>1, <1>2
<1>4. 0 \in T
  <2>1. j + 0 = j BY <1>3
  <2> QED BY <2>1
<1>5. ASSUME NEW d \in T PROVE d + 1 \in T
  <2> SUFFICES ASSUME j + (d + 1) <= k PROVE u[j + (d + 1)] = u[j] OBVIOUS
  <2>1. PICK m \in 1 .. n : m = j + (d + 1) BY <1>2, <1>3
  <2>2. m - 1 = j + d /\ m - 1 \in 0 .. n /\ j + d <= k /\ m \in j + 1 .. k BY <1>2, <1>3, <2>1
  <2>3. u[m] = u[m - 1] \o <<>> BY <1>2, <2>2
  <2>4. u[m - 1] \in Seq(S) BY <1>2, <2>2
  <2>5. u[m] = u[m - 1] BY <2>3, <2>4, ConcatEmptySeq
  <2>6. u[j + d] = u[j] BY <2>2
  <2> QED BY <2>1, <2>2, <2>5, <2>6
<1>6. T \in SUBSET Nat OBVIOUS
<1> HIDE DEF T
<1>7. T = Nat BY <1>4, <1>5, <1>6, NatInduct
<1>8. k - j \in T /\ j + (k - j) = k BY <1>3, <1>7
<1> USE DEF T
<1> QED BY <1>1, <1>3, <1>8

\* FlattenSeq of a few pieces.
LEMMA FlattenFew ==
  ASSUME NEW S, NEW a \in Seq(S), NEW b \in Seq(S)
  PROVE  /\ FlattenSeq(<<>>) = <<>>
         /\ FlattenSeq(<<a>>) = a
         /\ FlattenSeq(<<a, b>>) = a \o b
<1>1. FlattenSeq(<<>>) = <<>> BY DEF FlattenSeq
<1>2. FlattenSeq(<<a>>) = a
  <2>1. PICK p : p = <<a>> OBVIOUS
  <2>2. p \in Seq(Seq(S)) /\ Len(p) = 1 /\ p[1] = a BY <2>1
  <2>3. FlattenSeq(p) = UpTo(p)[1] BY <2>2, FlattenIsUpTo, Zenon
  <2>4. UpTo(p)[0] = <<>> /\ \A k \in 1 .. 1 : UpTo(p)[k] = UpTo(p)[k - 1] \o p[k]
    BY <2>2, UpToFacts
  <2>5. UpTo(p)[1] = <<>> \o a
    <3>1. 1 \in 1 .. 1 /\ 1 - 1 = 0 OBVIOUS
    <3> QED BY <2>2, <2>4, <3>1
  <2> QED BY <2>1, <2>3, <2>5, ConcatEmptySeq
<1>3. FlattenSeq(<<a, b>>) = a \o b
  <2>1. PICK p : p = <<a, b>> OBVIOUS
  <2>2. p \in Seq(Seq(S)) /\ Len(p) = 2 /\ p[1] = a /\ p[2] = b BY <2>1
  <2>3. FlattenSeq(p) = UpTo(p)[2] BY <2>2, FlattenIsUpTo, Zenon
  <2>4. UpTo(p)[0] = <<>> /\ \A k \in 1 .. 2 : UpTo(p)[k] = UpTo(p)[k - 1] \o p[k]
    BY <2>2, UpToFacts
  <2>5. 1 \in 1 .. 2 /\ 2 \in 1 .. 2 /\ 1 - 1 = 0 /\ 2 - 1 = 1 OBVIOUS
  <2>6. UpTo(p)[1] = <<>> \o a BY <2>2, <2>4, <2>5
  <2>7. UpTo(p)[2] = UpTo(p)[1] \o b BY <2>2, <2>4, <2>5
  <2> QED BY <2>1, <2>3, <2>6, <2>7, ConcatEmptySeq
<1> QED BY <1>1, <1>2, <1>3
------------------------------------------------------------------------------
\* The invariant

Cells == {"byte", "pulse", "emit", "mmio", "ui", "code", "none"} \X Int

\* What the two compilers make of each line.
NativePieces(s)   == [k \in DOMAIN s |-> NativeMessages(s, k)]
BytecodePieces(s) == [k \in DOMAIN s |-> BytecodeMessages(s, k)]

\* The value that the bytecode of a line stores, and where.
Stores(l) == l.kind \in {"signal", "mmio"}
Value(l)  == IF l.kind = "signal" THEN l.signal ELSE l.value
Address(l) == IF l.kind = "signal" THEN l.port ELSE l.addr

\* The bytecode of a line, and the halt behind a source without one.
LineCode(l) ==
  IF l.kind = "say" THEN <<SAY>> \o U32(Len(l.text)) \o l.text
  ELSE IF Stores(l) THEN <<LOAD, Value(l), STORE, Address(l)>>
  ELSE IF l.kind = "halt" THEN <<HALT>>
  ELSE <<>>

Codes(s) ==
  [k \in 1 .. Len(s) + 1 |->
     IF k <= Len(s) THEN LineCode(s[k])
     ELSE IF Reached(s, k) THEN <<HALT>> ELSE <<>>]

\* Where the bytecode of line k begins; what is printed by the first k lines.
Place(k) == 5 + Len(UpTo(Codes(source))[k - 1])
Said(k)  == UpTo(BytecodePieces(source))[k]

\* The bytecode of the first n lines, and where its instructions begin.
Holds(n) ==
  /\ bytes = Magic \o UpTo(Codes(source))[n]
  /\ \A k \in 1 .. n : Codes(source)[k] # <<>> => Place(k) \in starts
  /\ \A k \in 1 .. n : k <= Len(source) /\ Stores(source[k]) => Place(k) + 2 \in starts

\* The machine is before line k, or between the load and the store of it.
AtPiece(k) ==
  /\ Reached(source, k)
  /\ output = Said(k - 1)
  /\ pc = Place(k)
InStore(k) ==
  /\ k <= Len(source) /\ Stores(source[k])
  /\ Reached(source, k)
  /\ output = Said(k - 1)
  /\ pc = Place(k) + 2
  /\ acc = Value(source[k])

CommonInv ==
  /\ backend \in {"native", "bytecode"}
  /\ source \in Sources
  /\ at \in 1 .. Len(source) + 1
  /\ phase \in {"parse", "emit", "patch", "write", "written", "run", "ended", "failed"}
  /\ phase \in {"emit", "patch"} => backend = "native"
  /\ phase = "written" => backend = "bytecode"
  /\ phase # "ended" => ~halted
  /\ phase = "ended" /\ backend = "native" => halted
  /\ phase \notin {"run", "ended"} => pc = 1 /\ output = <<>>
  /\ phase \in {"parse", "emit", "patch", "write"} => file = <<>>
  /\ backend = "native" => file = <<>>
  /\ phase \notin {"parse", "failed"} \/ file # <<>> => at = Len(source) + 1

BytecodeInv ==
  /\ phase = "parse" => Holds(at - 1) /\ (hasHalt <=> ~Reached(source, at))
  /\ phase \notin {"parse", "failed"} \/ file # <<>> => Holds(Len(source) + 1)
  /\ file \in Seq(Nat)
  /\ Len(file) <= Len(bytes)
  /\ \A i \in 1 .. Len(file) : file[i] = bytes[i]
  /\ phase = "written" => Len(file) = Len(bytes)
  /\ phase = "run" => \E k \in 1 .. Len(source) + 1 : AtPiece(k) \/ InStore(k)
  /\ \E k \in 0 .. Len(source) : output = Said(k)
  /\ phase = "ended" => IF halted THEN output = Said(Len(source)) ELSE Len(file) < Len(bytes)

\* Write i of the machine code is of message i.
WriteOf(i) ==
  LET w == writeCode[i]
  IN /\ w.field = WriteSize * (i - 1) + DispField
     /\ w.size = Int32(Len(writes[i]))
     /\ w.ro + Len(writes[i]) <= Len(rodata)
     /\ \A j \in 1 .. Len(writes[i]) : rodata[w.ro + j] = writes[i][j]
     /\ phase \in {"write", "run", "ended"} => w.disp = Displacement(w)

WriteCode == [field : Nat, disp : Int, ro : Nat, size : Int]

NativeInv ==
  /\ writes = UpTo(NativePieces(source))[at - 1]
  /\ writeCode \in Seq(WriteCode) /\ rodata \in Seq(Cells)
  /\ Len(writeCode) <= Len(writes)
  /\ phase = "parse" => writeCode = <<>>
  /\ phase \in {"parse", "emit"} => codeSize = WriteSize * Len(writeCode)
  /\ phase \notin {"parse", "emit", "failed"} =>
       Len(writeCode) = Len(writes) /\ codeSize = WriteSize * Len(writeCode) + ExitSize
  /\ \A i \in 1 .. Len(writeCode) : WriteOf(i)
  /\ pc = Len(output) + 1
  /\ output \in Seq(Seq(Cells)) /\ Len(output) <= Len(writes)
  /\ \A i \in 1 .. Len(output) : output[i] = writes[i]
  /\ phase = "ended" => Len(output) = Len(writes)

IInv ==
  /\ CommonInv
  /\ backend = "native" => NativeInv
  /\ backend = "bytecode" => BytecodeInv

\* The texts are shorter than 2^32, so that a length fits its four bytes.
ShortTexts ==
  \A s \in Sources : \A k \in DOMAIN s : s[k].kind = "say" => Len(s[k].text) < 256 * 16777216

\* The code and the messages together fit the signed numbers of 32 bits.
ImageFits == codeSize + Len(rodata) <= MaxInt
------------------------------------------------------------------------------
\* Lines and messages

LEMMA LineFacts ==
  ASSUME NEW l \in Lines
  PROVE  /\ l.kind \in {"skip", "broken", "halt", "at", "say", "signal", "mmio", "ui"}
         /\ l.kind = "say" => l.text \in Seq(0 .. 255)
         /\ l.kind = "signal" => l.port \in {PULSE_PORT, EMIT_PORT} /\ l.signal \in 0 .. 255
         /\ l.kind = "mmio" => l.addr \in Nat /\ l.value \in Nat
BY DEF Lines

\* A source is a sequence of lines.
LEMMA SourceFacts ==
  ASSUME NEW s \in Sources
  PROVE  /\ s \in Seq(Lines)
         /\ Len(s) \in Nat
         /\ DOMAIN s = 1 .. Len(s)
         /\ \A k \in 1 .. Len(s) : s[k] \in Lines
<1>1. s \in Seq(Lines) BY SourcesAssumption
<1> QED BY <1>1, LenProperties, ElementOfSeq

LEMMA SayMessageFacts ==
  ASSUME NEW text \in Seq(0 .. 255)
  PROVE  SayMessage(text) \in Seq(Cells)
<1>1. Newline \in Cells BY DEF Newline, Cells
<1>2. DOMAIN text = 1 .. Len(text) /\ Len(text) \in Nat BY LenProperties
<1>3. \A i \in 1 .. Len(text) : <<"byte", text[i]>> \in Cells
  <2>1. \A i \in 1 .. Len(text) : text[i] \in 0 .. 255 BY ElementOfSeq
  <2> QED BY <2>1 DEF Cells
<1>4. [i \in 1 .. Len(text) |-> <<"byte", text[i]>>] \in Seq(Cells)
  BY <1>2, <1>3
<1> QED BY <1>1, <1>2, <1>4, AppendProperties DEF SayMessage

LEMMA SignalMessageFacts ==
  ASSUME NEW port, NEW signal \in Int
  PROVE  SignalMessage(port, signal) \in Seq(Cells)
<1>1. Newline \in Cells BY DEF Newline, Cells
<1>2. <<IF port = PULSE_PORT THEN "pulse" ELSE "emit", signal>> \in Cells BY DEF Cells
<1> QED BY <1>1, <1>2 DEF SignalMessage

LEMMA LogMessageFacts ==
  ASSUME NEW what \in {"mmio", "ui"}, NEW k \in Int
  PROVE  LogMessage(what, k) \in Seq(Cells)
<1>1. Newline \in Cells BY DEF Newline, Cells
<1>2. <<what, k>> \in Cells BY DEF Cells
<1> QED BY <1>1, <1>2 DEF LogMessage

LEMMA UiMessagesFacts ==
  ASSUME NEW l, NEW k \in Int
  PROVE  UiMessages(l, k) \in Seq(Seq(Cells))
<1>1. UiSignals(l) = <<>> \/ \E x \in {0, 1} : UiSignals(l) = <<x>>
  BY DEF UiSignals
<1>2. LogMessage("ui", k) \in Seq(Cells) BY LogMessageFacts
<1> DEFINE piece(i) == <<SignalMessage(PULSE_PORT, UiSignals(l)[i]),
                         SignalMessage(EMIT_PORT, UiSignals(l)[i])>>
           signals == FlattenSeq([i \in DOMAIN UiSignals(l) |-> piece(i)])
<1>3. signals \in Seq(Seq(Cells))
  <2>1. CASE UiSignals(l) = <<>>
    <3>1. [i \in DOMAIN UiSignals(l) |-> piece(i)] = <<>> BY <2>1
    <3>2. FlattenSeq(<<>>) = <<>> BY FlattenFew, EmptySeq
    <3>3. signals = <<>> BY <3>1, <3>2, Zenon
    <3> QED BY <3>3, EmptySeq
  <2>2. ASSUME NEW x \in {0, 1}, UiSignals(l) = <<x>>
        PROVE  signals \in Seq(Seq(Cells))
    <3>1. PICK a : a = <<SignalMessage(PULSE_PORT, x), SignalMessage(EMIT_PORT, x)>> OBVIOUS
    <3>2. a \in Seq(Seq(Cells))
      <4>1. SignalMessage(PULSE_PORT, x) \in Seq(Cells) /\ SignalMessage(EMIT_PORT, x) \in Seq(Cells)
        BY SignalMessageFacts
      <4> QED BY <3>1, <4>1
    <3>3. DOMAIN UiSignals(l) = {1} /\ UiSignals(l)[1] = x BY <2>2
    <3>4. [i \in DOMAIN UiSignals(l) |-> piece(i)] = <<a>>
      <4>1. [i \in DOMAIN UiSignals(l) |-> piece(i)] = [i \in {1} |-> a]
        BY <3>1, <3>3
      <4>2. [i \in {1} |-> a] = <<a>> OBVIOUS
      <4> QED BY <4>1, <4>2
    <3>5. FlattenSeq(<<a>>) = a BY <3>2, FlattenFew
    <3> QED BY <3>2, <3>4, <3>5
  <2> QED BY <1>1, <2>1, <2>2
<1>4. UiMessages(l, k) = IF ~UiAccepted(l) THEN <<>> ELSE <<LogMessage("ui", k)>> \o signals
  BY DEF UiMessages
<1> HIDE DEF signals
<1>5. <<LogMessage("ui", k)>> \in Seq(Seq(Cells)) BY <1>2
<1> QED BY <1>3, <1>4, <1>5, ConcatProperties, EmptySeq

LEMMA LineMessagesFacts ==
  ASSUME NEW l \in Lines
  PROVE  /\ LineMessages(l) \in Seq(Seq(Cells))
         /\ l.kind = "say" => LineMessages(l) = <<SayMessage(l.text)>>
         /\ l.kind = "signal" => LineMessages(l) = <<SignalMessage(l.port, l.signal)>>
         /\ l.kind \notin {"say", "signal"} => LineMessages(l) = <<>>
<1>1. l.kind = "say" => SayMessage(l.text) \in Seq(Cells) BY LineFacts, SayMessageFacts
<1>2. l.kind = "signal" => SignalMessage(l.port, l.signal) \in Seq(Cells)
  <2>1. l.kind = "signal" => l.signal \in 0 .. 255 BY LineFacts, Zenon
  <2>2. \A n \in 0 .. 255 : n \in Int OBVIOUS
  <2> QED BY <2>1, <2>2, SignalMessageFacts, Zenon
<1>3. l.kind = "say" => LineMessages(l) = <<SayMessage(l.text)>> BY DEF LineMessages
<1>4. l.kind = "signal" => LineMessages(l) = <<SignalMessage(l.port, l.signal)>> BY DEF LineMessages
<1>5. l.kind \notin {"say", "signal"} => LineMessages(l) = <<>> BY DEF LineMessages
<1>6. LineMessages(l) \in Seq(Seq(Cells))
  <2>1. \A m \in Seq(Cells) : <<m>> \in Seq(Seq(Cells)) OBVIOUS
  <2>2. CASE l.kind = "say" BY <1>1, <1>3, <2>1, <2>2, Zenon
  <2>3. CASE l.kind = "signal" BY <1>2, <1>4, <2>1, <2>3, Zenon
  <2>4. CASE l.kind \notin {"say", "signal"}
    <3>1. <<>> \in Seq(Seq(Cells)) BY EmptySeq
    <3> QED BY <1>5, <2>4, <3>1, Zenon
  <2> QED BY <2>2, <2>3, <2>4
<1> QED BY <1>3, <1>4, <1>5, <1>6

\* What each compiler makes of the lines is a sequence of messages each.
LEMMA NativePiecesFacts ==
  ASSUME NEW s \in Sources
  PROVE  /\ NativePieces(s) \in Seq(Seq(Seq(Cells)))
         /\ Len(NativePieces(s)) = Len(s)
         /\ \A k \in 1 .. Len(s) : NativePieces(s)[k] = NativeMessages(s, k)
<1>1. Len(s) \in Nat /\ DOMAIN s = 1 .. Len(s) /\ \A k \in 1 .. Len(s) : s[k] \in Lines
  BY SourceFacts
<1>2. ASSUME NEW k \in 1 .. Len(s) PROVE NativeMessages(s, k) \in Seq(Seq(Cells))
  <2>1. LogMessage("mmio", k) \in Seq(Cells) BY <1>1, LogMessageFacts
  <2>2. <<LogMessage("mmio", k)>> \in Seq(Seq(Cells)) BY <2>1
  <2>3. UiMessages(s[k], k) \in Seq(Seq(Cells)) BY <1>1, UiMessagesFacts
  <2>4. LineMessages(s[k]) \in Seq(Seq(Cells)) BY <1>1, LineMessagesFacts
  <2> QED BY <2>2, <2>3, <2>4 DEF NativeMessages
<1> QED BY <1>1, <1>2 DEF NativePieces

LEMMA BytecodePiecesFacts ==
  ASSUME NEW s \in Sources
  PROVE  /\ BytecodePieces(s) \in Seq(Seq(Seq(Cells)))
         /\ Len(BytecodePieces(s)) = Len(s)
         /\ \A k \in 1 .. Len(s) : BytecodePieces(s)[k] = BytecodeMessages(s, k)
<1>1. Len(s) \in Nat /\ DOMAIN s = 1 .. Len(s) /\ \A k \in 1 .. Len(s) : s[k] \in Lines
  BY SourceFacts
<1>2. ASSUME NEW k \in 1 .. Len(s) PROVE BytecodeMessages(s, k) \in Seq(Seq(Cells))
  <2>1. s[k].kind = "mmio" => <<SignalMessage(s[k].addr, s[k].value)>> \in Seq(Seq(Cells))
    <3> SUFFICES ASSUME s[k].kind = "mmio"
                 PROVE  <<SignalMessage(s[k].addr, s[k].value)>> \in Seq(Seq(Cells))
      OBVIOUS
    <3>1. s[k].value \in Int BY <1>1, LineFacts
    <3>2. SignalMessage(s[k].addr, s[k].value) \in Seq(Cells) BY <3>1, SignalMessageFacts
    <3> QED BY <3>2
  <2>2. LineMessages(s[k]) \in Seq(Seq(Cells)) BY <1>1, LineMessagesFacts
  <2>3. <<>> \in Seq(Seq(Cells)) BY EmptySeq
  <2> QED BY <2>1, <2>2, <2>3 DEF BytecodeMessages
<1> QED BY <1>1, <1>2 DEF BytecodePieces
------------------------------------------------------------------------------
\* The bytecode

\* The four bytes of a length give it back.
LEMMA U32Facts ==
  ASSUME NEW n \in Nat
  PROVE  /\ U32(n) \in Seq(Nat) /\ Len(U32(n)) = 4
         /\ n < 256 * 16777216 =>
              U32(n)[1] + 256 * U32(n)[2] + 65536 * U32(n)[3] + 16777216 * U32(n)[4] = n
<1> DEFINE b1 == n % 256
           b2 == (n \div 256) % 256
           b3 == (n \div 65536) % 256
           b4 == (n \div 16777216) % 256
<1>1. b1 \in Nat /\ b2 \in Nat /\ b3 \in Nat /\ b4 \in Nat
  BY DEF U32
<1>2. n < 256 * 16777216 => b1 + 256 * b2 + 65536 * b3 + 16777216 * b4 = n
  OBVIOUS
<1>3. U32(n) = <<b1, b2, b3, b4>> BY DEF U32
<1> HIDE DEF b1, b2, b3, b4
<1> QED BY <1>1, <1>2, <1>3

LEMMA LineCodeFacts ==
  ASSUME NEW l \in Lines
  PROVE  /\ LineCode(l) \in Seq(Nat)
         /\ l.kind = "say" =>
              /\ Len(l.text) \in Nat
              /\ Len(LineCode(l)) = 5 + Len(l.text)
              /\ LineCode(l)[1] = SAY
              /\ \A j \in 1 .. 4 : LineCode(l)[j + 1] = U32(Len(l.text))[j]
              /\ \A j \in 1 .. Len(l.text) : LineCode(l)[j + 5] = l.text[j]
         /\ Stores(l) =>
              /\ Len(LineCode(l)) = 4
              /\ LineCode(l)[1] = LOAD /\ LineCode(l)[2] = Value(l)
              /\ LineCode(l)[3] = STORE /\ LineCode(l)[4] = Address(l)
         /\ l.kind = "halt" => LineCode(l) = <<HALT>>
         /\ l.kind # "say" /\ ~Stores(l) /\ l.kind # "halt" => LineCode(l) = <<>>
<1>1. CASE l.kind = "say"
  <2>1. l.text \in Seq(0 .. 255) BY <1>1, LineFacts, Zenon
  <2>2. PICK t : t = l.text OBVIOUS
  <2>3. t \in Seq(Nat) /\ Len(t) \in Nat
    <3>1. 0 .. 255 \subseteq Nat OBVIOUS
    <3>2. t \in Seq(0 .. 255) BY <2>1, <2>2, Zenon
    <3>3. t \in Seq(Nat) BY <3>1, <3>2, SeqMonotonic, Zenon
    <3> QED BY <3>3, LenProperties, Zenon
  <2>4. PICK u : u = U32(Len(t)) OBVIOUS
  <2>5. u \in Seq(Nat) /\ Len(u) = 4 BY <2>3, <2>4, U32Facts
  <2>6. LineCode(l) = (<<SAY>> \o u) \o t BY <1>1, <2>2, <2>4 DEF LineCode
  <2>7. PICK a : a = <<SAY>> \o u OBVIOUS
  <2>8. a \in Seq(Nat) /\ Len(a) = 5 /\ a[1] = SAY /\ \A j \in 1 .. 4 : a[j + 1] = u[j]
    <3>1. <<SAY>> \in Seq(Nat) /\ Len(<<SAY>>) = 1 /\ <<SAY>>[1] = SAY BY DEF SAY
    <3>2. PICK f : f = <<SAY>> OBVIOUS
    <3>3. a \in Seq(Nat) /\ Len(a) = Len(f) + Len(u)
          /\ \A i \in 1 .. Len(f) + Len(u) : a[i] = IF i <= Len(f) THEN f[i] ELSE u[i - Len(f)]
      BY <2>5, <2>7, <3>1, <3>2, ConcatProperties, Zenon
    <3>4. Len(f) = 1 /\ f[1] = SAY BY <3>1, <3>2, Zenon
    <3> QED BY <2>5, <3>3, <3>4
  <2>9. a \o t \in Seq(Nat) /\ Len(a \o t) = 5 + Len(t)
        /\ \A i \in 1 .. 5 + Len(t) : (a \o t)[i] = IF i <= 5 THEN a[i] ELSE t[i - 5]
    <3>1. a \o t \in Seq(Nat) /\ Len(a \o t) = Len(a) + Len(t)
          /\ \A i \in 1 .. Len(a) + Len(t) : (a \o t)[i] = IF i <= Len(a) THEN a[i] ELSE t[i - Len(a)]
      BY <2>3, <2>8, ConcatProperties, Zenon
    <3> QED BY <2>8, <3>1, Zenon
  <2>10. PICK c : c = LineCode(l) OBVIOUS
  <2>11. c \in Seq(Nat) /\ Len(c) = 5 + Len(t) BY <2>6, <2>7, <2>9, <2>10, Zenon
  <2>12. \A i \in 1 .. 5 + Len(t) : c[i] = IF i <= 5 THEN a[i] ELSE t[i - 5]
    BY <2>6, <2>7, <2>9, <2>10, Zenon
  <2>13. c[1] = SAY /\ (\A j \in 1 .. 4 : c[j + 1] = u[j]) /\ \A j \in 1 .. Len(t) : c[j + 5] = t[j]
    <3>1. 1 \in 1 .. 5 + Len(t) /\ 1 <= 5 BY <2>3
    <3>2. ASSUME NEW j \in 1 .. 4 PROVE c[j + 1] = u[j]
      <4>1. j + 1 \in 1 .. 5 + Len(t) /\ j + 1 <= 5 BY <2>3
      <4> QED BY <2>8, <2>12, <4>1
    <3>3. ASSUME NEW j \in 1 .. Len(t) PROVE c[j + 5] = t[j]
      <4>1. j + 5 \in 1 .. 5 + Len(t) /\ ~(j + 5 <= 5) /\ (j + 5) - 5 = j BY <2>3
      <4> QED BY <2>12, <4>1
    <3> QED BY <2>8, <2>12, <3>1, <3>2, <3>3
  <2>14. ~Stores(l) /\ l.kind # "halt" BY <1>1 DEF Stores
  <2> QED BY <1>1, <2>2, <2>3, <2>4, <2>10, <2>11, <2>13, <2>14, Zenon
<1>2. CASE Stores(l)
  <2>1. l.kind # "say" /\ l.kind # "halt" BY <1>2 DEF Stores
  <2>2. LineCode(l) = <<LOAD, Value(l), STORE, Address(l)>> BY <1>2, <2>1 DEF LineCode
  <2>3. Value(l) \in Nat /\ Address(l) \in Nat
    <3>1. 0 .. 255 \subseteq Nat /\ {PULSE_PORT, EMIT_PORT} \subseteq Nat BY DEF PULSE_PORT, EMIT_PORT
    <3>2. CASE l.kind = "signal"
      <4>1. l.port \in Nat /\ l.signal \in Nat BY <3>1, <3>2, LineFacts, Zenon
      <4> QED BY <3>2, <4>1 DEF Value, Address
    <3>3. CASE l.kind = "mmio"
      <4>1. l.addr \in Nat /\ l.value \in Nat BY <3>3, LineFacts, Zenon
      <4> QED BY <3>3, <4>1 DEF Value, Address
    <3> QED BY <1>2, <3>2, <3>3 DEF Stores
  <2>4. LOAD \in Nat /\ STORE \in Nat BY DEF LOAD, STORE
  <2> QED BY <1>2, <2>1, <2>2, <2>3, <2>4
<1>3. CASE l.kind = "halt"
  <2>1. ~Stores(l) BY <1>3 DEF Stores
  <2>2. LineCode(l) = <<HALT>> BY <1>3, <2>1 DEF LineCode
  <2>3. <<HALT>> \in Seq(Nat) BY DEF HALT
  <2> QED BY <1>3, <2>1, <2>2, <2>3
<1>4. CASE l.kind # "say" /\ ~Stores(l) /\ l.kind # "halt"
  <2>1. LineCode(l) = <<>> BY <1>4 DEF LineCode
  <2>2. <<>> \in Seq(Nat) BY EmptySeq
  <2> QED BY <1>4, <2>1, <2>2
<1> QED BY <1>1, <1>2, <1>3, <1>4, Zenon

LEMMA CodesFacts ==
  ASSUME NEW s \in Sources
  PROVE  /\ Codes(s) \in Seq(Seq(Nat))
         /\ Len(Codes(s)) = Len(s) + 1
         /\ \A k \in 1 .. Len(s) : Codes(s)[k] = LineCode(s[k])
         /\ Codes(s)[Len(s) + 1] = IF Reached(s, Len(s) + 1) THEN <<HALT>> ELSE <<>>
<1>1. Len(s) \in Nat /\ \A k \in 1 .. Len(s) : s[k] \in Lines BY SourceFacts
<1>2. PICK n : n = Len(s) OBVIOUS
<1>3. PICK c : c = Codes(s) OBVIOUS
<1>4. n \in Nat /\ \A k \in 1 .. n : LineCode(s[k]) \in Seq(Nat)
  BY <1>1, <1>2, LineCodeFacts
<1>5. <<HALT>> \in Seq(Nat) /\ <<>> \in Seq(Nat) BY EmptySeq DEF HALT
<1> DEFINE code(k) == IF k <= n THEN LineCode(s[k]) ELSE IF Reached(s, k) THEN <<HALT>> ELSE <<>>
<1>6. c = [k \in 1 .. n + 1 |-> code(k)] BY <1>2, <1>3 DEF Codes
<1>7. \A k \in 1 .. n + 1 : code(k) \in Seq(Nat)
  <2> SUFFICES ASSUME NEW k \in 1 .. n + 1 PROVE code(k) \in Seq(Nat) OBVIOUS
  <2>1. CASE k <= n
    <3>1. k \in 1 .. n BY <1>4, <2>1
    <3> QED BY <1>4, <2>1, <3>1
  <2>2. CASE ~(k <= n) BY <1>5, <2>2
  <2> QED BY <2>1, <2>2
<1>8. (\A k \in 1 .. n : code(k) = LineCode(s[k]))
      /\ code(n + 1) = IF Reached(s, n + 1) THEN <<HALT>> ELSE <<>>
  <2>1. ~(n + 1 <= n) /\ \A k \in 1 .. n : k <= n BY <1>4
  <2> QED BY <2>1
<1> HIDE DEF code
<1>9. n + 1 \in Nat /\ n + 1 \in 1 .. n + 1 /\ \A k \in 1 .. n : k \in 1 .. n + 1 BY <1>4
<1>10. c \in Seq(Seq(Nat)) /\ Len(c) = n + 1
  <2>1. PICK m \in Nat : m = n + 1 BY <1>9
  <2>2. c \in [1 .. m -> Seq(Nat)] BY <1>6, <1>7, <2>1
  <2> QED BY <2>1, <2>2
<1>11. \A k \in 1 .. n + 1 : c[k] = code(k) BY <1>6
<1> QED BY <1>2, <1>3, <1>8, <1>9, <1>10, <1>11, Zenon
------------------------------------------------------------------------------
\* The phases

LEMMA CommonInit ==
  ASSUME Init
  PROVE  CommonInv
<1>1. source \in Sources /\ Len(source) \in Nat BY SourceFacts DEF Init
<1>2. at = 1 /\ 1 \in 1 .. Len(source) + 1 BY <1>1 DEF Init
<1> QED BY <1>1, <1>2 DEF Init, CommonInv

LEMMA CommonStep ==
  ASSUME CommonInv, [Next]_vars
  PROVE  CommonInv' /\ source' = source /\ backend' = backend
<1>1. Len(source) \in Nat BY SourceFacts DEF CommonInv
<1>2. CASE UNCHANGED vars
  BY <1>2 DEF CommonInv, vars, frontVars, emitVars, runVars
<1> USE DEF CommonInv, frontVars, emitVars, runVars
<1>3. CASE Parse
  <2>1. ASSUME phase = "parse", at <= Len(source), at' = at + 1,
               UNCHANGED <<backend, source, emitVars, file, runVars>>,
               phase' \in {"parse", "failed"}
        PROVE  CommonInv' /\ source' = source /\ backend' = backend
    <3>1. at' \in 1 .. Len(source) + 1 BY <1>1, <2>1
    <3> QED BY <2>1, <3>1
  <2>2. CASE ParseSay BY <2>1, <2>2 DEF ParseSay, AtLine
  <2>3. CASE ParseSignal BY <2>1, <2>3 DEF ParseSignal, AtLine
  <2>4. CASE ParseHalt BY <2>1, <2>4 DEF ParseHalt, AtLine
  <2>5. CASE ParseMmio BY <2>1, <2>5 DEF ParseMmio, AtLine
  <2>6. CASE ParseAt BY <2>1, <2>6 DEF ParseAt, AtLine
  <2>7. CASE ParseUi BY <2>1, <2>7 DEF ParseUi, AtLine
  <2>8. CASE ParseSkip BY <2>1, <2>8 DEF ParseSkip, AtLine
  <2>9. CASE ParseBroken BY <2>1, <2>9 DEF ParseBroken, AtLine
  <2>10. CASE ParseEnd
    <3>1. at = Len(source) + 1 BY <1>1, <2>10 DEF ParseEnd
    <3> QED BY <2>10, <3>1 DEF ParseEnd
  <2> QED BY <1>3, <2>2, <2>3, <2>4, <2>5, <2>6, <2>7, <2>8, <2>9, <2>10 DEF Parse
<1>4. CASE Emit
  BY <1>4 DEF Emit, EmitWrite, EmitExit, Patch
<1>5. CASE WriteFails BY <1>5 DEF WriteFails
<1>6. CASE Write BY <1>6 DEF Write
<1>7. CASE Execute BY <1>7 DEF Execute, ExecuteWrite, ExecuteExit
<1>8. CASE Machine
  <2>1. CASE StartRun BY <2>1 DEF StartRun, EndRun
  <2>2. CASE RunHalt BY <2>2 DEF RunHalt, At, EndRun
  <2>3. CASE RunSay BY <2>3 DEF RunSay, At, Goes
  <2>4. CASE RunLoad BY <2>4 DEF RunLoad, At, Goes
  <2>5. CASE RunStore BY <2>5 DEF RunStore, At, Goes
  <2>6. CASE RunError BY <2>6 DEF RunError, At, EndRun
  <2>7. CASE RunOff BY <2>7 DEF RunOff, EndRun
  <2> QED BY <1>8, <2>1, <2>2, <2>3, <2>4, <2>5, <2>6, <2>7 DEF Machine
<1> QED BY <1>2, <1>3, <1>4, <1>5, <1>6, <1>7, <1>8 DEF Next
------------------------------------------------------------------------------
\* The native emitter

\* A field of four bytes holds the numbers from 0 up to MaxInt.
LEMMA Int32Facts ==
  ASSUME NEW n \in Int
  PROVE  /\ Int32(n) \in Int
         /\ n \in 0 .. MaxInt - 1 => Int32(n) = n
<1>1. PICK m \in Int : m = 2 * MaxInt /\ m > 0 /\ MaxInt \in Nat BY IntAssumption
<1>2. PICK a \in Int : a = n + MaxInt BY <1>1
<1>3. (a % m) \in Int BY <1>1
<1>4. n \in 0 .. MaxInt - 1 => (a % m) = a
  <2>1. n \in 0 .. MaxInt - 1 => 0 <= a /\ a < m BY <1>1, <1>2
  <2> HIDE <1>1
  <2> QED BY <2>1, <1>1
<1>5. Int32(n) = (a % m) - MaxInt BY <1>1, <1>2 DEF Int32
<1>6. a - MaxInt = n BY <1>1, <1>2
<1> QED BY <1>1, <1>3, <1>4, <1>5, <1>6

LEMMA NativeWritesFacts ==
  ASSUME NEW s \in Sources, NEW k \in 0 .. Len(s)
  PROVE  UpTo(NativePieces(s))[k] \in Seq(Seq(Cells))
<1>1. PICK p : p = NativePieces(s) OBVIOUS
<1>2. p \in Seq(Seq(Seq(Cells))) /\ Len(p) = Len(s) BY <1>1, NativePiecesFacts, Zenon
<1>3. \A i \in 0 .. Len(p) : UpTo(p)[i] \in Seq(Seq(Cells)) BY <1>2, UpToFacts, Zenon
<1> QED BY <1>1, <1>2, <1>3, Zenon

\* The messages of a line are added to those of the lines before.
LEMMA NativeLine ==
  ASSUME CommonInv, writes = UpTo(NativePieces(source))[at - 1],
         at <= Len(source), at' = at + 1, source' = source,
         \/ writes' = writes \o NativeMessages(source, at)
         \/ writes' = writes /\ NativeMessages(source, at) = <<>>
  PROVE  writes' = UpTo(NativePieces(source'))[at' - 1]
<1>1. source \in Sources /\ Len(source) \in Nat BY SourceFacts DEF CommonInv
<1>2. PICK p, u : p = NativePieces(source) /\ u = UpTo(p) OBVIOUS
<1>3. /\ p \in Seq(Seq(Seq(Cells))) /\ Len(p) = Len(source)
      /\ \A k \in 1 .. Len(source) : p[k] = NativeMessages(source, k)
  BY <1>1, <1>2, NativePiecesFacts, Zenon
<1>4. at \in 1 .. Len(source) /\ at' - 1 = at BY <1>1 DEF CommonInv
<1>5. u[at] = u[at - 1] \o NativeMessages(source, at)
  <2>1. at \in 1 .. Len(p) /\ p[at] = NativeMessages(source, at) BY <1>3, <1>4, Zenon
  <2>2. \A k \in 1 .. Len(p) : u[k] = u[k - 1] \o p[k] BY <1>2, <1>3, UpToFacts, Zenon
  <2> QED BY <2>1, <2>2, Zenon
<1>6. writes \in Seq(Seq(Cells))
  <2>1. at - 1 \in 0 .. Len(source) BY <1>1, <1>4
  <2> QED BY <1>1, <2>1, NativeWritesFacts
<1>7. writes = writes \o <<>> BY <1>6, ConcatEmptySeq
<1>8. u[at - 1] = writes BY <1>2, Zenon
<1>9. writes' = u[at] BY <1>5, <1>7, <1>8, Zenon
<1> QED BY <1>2, <1>4, <1>9, Zenon

LEMMA NativeInit ==
  ASSUME Init
  PROVE  NativeInv
<1>1. source \in Sources BY DEF Init
<1>2. UpTo(NativePieces(source))[0] = <<>> BY <1>1, NativePiecesFacts, UpToFacts
<1>3. at - 1 = 0 BY DEF Init
<1>4. <<>> \in Seq(WriteCode) /\ <<>> \in Seq(Cells) /\ <<>> \in Seq(Seq(Cells)) /\ Len(<<>>) = 0
  BY EmptySeq
<1>5. WriteSize * 0 = 0 BY DEF WriteSize, MovSize
<1> USE DEF Init, NativeInv
<1>6. writes = UpTo(NativePieces(source))[at - 1] BY <1>2, <1>3
<1>7. phase = "parse" /\ writeCode = <<>> /\ writes = <<>> /\ rodata = <<>> /\ output = <<>>
      /\ codeSize = 0 /\ pc = 1
  OBVIOUS
<1>8. 1 .. Len(writeCode) = {} /\ 1 .. Len(output) = {} BY <1>4, <1>7
<1> QED BY <1>4, <1>5, <1>6, <1>7, <1>8

\* The lines add messages and leave the rest alone.
LEMMA NativeParse ==
  ASSUME CommonInv, backend = "native", NativeInv, Parse
  PROVE  NativeInv'
<1>1. source \in Sources /\ Len(source) \in Nat BY SourceFacts DEF CommonInv
<1>2. phase = "parse" /\ at \in 1 .. Len(source) + 1
  BY DEF CommonInv, Parse, ParseSay, ParseSignal, ParseHalt, ParseMmio, ParseAt, ParseUi,
         ParseSkip, ParseBroken, ParseEnd, AtLine
<1>3. writeCode = <<>> /\ output = <<>> /\ codeSize = WriteSize * Len(writeCode)
  BY <1>2 DEF CommonInv, NativeInv
<1>4. writes = UpTo(NativePieces(source))[at - 1] BY DEF NativeInv
<1>5. UNCHANGED <<source, emitVars, pc, output>> /\ phase' \in {"parse", "emit", "failed"}
  BY DEF Parse, ParseSay, ParseSignal, ParseHalt, ParseMmio, ParseAt, ParseUi,
         ParseSkip, ParseBroken, ParseEnd, AtLine, runVars
<1>6. writes' = UpTo(NativePieces(source'))[at' - 1]
  <2>1. CASE ParseEnd
    <3>1. writes \in Seq(Seq(Cells))
      <4>1. at - 1 \in 0 .. Len(source) BY <1>1, <1>2
      <4> QED BY <1>1, <1>4, <4>1, NativeWritesFacts
    <3>2. writes' = writes \o <<>> /\ at' = at BY <2>1 DEF ParseEnd, Native, Bytecode
    <3>3. writes' = writes BY <3>1, <3>2, ConcatEmptySeq
    <3> QED BY <1>4, <1>5, <3>2, <3>3, Zenon
  <2>2. ASSUME at <= Len(source), at' = at + 1,
               \/ writes' = writes \o NativeMessages(source, at)
               \/ writes' = writes /\ NativeMessages(source, at) = <<>>
        PROVE  writes' = UpTo(NativePieces(source'))[at' - 1]
    BY <1>4, <1>5, <2>2, NativeLine
  <2>3. CASE ParseSay
    <3>1. AtLine({"say"}) /\ writes' = writes \o <<SayMessage(line.text)>>
      BY <2>3 DEF ParseSay, Native, Bytecode
    <3>2. line.kind = "say" /\ at <= Len(source) /\ at' = at + 1 BY <3>1 DEF AtLine
    <3>3. NativeMessages(source, at) = <<SayMessage(line.text)>>
      BY <3>2 DEF NativeMessages, LineMessages, line
    <3> QED BY <2>2, <3>1, <3>2, <3>3
  <2>4. CASE ParseSignal
    <3>1. AtLine({"signal"}) /\ writes' = writes \o <<SignalMessage(line.port, line.signal)>>
      BY <2>4 DEF ParseSignal, Native, Bytecode
    <3>2. line.kind = "signal" /\ at <= Len(source) /\ at' = at + 1 BY <3>1 DEF AtLine
    <3>3. NativeMessages(source, at) = <<SignalMessage(line.port, line.signal)>>
      BY <3>2 DEF NativeMessages, LineMessages, line
    <3> QED BY <2>2, <3>1, <3>2, <3>3
  <2>5. CASE ParseHalt
    <3>1. AtLine({"halt"}) /\ writes' = writes \o <<>> BY <2>5 DEF ParseHalt, Native, Bytecode
    <3>2. line.kind = "halt" /\ at <= Len(source) /\ at' = at + 1 BY <3>1 DEF AtLine
    <3>3. NativeMessages(source, at) = <<>> BY <3>2 DEF NativeMessages, LineMessages, line
    <3> QED BY <2>2, <3>1, <3>2, <3>3
  <2>6. CASE ParseMmio
    <3>1. AtLine({"mmio"}) /\ writes' = writes \o <<LogMessage("mmio", at)>>
      BY <2>6 DEF ParseMmio, Native, Bytecode
    <3>2. line.kind = "mmio" /\ at <= Len(source) /\ at' = at + 1 BY <3>1 DEF AtLine
    <3>3. NativeMessages(source, at) = <<LogMessage("mmio", at)>>
      BY <3>2 DEF NativeMessages, line
    <3> QED BY <2>2, <3>1, <3>2, <3>3
  <2>7. CASE ParseAt
    <3>1. AtLine({"at"}) /\ writes' = writes \o <<LogMessage("mmio", at)>>
      BY <2>7 DEF ParseAt, Native, Bytecode
    <3>2. line.kind = "at" /\ at <= Len(source) /\ at' = at + 1 BY <3>1 DEF AtLine
    <3>3. NativeMessages(source, at) = <<LogMessage("mmio", at)>>
      BY <3>2 DEF NativeMessages, line
    <3> QED BY <2>2, <3>1, <3>2, <3>3
  <2>8. CASE ParseUi
    <3>1. AtLine({"ui"}) /\ writes' = writes \o UiMessages(line, at)
      BY <2>8 DEF ParseUi, Native, Bytecode
    <3>2. line.kind = "ui" /\ at <= Len(source) /\ at' = at + 1 BY <3>1 DEF AtLine
    <3>3. NativeMessages(source, at) = UiMessages(line, at)
      BY <3>2 DEF NativeMessages, line
    <3> QED BY <2>2, <3>1, <3>2, <3>3
  <2>9. CASE ParseSkip
    <3>1. line.kind = "skip" /\ at <= Len(source) /\ at' = at + 1 /\ writes' = writes
      BY <2>9 DEF ParseSkip, AtLine
    <3>2. NativeMessages(source, at) = <<>> BY <3>1 DEF NativeMessages, LineMessages, line
    <3> QED BY <2>2, <3>1, <3>2
  <2>10. CASE ParseBroken
    <3>1. line.kind = "broken" /\ at <= Len(source) /\ at' = at + 1 /\ writes' = writes
      BY <2>10 DEF ParseBroken, AtLine
    <3>2. NativeMessages(source, at) = <<>> BY <3>1 DEF NativeMessages, LineMessages, line
    <3> QED BY <2>2, <3>1, <3>2
  <2> QED BY <2>1, <2>3, <2>4, <2>5, <2>6, <2>7, <2>8, <2>9, <2>10 DEF Parse
<1>7. Len(writes') \in Nat
  <2>1. CommonInv' /\ source' = source BY CommonStep DEF Next
  <2>2. at' - 1 \in 0 .. Len(source)
    <3>1. at' \in 1 .. Len(source') + 1 BY <2>1 DEF CommonInv
    <3>2. at' \in 1 .. Len(source) + 1 BY <2>1, <3>1, Zenon
    <3>3. \A n \in Nat : \A a \in 1 .. n + 1 : a - 1 \in 0 .. n OBVIOUS
    <3> QED BY <1>1, <3>2, <3>3, Zenon
  <2>3. writes' \in Seq(Seq(Cells)) BY <1>1, <1>6, <2>1, <2>2, NativeWritesFacts
  <2> QED BY <2>3
<1>8. writeCode' = <<>> /\ output' = <<>> /\ pc' = pc /\ rodata' = rodata /\ codeSize' = codeSize
  BY <1>3, <1>5 DEF emitVars
<1>9. Len(<<>>) = 0 /\ 1 .. 0 = {} OBVIOUS
<1> QED BY <1>2, <1>3, <1>5, <1>6, <1>7, <1>8, <1>9 DEF NativeInv
\* A write stays what it is while there are more messages behind it.
LEMMA WriteOfStays ==
  ASSUME NativeInv, writes' = writes,
         NEW i \in 1 .. Len(writeCode), writeCode'[i] = writeCode[i],
         writes[i] \in Seq(Cells),
         rodata' = rodata \/ \E text \in Seq(Cells) : rodata' = rodata \o text,
         phase' \in {"write", "run", "ended"} =>
           phase \in {"write", "run", "ended"} /\ codeSize' = codeSize
  PROVE  WriteOf(i)'
<1>1. PICK w, r, t : w = writeCode[i] /\ r = rodata' /\ t = writes[i] OBVIOUS
<1>2. WriteOf(i) /\ rodata \in Seq(Cells) BY DEF NativeInv
<1>3. /\ w.field = WriteSize * (i - 1) + DispField
      /\ w.size = Int32(Len(t))
      /\ w.ro + Len(t) <= Len(rodata)
      /\ \A j \in 1 .. Len(t) : rodata[w.ro + j] = t[j]
      /\ phase \in {"write", "run", "ended"} => w.disp = Displacement(w)
  BY <1>1, <1>2, Zenon DEF WriteOf
<1>4. w.ro \in Nat
  <2>1. writeCode \in Seq(WriteCode) BY DEF NativeInv
  <2>2. w \in WriteCode BY <1>1, <2>1, ElementOfSeq
  <2> QED BY <2>2 DEF WriteCode
<1>5. Len(t) \in Nat /\ Len(rodata) \in Nat BY <1>1, <1>2
<1>6. Len(rodata) <= Len(r) /\ Len(r) \in Nat /\ \A j \in 1 .. Len(rodata) : r[j] = rodata[j]
  <2>1. CASE rodata' = rodata BY <1>1, <1>5, <2>1
  <2>2. ASSUME NEW text \in Seq(Cells), rodata' = rodata \o text
        PROVE  Len(rodata) <= Len(r) /\ Len(r) \in Nat /\ \A j \in 1 .. Len(rodata) : r[j] = rodata[j]
    <3>1. Len(text) \in Nat /\ Len(r) = Len(rodata) + Len(text)
          /\ \A j \in 1 .. Len(rodata) + Len(text) :
               r[j] = IF j <= Len(rodata) THEN rodata[j] ELSE text[j - Len(rodata)]
      BY <1>1, <1>2, <2>2, ConcatProperties, LenProperties, Zenon
    <3> QED BY <1>5, <3>1
  <2> QED BY <2>1, <2>2
<1>7. w.ro + Len(t) <= Len(r) BY <1>3, <1>4, <1>5, <1>6
<1>8. \A j \in 1 .. Len(t) : r[w.ro + j] = t[j]
  <2> SUFFICES ASSUME NEW j \in 1 .. Len(t) PROVE r[w.ro + j] = t[j] OBVIOUS
  <2>1. w.ro + j \in 1 .. Len(rodata) BY <1>3, <1>4, <1>5
  <2> QED BY <1>3, <1>6, <2>1
<1>9. phase' \in {"write", "run", "ended"} => w.disp = Displacement(w)'
  <2>1. codeSize' = codeSize => Displacement(w)' = Displacement(w) BY DEF Displacement
  <2> QED BY <1>3, <2>1, Zenon
<1>10. writeCode'[i] = w /\ writes'[i] = t BY <1>1, Zenon
<1> QED BY <1>1, <1>3, <1>7, <1>8, <1>9, <1>10, Zenon DEF WriteOf

LEMMA NativeEmitWrite ==
  ASSUME CommonInv, backend = "native", NativeInv, EmitWrite
  PROVE  NativeInv'
<1>1. source \in Sources /\ Len(source) \in Nat BY SourceFacts DEF CommonInv
<1>2. PICK n \in Nat : n = Len(writeCode)
  <2>1. writeCode \in Seq(WriteCode) BY DEF NativeInv
  <2> QED BY <2>1
<1>3. writes \in Seq(Seq(Cells)) /\ Len(writes) \in Nat
  <2>1. at - 1 \in 0 .. Len(source) BY <1>1 DEF CommonInv
  <2>2. writes = UpTo(NativePieces(source))[at - 1] BY DEF NativeInv
  <2>3. writes \in Seq(Seq(Cells)) BY <1>1, <2>1, <2>2, NativeWritesFacts
  <2> QED BY <2>3
<1>4. phase = "emit" /\ n < Len(writes) /\ output = <<>>
  BY <1>2 DEF EmitWrite, CommonInv
<1>5. n + 1 \in 1 .. Len(writes) BY <1>2, <1>3, <1>4
<1>6. PICK text \in Seq(Cells) : text = writes[n + 1] BY <1>3, <1>5, ElementOfSeq
<1>7. PICK new : new = [field |-> codeSize + DispField, disp |-> 0, ro |-> Len(rodata), size |-> Int32(Len(text))]
  OBVIOUS
<1>8. writeCode' = Append(writeCode, new) /\ rodata' = rodata \o text
  BY <1>2, <1>6, <1>7 DEF EmitWrite
<1>9. codeSize' = codeSize + WriteSize
      /\ UNCHANGED <<source, at, writes, phase, pc, output>>
  BY DEF EmitWrite, frontVars, runVars
<1>10. codeSize = WriteSize * n /\ WriteSize = 30 /\ DispField = 17
  BY <1>2, <1>4 DEF NativeInv, WriteSize, DispField, MovSize
<1>11. rodata \in Seq(Cells) /\ writeCode \in Seq(WriteCode) BY DEF NativeInv
<1>12. Len(rodata) \in Nat /\ Len(text) \in Nat /\ rodata' \in Seq(Cells)
       /\ Len(rodata') = Len(rodata) + Len(text)
       /\ \A j \in 1 .. Len(rodata) + Len(text) :
            rodata'[j] = IF j <= Len(rodata) THEN rodata[j] ELSE text[j - Len(rodata)]
  BY <1>8, <1>11, ConcatProperties, LenProperties
<1>13. new \in WriteCode
  <2>1. Int32(Len(text)) \in Int BY <1>12, Int32Facts
  <2>2. codeSize + DispField \in Nat BY <1>2, <1>10
  <2> QED BY <1>7, <1>12, <2>1, <2>2 DEF WriteCode
<1>14. writeCode' \in Seq(WriteCode) /\ Len(writeCode') = n + 1
       /\ (\A i \in 1 .. n : writeCode'[i] = writeCode[i]) /\ writeCode'[n + 1] = new
  BY <1>2, <1>8, <1>11, <1>13, AppendProperties
<1>15. codeSize' = WriteSize * (n + 1) BY <1>2, <1>9, <1>10
<1>16. ASSUME NEW i \in 1 .. n + 1 PROVE WriteOf(i)'
  <2>1. CASE i \in 1 .. n
    <3>1. writes[i] \in Seq(Cells)
      <4>1. i \in 1 .. Len(writes) BY <1>2, <1>3, <1>4, <2>1
      <4> QED BY <1>3, <4>1, ElementOfSeq
    <3>2. phase' \notin {"write", "run", "ended"} BY <1>4, <1>9
    <3> QED BY <1>2, <1>8, <1>9, <1>14, <2>1, <3>1, <3>2, WriteOfStays
  <2>2. CASE i = n + 1
    <3>1. new.field = WriteSize * (i - 1) + DispField BY <1>2, <1>7, <1>10, <2>2
    <3>2. new.size = Int32(Len(text)) /\ new.ro = Len(rodata) BY <1>7
    <3>3. new.ro + Len(text) <= Len(rodata') BY <1>12, <3>2
    <3>4. \A j \in 1 .. Len(text) : rodata'[new.ro + j] = text[j]
      <4> SUFFICES ASSUME NEW j \in 1 .. Len(text) PROVE rodata'[new.ro + j] = text[j] OBVIOUS
      <4>1. Len(rodata) + j \in 1 .. Len(rodata) + Len(text) /\ ~(Len(rodata) + j <= Len(rodata))
            /\ (Len(rodata) + j) - Len(rodata) = j
        BY <1>12
      <4> QED BY <1>12, <3>2, <4>1
    <3>5. phase' \notin {"write", "run", "ended"} BY <1>4, <1>9
    <3>6. writeCode'[i] = new /\ writes'[i] = text BY <1>6, <1>9, <1>14, <2>2
    <3> QED BY <3>1, <3>2, <3>3, <3>4, <3>5, <3>6, Zenon DEF WriteOf
  <2>3. i \in 1 .. n \/ i = n + 1 BY <1>2
  <2> QED BY <2>1, <2>2, <2>3
<1>17. writes' = UpTo(NativePieces(source'))[at' - 1]
  <2>1. writes = UpTo(NativePieces(source))[at - 1] BY DEF NativeInv
  <2> QED BY <1>9, <2>1, Zenon
<1>18. Len(writeCode') <= Len(writes') BY <1>2, <1>3, <1>4, <1>9, <1>14
<1>19. pc' = Len(output') + 1 /\ output' \in Seq(Seq(Cells)) /\ Len(output') <= Len(writes')
       /\ \A i \in 1 .. Len(output') : output'[i] = writes'[i]
  BY <1>9 DEF NativeInv
<1>20. phase' = "emit" BY <1>4, <1>9
<1> QED BY <1>11, <1>12, <1>14, <1>15, <1>16, <1>17, <1>18, <1>19, <1>20 DEF NativeInv

\* The other steps leave the messages alone.
LEMMA NativeEmitExit ==
  ASSUME CommonInv, backend = "native", NativeInv, EmitExit
  PROVE  NativeInv'
<1> USE DEF EmitExit, frontVars, runVars
<1>1. \A i \in 1 .. Len(writeCode) : WriteOf(i)'
  <2>1. \A i \in 1 .. Len(writeCode) : WriteOf(i) BY DEF NativeInv
  <2>2. phase' = "patch" /\ writeCode' = writeCode /\ writes' = writes /\ rodata' = rodata OBVIOUS
  <2> QED BY <2>1, <2>2, Zenon DEF WriteOf
<1>2. phase = "emit" /\ phase' = "patch" /\ codeSize' = codeSize + ExitSize
      /\ Len(writeCode) = Len(writes)
      /\ UNCHANGED <<source, at, writes, writeCode, rodata, pc, output>>
  OBVIOUS
<1>3. writes' = UpTo(NativePieces(source'))[at' - 1]
  <2>1. writes = UpTo(NativePieces(source))[at - 1] BY DEF NativeInv
  <2> QED BY <1>2, <2>1, Zenon
<1>4. codeSize' = WriteSize * Len(writeCode) + ExitSize BY <1>2 DEF NativeInv
<1>5. \A i \in 1 .. Len(writeCode') : WriteOf(i)' BY <1>1, <1>2, Zenon
<1> QED BY <1>2, <1>3, <1>4, <1>5 DEF NativeInv

LEMMA NativePatch ==
  ASSUME CommonInv, backend = "native", NativeInv, Patch
  PROVE  NativeInv'
<1>1. writeCode \in Seq(WriteCode) BY DEF NativeInv
<1>2. PICK n \in Nat : n = Len(writeCode) /\ DOMAIN writeCode = 1 .. n BY <1>1
<1>3. phase = "patch" /\ phase' = "write"
      /\ UNCHANGED <<source, at, writes, codeSize, rodata, pc, output>>
  BY DEF Patch, frontVars, runVars
<1>4. codeSize \in Int
  <2>1. Len(writes) = n /\ codeSize = WriteSize * n + ExitSize
    BY <1>2, <1>3 DEF NativeInv
  <2> QED BY <2>1 DEF WriteSize, ExitSize, MovSize
<1>5. \A i \in 1 .. n : writeCode[i] \in WriteCode BY <1>1, <1>2, ElementOfSeq
<1>6. writeCode' = [i \in 1 .. n |-> [writeCode[i] EXCEPT !.disp = Displacement(writeCode[i])]]
  BY <1>2 DEF Patch
<1>7. ASSUME NEW i \in 1 .. n
      PROVE  /\ writeCode'[i] \in WriteCode
             /\ writeCode'[i].field = writeCode[i].field /\ writeCode'[i].ro = writeCode[i].ro
             /\ writeCode'[i].size = writeCode[i].size
             /\ writeCode'[i].disp = Displacement(writeCode[i])
  <2>1. PICK w \in WriteCode : w = writeCode[i] BY <1>5
  <2>2. PICK d : d = Displacement(w) OBVIOUS
  <2>3. d \in Int
    <3>1. codeSize + w.ro - (w.field + 4) \in Int BY <1>4 DEF WriteCode
    <3> QED BY <2>2, <3>1, Int32Facts DEF Displacement
  <2>4. writeCode'[i] = [w EXCEPT !.disp = d] BY <1>6, <2>1, <2>2
  <2> QED BY <2>1, <2>2, <2>3, <2>4 DEF WriteCode
<1>8. writeCode' \in Seq(WriteCode) /\ Len(writeCode') = n
  <2>1. writeCode' \in [1 .. n -> WriteCode] BY <1>6, <1>7
  <2> QED BY <2>1
<1>9. ASSUME NEW i \in 1 .. n PROVE WriteOf(i)'
  <2>1. PICK w, v : w = writeCode[i] /\ v = writeCode'[i] OBVIOUS
  <2>2. v.field = w.field /\ v.ro = w.ro /\ v.size = w.size /\ v.disp = Displacement(w)
    BY <1>7, <2>1
  <2>3. WriteOf(i) BY <1>2 DEF NativeInv
  <2>4. Displacement(v)' = Displacement(w) BY <1>3, <2>2, Zenon DEF Displacement
  <2>5. w.field = WriteSize * (i - 1) + DispField
        /\ w.size = Int32(Len(writes[i]))
        /\ w.ro + Len(writes[i]) <= Len(rodata)
        /\ \A j \in 1 .. Len(writes[i]) : rodata[w.ro + j] = writes[i][j]
    BY <2>1, <2>3, Zenon DEF WriteOf
  <2>6. v.field = WriteSize * (i - 1) + DispField
        /\ v.size = Int32(Len(writes'[i]))
        /\ v.ro + Len(writes'[i]) <= Len(rodata')
        /\ \A j \in 1 .. Len(writes'[i]) : rodata'[v.ro + j] = writes'[i][j]
    BY <1>3, <2>2, <2>5, Zenon
  <2>7. v.disp = Displacement(v)' BY <2>2, <2>4, Zenon
  <2> QED BY <2>1, <2>6, <2>7, Zenon DEF WriteOf
<1>10. writes' = UpTo(NativePieces(source'))[at' - 1]
  <2>1. writes = UpTo(NativePieces(source))[at - 1] BY DEF NativeInv
  <2> QED BY <1>3, <2>1, Zenon
<1>11. Len(writeCode') = Len(writes') /\ codeSize' = WriteSize * Len(writeCode') + ExitSize
       /\ Len(writeCode') <= Len(writes')
  BY <1>2, <1>3, <1>8 DEF NativeInv
<1>12. \A i \in 1 .. Len(writeCode') : WriteOf(i)' BY <1>8, <1>9, Zenon
<1>13. rodata' \in Seq(Cells) /\ pc' = Len(output') + 1 /\ output' \in Seq(Seq(Cells))
       /\ Len(output') <= Len(writes') /\ \A i \in 1 .. Len(output') : output'[i] = writes'[i]
  BY <1>3 DEF NativeInv
<1> QED BY <1>3, <1>8, <1>10, <1>11, <1>12, <1>13 DEF NativeInv
LEMMA NativeFile ==
  ASSUME CommonInv, backend = "native", NativeInv, WriteFails \/ Write
  PROVE  NativeInv'
<1>1. phase = "write" /\ phase' \in {"run", "failed"}
      /\ UNCHANGED <<source, at, writes, writeCode, codeSize, rodata, pc, output>>
  BY DEF WriteFails, Write, frontVars, emitVars, runVars
<1>2. \A i \in 1 .. Len(writeCode) : WriteOf(i)'
  <2>1. \A i \in 1 .. Len(writeCode) : WriteOf(i) BY DEF NativeInv
  <2>2. phase \in {"write", "run", "ended"} BY <1>1
  <2>3. \A w : Displacement(w)' = Displacement(w) BY <1>1, Zenon DEF Displacement
  <2> QED BY <1>1, <2>1, <2>2, <2>3, Zenon DEF WriteOf
<1>3. writes' = UpTo(NativePieces(source'))[at' - 1]
  <2>1. writes = UpTo(NativePieces(source))[at - 1] BY DEF NativeInv
  <2> QED BY <1>1, <2>1, Zenon
<1>4. \A i \in 1 .. Len(writeCode') : WriteOf(i)' BY <1>1, <1>2, Zenon
<1> QED BY <1>1, <1>3, <1>4 DEF NativeInv

\* The processor finds the message where the code says it is.
LEMMA ExecutedMessage ==
  ASSUME NativeInv, ImageFits, phase = "run", pc <= Len(writeCode)
  PROVE  LET w == writeCode[pc]
             rsi == w.field + 4 + w.disp
         IN /\ pc \in 1 .. Len(writes)
            /\ writes[pc] \in Seq(Cells) =>
                 [j \in 1 .. w.size |-> Memory(rsi + j - 1)] = writes[pc]
<1>1. pc = Len(output) + 1 /\ output \in Seq(Seq(Cells)) /\ Len(writeCode) = Len(writes)
      /\ codeSize = WriteSize * Len(writeCode) + ExitSize
      /\ writeCode \in Seq(WriteCode) /\ rodata \in Seq(Cells)
  BY DEF NativeInv
<1>2. Len(output) \in Nat /\ Len(writeCode) \in Nat /\ Len(rodata) \in Nat BY <1>1
<1>3. PICK n, c, r : n = Len(writeCode) /\ c = codeSize /\ r = Len(rodata) OBVIOUS
<1>4. n \in Nat /\ r \in Nat /\ pc \in 1 .. n /\ c = 30 * n + 12
  BY <1>1, <1>2, <1>3 DEF WriteSize, ExitSize, MovSize
<1>5. PICK w \in WriteCode : w = writeCode[pc]
  <2>1. pc \in 1 .. Len(writeCode) BY <1>3, <1>4
  <2> QED BY <1>1, <2>1, ElementOfSeq
<1>6. PICK t : t = writes[pc] OBVIOUS
<1>7. ASSUME t \in Seq(Cells)
      PROVE  [j \in 1 .. w.size |-> Memory(w.field + 4 + w.disp + j - 1)] = t
  <2>1. WriteOf(pc) BY <1>3, <1>4 DEF NativeInv
  <2>2. w.field = WriteSize * (pc - 1) + DispField
        /\ w.size = Int32(Len(t))
        /\ w.ro + Len(t) <= r
        /\ (\A j \in 1 .. Len(t) : rodata[w.ro + j] = t[j])
        /\ w.disp = Displacement(w)
    BY <1>3, <1>5, <1>6, <2>1, Zenon DEF WriteOf
  <2>3. PICK m \in Nat : m = Len(t) BY <1>7
  <2>4. PICK o \in Nat : o = w.ro BY DEF WriteCode
  <2>5. PICK f \in Nat : f = w.field BY DEF WriteCode
  <2>6. f = 30 * (pc - 1) + 17 BY <2>2, <2>5 DEF WriteSize, DispField, MovSize
  <2>7. c + r <= MaxInt /\ MaxInt \in Nat BY <1>3, IntAssumption DEF ImageFits
  <2>8. o + m <= r BY <2>2, <2>3, <2>4
  <2>9. c + o - (f + 4) \in 0 .. MaxInt - 1 BY <1>4, <2>6, <2>7, <2>8
  <2>10. w.disp = c + o - (f + 4)
    <3>1. c + o - (f + 4) \in Int BY <2>9
    <3>2. w.disp = Int32(c + o - (f + 4)) BY <1>3, <2>2, <2>4, <2>5, Zenon DEF Displacement
    <3> QED BY <2>9, <3>1, <3>2, Int32Facts
  <2>11. w.size = m
    <3>1. m \in 0 .. MaxInt - 1 BY <1>4, <2>7, <2>8
    <3>2. m \in Int OBVIOUS
    <3> QED BY <2>2, <2>3, <3>1, <3>2, Int32Facts
  <2>12. ASSUME NEW j \in 1 .. m PROVE Memory(w.field + 4 + w.disp + j - 1) = t[j]
    <3>1. PICK a \in Int : a = w.field + 4 + w.disp + j - 1 BY <2>5, <2>9, <2>10
    <3>2. a = c + o + j - 1
      <4>1. PICK d \in Int : d = c + o - (f + 4) BY <2>9
      <4>2. a = f + 4 + d + j - 1 BY <2>5, <2>10, <3>1, <4>1, Zenon
      <4>3. c \in Int /\ j \in Int BY <1>4
      <4> QED BY <4>1, <4>2, <4>3
    <3>3. ~(a < c) /\ a - c < r /\ a - c + 1 = o + j BY <1>4, <2>8, <3>2
    <3>4. Memory(a) = rodata[a - c + 1] BY <1>3, <3>3, Zenon DEF Memory
    <3>5. rodata[o + j] = t[j] BY <2>2, <2>3, <2>4
    <3> QED BY <3>1, <3>3, <3>4, <3>5, Zenon
  <2>13. [j \in 1 .. m |-> Memory(w.field + 4 + w.disp + j - 1)] = [j \in 1 .. m |-> t[j]]
    BY <2>12
  <2>14. t = [j \in 1 .. m |-> t[j]] BY <1>7, <2>3
  <2> QED BY <2>11, <2>13, <2>14, Zenon
<1>8. pc \in 1 .. Len(writes) BY <1>1, <1>3, <1>4
<1> QED BY <1>5, <1>6, <1>7, <1>8, Zenon

LEMMA NativeExecute ==
  ASSUME CommonInv, backend = "native", NativeInv, ImageFits, Execute
  PROVE  NativeInv'
<1>1. phase = "run" /\ phase' \in {"run", "ended"}
      /\ UNCHANGED <<source, at, writes, writeCode, codeSize, rodata>>
  BY DEF Execute, ExecuteWrite, ExecuteExit, frontVars, emitVars
<1>2. \A i \in 1 .. Len(writeCode') : WriteOf(i)'
  <2>1. \A i \in 1 .. Len(writeCode) : WriteOf(i) BY DEF NativeInv
  <2>2. phase \in {"write", "run", "ended"} BY <1>1
  <2>3. \A w : Displacement(w)' = Displacement(w) BY <1>1, Zenon DEF Displacement
  <2>4. \A i \in 1 .. Len(writeCode) : WriteOf(i)'
    BY <1>1, <2>1, <2>2, <2>3, Zenon DEF WriteOf
  <2> QED BY <1>1, <2>4, Zenon
<1>3. writes' = UpTo(NativePieces(source'))[at' - 1]
  <2>1. writes = UpTo(NativePieces(source))[at - 1] BY DEF NativeInv
  <2> QED BY <1>1, <2>1, Zenon
<1>4. writeCode \in Seq(WriteCode) /\ rodata \in Seq(Cells) /\ Len(writeCode) = Len(writes)
      /\ codeSize = WriteSize * Len(writeCode) + ExitSize
      /\ pc = Len(output) + 1 /\ output \in Seq(Seq(Cells)) /\ Len(output) <= Len(writes)
      /\ \A i \in 1 .. Len(output) : output[i] = writes[i]
  BY <1>1 DEF NativeInv
<1>5. Len(output) \in Nat /\ Len(writeCode) \in Nat BY <1>4
<1>6. pc' = Len(output') + 1 /\ output' \in Seq(Seq(Cells)) /\ Len(output') <= Len(writes')
      /\ (\A i \in 1 .. Len(output') : output'[i] = writes'[i])
      /\ (phase' = "ended" => Len(output') = Len(writes'))
  <2>1. CASE ExecuteExit
    <3>1. pc > Len(writeCode) /\ pc' = pc /\ output' = output BY <2>1 DEF ExecuteExit
    <3>2. Len(output) = Len(writes) BY <1>4, <1>5, <3>1
    <3> QED BY <1>1, <1>4, <3>1, <3>2, Zenon
  <2>2. CASE ExecuteWrite
    <3>1. pc <= Len(writeCode) /\ pc' = pc + 1 /\ phase' = "run" BY <1>1, <2>2 DEF ExecuteWrite
    <3>2. pc \in 1 .. Len(writes) BY <1>1, <3>1, ExecutedMessage, Zenon
    <3>3. writes \in Seq(Seq(Cells))
      <4>1. source \in Sources /\ Len(source) \in Nat BY SourceFacts DEF CommonInv
      <4>2. at - 1 \in 0 .. Len(source) BY <4>1 DEF CommonInv
      <4>3. writes = UpTo(NativePieces(source))[at - 1] BY DEF NativeInv
      <4> QED BY <4>1, <4>2, <4>3, NativeWritesFacts
    <3>4. PICK t \in Seq(Cells) : t = writes[pc] BY <3>2, <3>3, ElementOfSeq
    <3>5. output' = Append(output, t)
      <4>1. output' = Append(output, [j \in 1 .. writeCode[pc].size |->
                        Memory(writeCode[pc].field + 4 + writeCode[pc].disp + j - 1)])
        BY <2>2 DEF ExecuteWrite
      <4>2. [j \in 1 .. writeCode[pc].size |->
               Memory(writeCode[pc].field + 4 + writeCode[pc].disp + j - 1)] = t
        BY <1>1, <3>1, <3>4, ExecutedMessage, Zenon
      <4> QED BY <4>1, <4>2, Zenon
    <3>6. output' \in Seq(Seq(Cells)) /\ Len(output') = Len(output) + 1
          /\ (\A i \in 1 .. Len(output) : output'[i] = output[i])
          /\ output'[Len(output) + 1] = t
      BY <1>4, <3>4, <3>5, AppendProperties
    <3>7. pc' = Len(output') + 1 /\ Len(output') <= Len(writes)
      BY <1>4, <1>5, <3>1, <3>6
    <3>8. ASSUME NEW i \in 1 .. Len(output') PROVE output'[i] = writes[i]
      <4>1. CASE i = Len(output) + 1 BY <1>4, <3>4, <3>6, <4>1
      <4>2. CASE i # Len(output) + 1
        <5>1. i \in 1 .. Len(output) BY <1>5, <3>6, <4>2
        <5> QED BY <1>4, <3>6, <5>1
      <4> QED BY <4>1, <4>2
    <3>9. phase' # "ended" BY <3>1
    <3> QED BY <1>1, <3>6, <3>7, <3>8, <3>9, Zenon
  <2> QED BY <2>1, <2>2 DEF Execute
<1>7. Len(writeCode') <= Len(writes') BY <1>1, <1>4, <1>5
<1>8. writeCode' \in Seq(WriteCode) /\ rodata' \in Seq(Cells) /\ Len(writeCode') = Len(writes')
      /\ codeSize' = WriteSize * Len(writeCode') + ExitSize
  BY <1>1, <1>4, Zenon
<1> QED BY <1>1, <1>2, <1>3, <1>6, <1>7, <1>8 DEF NativeInv

LEMMA NativeUnchanged ==
  ASSUME NativeInv, UNCHANGED vars
  PROVE  NativeInv'
<1>1. UNCHANGED <<source, at, writes, phase, writeCode, codeSize, rodata, pc, output>>
  BY DEF vars, frontVars, emitVars, runVars
<1>2. \A w : Displacement(w)' = Displacement(w) BY <1>1, Zenon DEF Displacement
<1>3. \A i \in 1 .. Len(writeCode) : WriteOf(i)'
  <2>1. \A i \in 1 .. Len(writeCode) : WriteOf(i) BY DEF NativeInv
  <2> QED BY <1>1, <1>2, <2>1, Zenon DEF WriteOf
<1>4. writes' = UpTo(NativePieces(source'))[at' - 1]
  <2>1. writes = UpTo(NativePieces(source))[at - 1] BY DEF NativeInv
  <2> QED BY <1>1, <2>1, Zenon
<1>5. \A i \in 1 .. Len(writeCode') : WriteOf(i)' BY <1>1, <1>3, Zenon
<1> QED BY <1>1, <1>4, <1>5 DEF NativeInv

LEMMA NativeStep ==
  ASSUME CommonInv, backend = "native", NativeInv, ImageFits, [Next]_vars
  PROVE  NativeInv'
<1>1. CASE Machine
  <2>1. backend = "bytecode"
    BY <1>1 DEF Machine, StartRun, RunHalt, RunSay, RunLoad, RunStore, RunError, RunOff, At
  <2> QED BY <2>1
<1>2. CASE Emit
  BY <1>2, NativeEmitWrite, NativeEmitExit, NativePatch DEF Emit
<1> QED BY <1>1, <1>2, NativeUnchanged, NativeParse, NativeFile, NativeExecute DEF Next
------------------------------------------------------------------------------
\* What the lines before the first halt print

LEMMA ReachedFacts ==
  ASSUME NEW s \in Sources, NEW k \in 1 .. Len(s)
  PROVE  /\ Reached(s, 1)
         /\ Reached(s, k + 1) <=> Reached(s, k) /\ s[k].kind # "halt"
         /\ ~Reached(s, k) => \A m \in k .. Len(s) + 1 : ~Reached(s, m)
<1>1. Len(s) \in Nat BY SourceFacts
<1>2. 1 .. 1 - 1 = {} /\ (k + 1) - 1 = k /\ 1 .. k = (1 .. k - 1) \cup {k} BY <1>1
<1>3. Reached(s, 1) BY <1>2 DEF Reached
<1>4. Reached(s, k + 1) <=> Reached(s, k) /\ s[k].kind # "halt"
  <2>1. Reached(s, k + 1) <=> \A j \in 1 .. k : s[j].kind # "halt" BY <1>2, Zenon DEF Reached
  <2> QED BY <1>2, <2>1 DEF Reached
<1>5. ASSUME NEW m \in k .. Len(s) + 1, Reached(s, m) PROVE Reached(s, k)
  <2>1. 1 .. k - 1 \subseteq 1 .. m - 1 BY <1>1
  <2> QED BY <1>5, <2>1 DEF Reached
<1> QED BY <1>3, <1>4, <1>5

LEMMA PieceFacts ==
  ASSUME NEW s \in Sources, NEW k \in 1 .. Len(s)
  PROVE  /\ ~Reached(s, k) => BytecodePieces(s)[k] = <<>>
         /\ ~Stores(s[k]) /\ s[k].kind # "say" => BytecodePieces(s)[k] = <<>>
         /\ Reached(s, k) /\ s[k].kind = "say" =>
              BytecodePieces(s)[k] = <<SayMessage(s[k].text)>>
         /\ Reached(s, k) /\ Stores(s[k]) =>
              BytecodePieces(s)[k] = IF Address(s[k]) \in {PULSE_PORT, EMIT_PORT}
                                       THEN <<SignalMessage(Address(s[k]), Value(s[k]))>>
                                       ELSE <<>>
<1>1. PICK l \in Lines : l = s[k] BY SourceFacts
<1>2. BytecodePieces(s)[k] = BytecodeMessages(s, k) BY BytecodePiecesFacts
<1>3. BytecodeMessages(s, k) =
        IF ~Reached(s, k) THEN <<>>
        ELSE IF l.kind = "mmio" /\ l.addr \in {PULSE_PORT, EMIT_PORT}
               THEN <<SignalMessage(l.addr, l.value)>> ELSE LineMessages(l)
  BY <1>1, Zenon DEF BytecodeMessages
<1>4. ~Stores(l) /\ l.kind # "say" => LineMessages(l) = <<>> /\ l.kind # "mmio"
  BY LineMessagesFacts DEF Stores
<1>5. l.kind = "say" => LineMessages(l) = <<SayMessage(l.text)>> BY LineMessagesFacts
<1>6. ASSUME Stores(l), Reached(s, k)
      PROVE  BytecodeMessages(s, k) = IF Address(l) \in {PULSE_PORT, EMIT_PORT}
                                        THEN <<SignalMessage(Address(l), Value(l))>>
                                        ELSE <<>>
  <2>1. CASE l.kind = "mmio"
    <3>1. LineMessages(l) = <<>> BY <2>1, LineMessagesFacts
    <3>2. Address(l) = l.addr /\ Value(l) = l.value BY <2>1 DEF Address, Value
    <3> QED BY <1>3, <1>6, <2>1, <3>1, <3>2, Zenon
  <2>2. CASE l.kind = "signal"
    <3>1. LineMessages(l) = <<SignalMessage(l.port, l.signal)>> /\ l.port \in {PULSE_PORT, EMIT_PORT}
      BY <2>2, LineMessagesFacts, LineFacts, Zenon
    <3>2. Address(l) = l.port /\ Value(l) = l.signal /\ l.kind # "mmio" BY <2>2 DEF Address, Value
    <3> QED BY <1>3, <1>6, <3>1, <3>2, Zenon
  <2> QED BY <1>6, <2>1, <2>2 DEF Stores
<1>7. l.kind = "say" => l.kind # "mmio" OBVIOUS
<1>8. ~Reached(s, k) => BytecodeMessages(s, k) = <<>> BY <1>3, Zenon
<1>9. ~Stores(l) /\ l.kind # "say" => BytecodeMessages(s, k) = <<>> BY <1>3, <1>4, Zenon
<1>10. Reached(s, k) /\ l.kind = "say" => BytecodeMessages(s, k) = <<SayMessage(l.text)>>
  BY <1>3, <1>5, <1>7, Zenon
<1> QED BY <1>1, <1>2, <1>6, <1>8, <1>9, <1>10, Zenon

LEMMA SaidFacts ==
  ASSUME source \in Sources
  PROVE  /\ Said(0) = <<>>
         /\ \A k \in 0 .. Len(source) : Said(k) \in Seq(Seq(Cells))
         /\ \A k \in 1 .. Len(source) : Said(k) = Said(k - 1) \o BytecodePieces(source)[k]
         /\ BytecodeScript(source) = Said(Len(source))
<1>1. PICK p : p = BytecodePieces(source) OBVIOUS
<1>2. p \in Seq(Seq(Seq(Cells))) /\ Len(p) = Len(source) BY <1>1, BytecodePiecesFacts, Zenon
<1>3. /\ UpTo(p)[0] = <<>> /\ \A k \in 0 .. Len(p) : UpTo(p)[k] \in Seq(Seq(Cells))
      /\ \A k \in 1 .. Len(p) : UpTo(p)[k] = UpTo(p)[k - 1] \o p[k]
  BY <1>2, UpToFacts, Zenon
<1>4. FlattenSeq(p) = UpTo(p)[Len(p)] BY <1>2, FlattenIsUpTo, Zenon
<1>5. BytecodeScript(source) = FlattenSeq(p) BY <1>1, Zenon DEF BytecodeScript, BytecodePieces
<1> QED BY <1>1, <1>2, <1>3, <1>4, <1>5, Zenon DEF Said

\* Lines that print nothing.
LEMMA SaidRests ==
  ASSUME source \in Sources, NEW k \in 0 .. Len(source), NEW j \in 0 .. k,
         \A i \in j + 1 .. k : BytecodePieces(source)[i] = <<>>
  PROVE  Said(k) = Said(j)
<1>1. PICK p : p = BytecodePieces(source) OBVIOUS
<1>2. p \in Seq(Seq(Seq(Cells))) /\ Len(p) = Len(source) BY <1>1, BytecodePiecesFacts, Zenon
<1>3. k \in 0 .. Len(p) /\ \A i \in j + 1 .. k : p[i] = <<>> BY <1>1, <1>2, Zenon
<1>4. UpTo(p)[k] = UpTo(p)[j] BY <1>2, <1>3, UpToRests, Zenon
<1> QED BY <1>1, <1>4, Zenon DEF Said

\* Said(k) begins with Said(j).
LEMMA SaidGrows ==
  ASSUME source \in Sources, NEW k \in 0 .. Len(source), NEW j \in 0 .. k
  PROVE  /\ Len(Said(j)) <= Len(Said(k))
         /\ \A i \in 1 .. Len(Said(j)) : Said(k)[i] = Said(j)[i]
<1>1. PICK p : p = BytecodePieces(source) OBVIOUS
<1>2. p \in Seq(Seq(Seq(Cells))) /\ Len(p) = Len(source) BY <1>1, BytecodePiecesFacts, Zenon
<1>3. k \in 0 .. Len(p) BY <1>2, Zenon
<1>4. /\ Len(UpTo(p)[j]) <= Len(UpTo(p)[k])
      /\ \A i \in 1 .. Len(UpTo(p)[j]) : UpTo(p)[k][i] = UpTo(p)[j][i]
  BY <1>2, <1>3, UpToGrows, Zenon
<1> QED BY <1>1, <1>4, Zenon DEF Said

------------------------------------------------------------------------------
\* Where the bytecode of a line lies

LEMMA PlaceFacts ==
  ASSUME source \in Sources
  PROVE  /\ Place(1) = 5
         /\ \A k \in 1 .. Len(source) + 2 : Place(k) \in Nat /\ Place(k) >= 5
         /\ \A k \in 1 .. Len(source) + 1 :
              Len(Codes(source)[k]) \in Nat /\ Place(k + 1) = Place(k) + Len(Codes(source)[k])
<1>1. PICK p, u : p = Codes(source) /\ u = UpTo(p) OBVIOUS
<1>2. PICK n \in Nat : n = Len(source) BY SourceFacts
<1>3. p \in Seq(Seq(Nat)) /\ Len(p) = n + 1 BY <1>1, <1>2, CodesFacts, Zenon
<1>4. u[0] = <<>> /\ \A k \in 0 .. n + 1 : u[k] \in Seq(Nat)
  BY <1>1, <1>3, UpToFacts, Zenon
<1>5. \A k : Place(k) = 5 + Len(u[k - 1]) BY <1>1, Zenon DEF Place
<1>6. Place(1) = 5
  <2>1. 1 - 1 = 0 /\ Len(<<>>) = 0 OBVIOUS
  <2>2. Place(1) = 5 + 0 BY <1>4, <1>5, <2>1, Zenon
  <2> QED BY <2>2
<1>7. ASSUME NEW k \in 1 .. n + 2 PROVE Place(k) \in Nat /\ Place(k) >= 5
  <2>1. k - 1 \in 0 .. n + 1 BY <1>2
  <2>2. u[k - 1] \in Seq(Nat) BY <1>4, <2>1
  <2>3. Len(u[k - 1]) \in Nat BY <2>2
  <2> QED BY <1>5, <2>3
<1>8. ASSUME NEW k \in 1 .. n + 1
      PROVE  Len(p[k]) \in Nat /\ Place(k + 1) = Place(k) + Len(p[k])
  <2>1. k \in 1 .. Len(p) /\ k \in k .. Len(p) BY <1>3
  <2>2. Len(u[k - 1]) \in Nat /\ Len(p[k]) \in Nat /\ Len(u[k]) = Len(u[k - 1]) + Len(p[k])
    BY <1>1, <1>3, <2>1, UpToHas, Zenon
  <2>3. Place(k) = 5 + Len(u[k - 1]) BY <1>5
  <2>4. Place(k + 1) = 5 + Len(u[k])
    <3>1. (k + 1) - 1 = k BY <1>2
    <3> QED BY <1>5, <3>1, Zenon
  <2>5. PICK a, b : a = Len(u[k - 1]) /\ b = Len(p[k]) OBVIOUS
  <2>6. a \in Nat /\ b \in Nat /\ Len(u[k]) = a + b BY <2>2, <2>5, Zenon
  <2>7. Place(k) = 5 + a /\ Place(k + 1) = 5 + (a + b) BY <2>3, <2>4, <2>5, <2>6, Zenon
  <2>8. 5 + (a + b) = (5 + a) + b BY <2>6
  <2> QED BY <2>5, <2>6, <2>7, <2>8, Zenon
<1> QED BY <1>1, <1>2, <1>6, <1>7, <1>8, Zenon

\* The bytes of each line are in the bytecode, behind the magic.
LEMMA HoldsFacts ==
  ASSUME source \in Sources, NEW n \in 0 .. Len(source) + 1, Holds(n)
  PROVE  /\ bytes \in Seq(Nat)
         /\ Len(bytes) = Place(n + 1) - 1 /\ Len(bytes) >= 4
         /\ \A i \in 1 .. 4 : bytes[i] = Magic[i]
         /\ \A k \in 1 .. n :
              /\ Place(k) + Len(Codes(source)[k]) - 1 <= Len(bytes)
              /\ \A j \in 1 .. Len(Codes(source)[k]) :
                   bytes[Place(k) + j - 1] = Codes(source)[k][j]
<1>1. PICK p, u : p = Codes(source) /\ u = UpTo(p) OBVIOUS
<1>2. PICK m \in Nat : m = Len(source) BY SourceFacts
<1>3. p \in Seq(Seq(Nat)) /\ Len(p) = m + 1 BY <1>1, <1>2, CodesFacts, Zenon
<1>4. n \in 0 .. m + 1 /\ n \in 0 .. Len(p) BY <1>2, <1>3, Zenon
<1>5. PICK c : c = u[n] OBVIOUS
<1>6. c \in Seq(Nat) BY <1>1, <1>3, <1>4, <1>5, UpToFacts, Zenon
<1>7. PICK h : h = Magic OBVIOUS
<1>8. h \in Seq(Nat) /\ Len(h) = 4 BY <1>7 DEF Magic
<1>9. bytes = h \o c BY <1>1, <1>5, <1>7, Zenon DEF Holds
<1>10. bytes \in Seq(Nat) /\ Len(bytes) = Len(h) + Len(c)
       /\ \A i \in 1 .. Len(h) + Len(c) : bytes[i] = IF i <= Len(h) THEN h[i] ELSE c[i - Len(h)]
  BY <1>6, <1>8, <1>9, ConcatProperties, Zenon
<1>11. Len(c) \in Nat BY <1>6
<1>12. PICK z : z = bytes OBVIOUS
<1>13. Len(z) = 4 + Len(c) /\ \A i \in 1 .. 4 + Len(c) : z[i] = IF i <= 4 THEN h[i] ELSE c[i - 4]
  BY <1>8, <1>10, <1>12, Zenon
<1>14. \A k : Place(k) = 5 + Len(u[k - 1]) BY <1>1, Zenon DEF Place
<1>15. Len(z) = Place(n + 1) - 1
  <2>1. (n + 1) - 1 = n BY <1>4
  <2>2. Place(n + 1) = 5 + Len(c) BY <1>5, <1>14, <2>1, Zenon
  <2> QED BY <1>11, <1>13, <2>2
<1>16. Len(z) >= 4 /\ \A i \in 1 .. 4 : z[i] = h[i] BY <1>11, <1>13
<1>17. ASSUME NEW k \in 1 .. n
       PROVE  /\ Place(k) + Len(p[k]) - 1 <= Len(z)
              /\ \A j \in 1 .. Len(p[k]) : z[Place(k) + j - 1] = p[k][j]
  <2>1. k \in 1 .. Len(p) /\ n \in k .. Len(p) BY <1>3, <1>4
  <2>2. PICK a, l : a = Len(u[k - 1]) /\ l = Len(p[k]) OBVIOUS
  <2>3. a \in Nat /\ l \in Nat /\ Len(u[k]) = a + l /\ Len(u[k]) <= Len(c)
        /\ \A i \in 1 .. l : c[a + i] = p[k][i]
    <3>1. /\ Len(UpTo(p)[k - 1]) \in Nat /\ Len(p[k]) \in Nat
          /\ Len(UpTo(p)[k]) = Len(UpTo(p)[k - 1]) + Len(p[k])
          /\ Len(UpTo(p)[k]) <= Len(UpTo(p)[n])
          /\ \A i \in 1 .. Len(p[k]) : UpTo(p)[n][Len(UpTo(p)[k - 1]) + i] = p[k][i]
      BY <1>3, <2>1, UpToHas
    <3>2. UpTo(p) = u BY <1>1
    <3> QED BY <1>5, <2>2, <3>1, <3>2
  <2>4. Place(k) = 5 + a BY <1>14, <2>2
  <2>5. Place(k) + l - 1 <= Len(z) BY <1>11, <1>13, <2>3, <2>4
  <2>6. ASSUME NEW j \in 1 .. l PROVE z[Place(k) + j - 1] = p[k][j]
    <3>1. Place(k) + j - 1 = 4 + (a + j) BY <2>3, <2>4
    <3>2. 4 + (a + j) \in 1 .. 4 + Len(c) /\ ~(4 + (a + j) <= 4) /\ (4 + (a + j)) - 4 = a + j
      BY <1>11, <2>3
    <3>3. z[4 + (a + j)] = c[a + j] BY <1>13, <3>2, Zenon
    <3> QED BY <2>3, <3>1, <3>3, Zenon
  <2> QED BY <2>2, <2>5, <2>6, Zenon
<1> QED BY <1>1, <1>7, <1>10, <1>12, <1>15, <1>16, <1>17, Zenon
------------------------------------------------------------------------------
\* The bytecode compiler

LEMMA BytecodeInit ==
  ASSUME Init
  PROVE  BytecodeInv
<1>1. source \in Sources /\ Len(source) \in Nat BY SourceFacts DEF Init
<1>2. at = 1 /\ phase = "parse" /\ file = <<>> /\ output = <<>> /\ bytes = Magic /\ hasHalt = FALSE
  BY DEF Init
<1>3. Holds(0)
  <2>1. UpTo(Codes(source))[0] = <<>> BY <1>1, CodesFacts, UpToFacts
  <2>2. Magic \o <<>> = Magic
    <3>1. Magic \in Seq(Nat) BY DEF Magic
    <3> QED BY <3>1, ConcatEmptySeq
  <2>3. 1 .. 0 = {} OBVIOUS
  <2> QED BY <1>2, <2>1, <2>2, <2>3 DEF Holds
<1>4. Reached(source, 1)
  <2>1. 1 .. 1 - 1 = {} OBVIOUS
  <2> QED BY <2>1 DEF Reached
<1>5. at - 1 = 0 /\ (hasHalt <=> ~Reached(source, at)) BY <1>2, <1>4
<1>6. Said(0) = <<>> /\ 0 \in 0 .. Len(source) BY <1>1, SaidFacts
<1>7. file \in Seq(Nat) /\ Len(file) = 0 /\ 1 .. Len(file) = {} BY <1>2, EmptySeq
<1>8. Len(bytes) = 4 BY <1>2 DEF Magic
<1>9. Len(file) <= Len(bytes) BY <1>7, <1>8
<1>10. phase = "parse" => Holds(at - 1) /\ (hasHalt <=> ~Reached(source, at))
  BY <1>3, <1>5, Zenon
<1>11. ~(phase \notin {"parse", "failed"} \/ file # <<>>) /\ phase # "written" /\ phase # "run"
       /\ phase # "ended"
  BY <1>2
<1>12. \E k \in 0 .. Len(source) : output = Said(k) BY <1>2, <1>6, Zenon
<1> QED BY <1>7, <1>9, <1>10, <1>11, <1>12, Zenon DEF BytecodeInv

\* The bytes of the next line are added to those of the lines before.
LEMMA HoldsGrows ==
  ASSUME source \in Sources, NEW n \in 0 .. Len(source), Holds(n),
         source' = source,
         bytes' = bytes \o Codes(source)[n + 1],
         starts \subseteq starts',
         Codes(source)[n + 1] # <<>> => Len(bytes) + 1 \in starts',
         n < Len(source) /\ Stores(source[n + 1]) => Len(bytes) + 3 \in starts'
  PROVE  Holds(n + 1)'
<1>1. PICK p, u : p = Codes(source) /\ u = UpTo(p) OBVIOUS
<1>2. PICK m \in Nat : m = Len(source) BY SourceFacts
<1>3. p \in Seq(Seq(Nat)) /\ Len(p) = m + 1 BY <1>1, <1>2, CodesFacts, Zenon
<1>4. n \in Nat /\ n + 1 \in 1 .. m + 1 /\ n \in 0 .. m + 1 BY <1>2
<1>5. u[n + 1] = u[n] \o p[n + 1] /\ u[n] \in Seq(Nat) /\ p[n + 1] \in Seq(Nat)
  <2>1. \A k \in 1 .. Len(p) : p[k] \in Seq(Nat) /\ u[k] = u[k - 1] \o p[k]
    BY <1>1, <1>3, UpToFacts, Zenon
  <2>2. \A k \in 0 .. Len(p) : u[k] \in Seq(Nat) BY <1>1, <1>3, UpToFacts, Zenon
  <2>3. n + 1 \in 1 .. Len(p) /\ n \in 0 .. Len(p) /\ (n + 1) - 1 = n BY <1>3, <1>4
  <2> QED BY <2>1, <2>2, <2>3, Zenon
<1>6. bytes' = Magic \o u[n + 1]
  <2>1. bytes = Magic \o u[n] BY <1>1, Zenon DEF Holds
  <2>2. bytes' = (Magic \o u[n]) \o p[n + 1] BY <1>1, <2>1, Zenon
  <2>3. Magic \in Seq(Nat) BY DEF Magic
  <2>4. (Magic \o u[n]) \o p[n + 1] = Magic \o (u[n] \o p[n + 1])
    <3>1. PICK x, y, z : x = Magic /\ y = u[n] /\ z = p[n + 1] OBVIOUS
    <3>2. x \in Seq(Nat) /\ y \in Seq(Nat) /\ z \in Seq(Nat) BY <1>5, <2>3, <3>1
    <3>3. (x \o y) \o z = x \o (y \o z) BY <3>2
    <3> QED BY <3>1, <3>3
  <2> QED BY <1>5, <2>2, <2>4, Zenon
<1>7. Len(bytes) = Place(n + 1) - 1 BY <1>2, <1>4, HoldsFacts
<1>8. Place(n + 1) \in Nat
  <2>1. n + 1 \in 1 .. Len(source) + 2 BY <1>2, <1>4
  <2> QED BY <2>1, PlaceFacts
<1>9. Len(bytes) + 1 = Place(n + 1) /\ Len(bytes) + 3 = Place(n + 1) + 2 BY <1>7, <1>8
<1>10. ASSUME NEW k \in 1 .. n + 1
       PROVE  /\ p[k] # <<>> => Place(k) \in starts'
              /\ k <= m /\ Stores(source[k]) => Place(k) + 2 \in starts'
  <2>1. CASE k = n + 1
    <3>1. k <= m => n < Len(source) BY <1>2, <1>4, <2>1
    <3> QED BY <1>1, <1>9, <2>1, <3>1, Zenon
  <2>2. CASE k # n + 1
    <3>1. k \in 1 .. n BY <1>4, <2>2
    <3>2. /\ p[k] # <<>> => Place(k) \in starts
          /\ k <= m /\ Stores(source[k]) => Place(k) + 2 \in starts
      BY <1>1, <1>2, <3>1, Zenon DEF Holds
    <3> QED BY <3>2
  <2> QED BY <2>1, <2>2
<1>11. \A k : Place(k)' = Place(k) BY Zenon DEF Place
<1>12. Codes(source') = p /\ UpTo(Codes(source')) = u /\ Len(source') = m BY <1>1, <1>2, Zenon
<1>13. \A k : Stores(source'[k]) <=> Stores(source[k]) BY Zenon
<1> QED BY <1>6, <1>10, <1>11, <1>12, <1>13, Zenon DEF Holds

\* What the bytecode compiler adds at a line.
LEMMA BytecodeAdds ==
  ASSUME NEW a \in Seq(Nat), NEW b \in Seq(Nat), Len(bytes) \in Nat
  PROVE  /\ Bytecode(<<>>) => bytes' = bytes \o <<>> /\ starts' = starts
         /\ Bytecode(<<a>>) => bytes' = bytes \o a /\ starts' = starts \cup {Len(bytes) + 1}
         /\ Bytecode(<<a, b>>) =>
              /\ bytes' = bytes \o (a \o b)
              /\ starts' = starts \cup {Len(bytes) + 1, Len(bytes) + 1 + Len(a)}
<1>1. FlattenSeq(<<>>) = <<>> /\ FlattenSeq(<<a>>) = a /\ FlattenSeq(<<a, b>>) = a \o b
  BY FlattenFew
<1>2. Len(<<>>) = 0 /\ Len(a) \in Nat BY EmptySeq, LenProperties
<1>3. ASSUME Bytecode(<<>>) PROVE bytes' = bytes \o <<>> /\ starts' = starts
  <2>1. DOMAIN <<>> = {} OBVIOUS
  <2> QED BY <1>1, <1>3, <2>1 DEF Bytecode
<1>4. ASSUME Bytecode(<<a>>)
      PROVE  bytes' = bytes \o a /\ starts' = starts \cup {Len(bytes) + 1}
  <2>1. bytes' = bytes \o a BY <1>1, <1>4, Zenon DEF Bytecode
  <2> DEFINE place(k) == Len(bytes) + 1 + Len(FlattenSeq(SubSeq(<<a>>, 1, k - 1)))
  <2>2. starts' = starts \cup {place(k) : k \in DOMAIN <<a>>} BY <1>4, Zenon DEF Bytecode
  <2>3. DOMAIN <<a>> = {1} OBVIOUS
  <2>4. place(1) = Len(bytes) + 1
    <3>1. SubSeq(<<a>>, 1, 1 - 1) = <<>> BY SubSeqEmpty
    <3>2. Len(FlattenSeq(SubSeq(<<a>>, 1, 1 - 1))) = 0 BY <1>1, <1>2, <3>1, Zenon
    <3> QED BY <3>2
  <2> HIDE DEF place
  <2> QED BY <2>1, <2>2, <2>3, <2>4
<1>5. ASSUME Bytecode(<<a, b>>)
      PROVE  /\ bytes' = bytes \o (a \o b)
             /\ starts' = starts \cup {Len(bytes) + 1, Len(bytes) + 1 + Len(a)}
  <2>1. bytes' = bytes \o (a \o b) BY <1>1, <1>5, Zenon DEF Bytecode
  <2> DEFINE place(k) == Len(bytes) + 1 + Len(FlattenSeq(SubSeq(<<a, b>>, 1, k - 1)))
  <2>2. starts' = starts \cup {place(k) : k \in DOMAIN <<a, b>>} BY <1>5, Zenon DEF Bytecode
  <2>3. DOMAIN <<a, b>> = {1, 2} OBVIOUS
  <2>4. place(1) = Len(bytes) + 1
    <3>1. SubSeq(<<a, b>>, 1, 1 - 1) = <<>> BY SubSeqEmpty
    <3>2. Len(FlattenSeq(SubSeq(<<a, b>>, 1, 1 - 1))) = 0 BY <1>1, <1>2, <3>1, Zenon
    <3> QED BY <3>2
  <2>5. place(2) = Len(bytes) + 1 + Len(a)
    <3>1. SubSeq(<<a, b>>, 1, 2 - 1) = <<a>>
      <4>1. PICK p : p = <<a, b>> OBVIOUS
      <4>2. p \in Seq(Seq(Nat)) /\ Len(p) = 2 /\ p[1] = a BY <4>1
      <4>3. SubSeq(p, 1, 1) \in Seq(Seq(Nat)) /\ Len(SubSeq(p, 1, 1)) = 1 /\ SubSeq(p, 1, 1)[1] = a
        <5>1. \A i \in 1 .. 1 : p[i] \in Seq(Nat) BY <4>2
        <5>2. SubSeq(p, 1, 1) \in Seq(Seq(Nat))
              /\ Len(SubSeq(p, 1, 1)) = (IF 1 <= 1 THEN 1 - 1 + 1 ELSE 0)
              /\ \A i \in 1 .. 1 - 1 + 1 : SubSeq(p, 1, 1)[i] = p[1 + i - 1]
          BY <5>1, SubSeqProperties
        <5>3. 1 \in 1 .. 1 - 1 + 1 /\ 1 + 1 - 1 = 1 /\ 1 - 1 + 1 = 1 /\ 1 <= 1 OBVIOUS
        <5> QED BY <4>2, <5>2, <5>3
      <4>4. SubSeq(p, 1, 1) = <<a>>
        <5>1. PICK q : q = SubSeq(p, 1, 1) OBVIOUS
        <5>2. q \in Seq(Seq(Nat)) /\ Len(q) = 1 /\ q[1] = a BY <4>3, <5>1, Zenon
        <5>3. q = <<a>> BY <5>2
        <5> QED BY <5>1, <5>3, Zenon
      <4>5. 2 - 1 = 1 OBVIOUS
      <4> QED BY <4>1, <4>4, <4>5, Zenon
    <3>2. FlattenSeq(SubSeq(<<a, b>>, 1, 2 - 1)) = a BY <1>1, <3>1, Zenon
    <3> QED BY <3>2, Zenon
  <2> HIDE DEF place
  <2> QED BY <2>1, <2>2, <2>3, <2>4, <2>5
<1> QED BY <1>3, <1>4, <1>5
LEMMA BytecodeParse ==
  ASSUME CommonInv, backend = "bytecode", BytecodeInv, Parse
  PROVE  BytecodeInv'
<1>1. source \in Sources /\ Len(source) \in Nat /\ \A k \in 1 .. Len(source) : source[k] \in Lines
  BY SourceFacts DEF CommonInv
<1>2. phase = "parse" /\ at \in 1 .. Len(source) + 1
  BY DEF CommonInv, Parse, ParseSay, ParseSignal, ParseHalt, ParseMmio, ParseAt, ParseUi,
         ParseSkip, ParseBroken, ParseEnd, AtLine
<1>3. Holds(at - 1) /\ (hasHalt <=> ~Reached(source, at)) BY <1>2 DEF BytecodeInv
<1>4. file = <<>> /\ output = <<>> BY <1>2 DEF CommonInv
<1>5. source' = source /\ file' = <<>> /\ output' = <<>>
  BY <1>4 DEF Parse, ParseSay, ParseSignal, ParseHalt, ParseMmio, ParseAt, ParseUi,
              ParseSkip, ParseBroken, ParseEnd, AtLine, runVars
<1>6. PICK m, n \in Nat : m = Len(source) /\ n = at - 1 /\ n <= m /\ at = n + 1
  BY <1>1, <1>2
<1>7. n \in 0 .. Len(source) /\ n \in 0 .. Len(source) + 1 BY <1>6
<1>8. Holds(n) BY <1>3, <1>6, Zenon
<1>9. bytes \in Seq(Nat) /\ Len(bytes) \in Nat
  <2>1. bytes \in Seq(Nat) BY <1>1, <1>7, <1>8, HoldsFacts
  <2> QED BY <2>1
<1>10. \A k : Said(k)' = Said(k) BY <1>5, Zenon DEF Said
<1>11. \E k \in 0 .. Len(source') : output' = Said(k)'
  <2>1. \E k \in 0 .. Len(source) : output = Said(k) BY DEF BytecodeInv
  <2> QED BY <1>4, <1>5, <1>10, <2>1, Zenon
<1>12. file' \in Seq(Nat) /\ Len(file') = 0 /\ 1 .. Len(file') = {} BY <1>5, EmptySeq
<1>13. ASSUME NEW k \in 0 .. m + 1, Holds(k)' PROVE Len(file') <= Len(bytes')
  <2>1. bytes' = Magic \o UpTo(Codes(source))[k] BY <1>5, <1>13, Zenon DEF Holds
  <2>2. UpTo(Codes(source))[k] \in Seq(Nat)
    <3>1. PICK p : p = Codes(source) OBVIOUS
    <3>2. p \in Seq(Seq(Nat)) /\ Len(p) = m + 1 BY <1>1, <1>6, <3>1, CodesFacts, Zenon
    <3>3. UpTo(p)[k] \in Seq(Nat) BY <3>2, UpToFacts, Zenon
    <3> QED BY <3>1, <3>3, Zenon
  <2>3. Magic \in Seq(Nat) BY DEF Magic
  <2>4. bytes' \in Seq(Nat) BY <2>1, <2>2, <2>3, ConcatProperties
  <2>5. Len(bytes') \in Nat BY <2>4
  <2> QED BY <1>12, <2>5
<1>14. ASSUME phase' = "failed", bytes' = bytes PROVE BytecodeInv'
  <2>1. Len(file') <= Len(bytes') BY <1>9, <1>12, <1>14
  <2> QED BY <1>5, <1>11, <1>12, <1>14, <2>1 DEF BytecodeInv
<1>15. ASSUME AtLine({line.kind}), phase' = phase,
              bytes' = bytes \o LineCode(line),
              starts \subseteq starts',
              LineCode(line) # <<>> => Len(bytes) + 1 \in starts',
              Stores(line) => Len(bytes) + 3 \in starts',
              hasHalt' <=> hasHalt \/ line.kind = "halt"
       PROVE  BytecodeInv'
  <2>1. at \in 1 .. Len(source) /\ at' = at + 1 /\ n < Len(source)
    BY <1>1, <1>2, <1>6, <1>15 DEF AtLine
  <2>2. Codes(source)[n + 1] = LineCode(line) /\ line = source[n + 1]
    BY <1>1, <1>6, <2>1, CodesFacts DEF line
  <2>3. Holds(n + 1)' BY <1>1, <1>5, <1>7, <1>8, <1>15, <2>2, HoldsGrows
  <2>4. at' - 1 = n + 1 BY <1>6, <2>1
  <2>5. n + 1 \in 0 .. m + 1 BY <1>6
  <2>6. Len(file') <= Len(bytes') BY <1>13, <2>3, <2>5
  <2>7. Reached(source, at + 1) <=> Reached(source, at) /\ line.kind # "halt"
    BY <1>1, <2>1, ReachedFacts DEF line
  <2>8. hasHalt' <=> ~Reached(source', at') BY <1>3, <1>5, <1>15, <2>1, <2>7, Zenon
  <2>9. Holds(at - 1)' BY <2>3, <2>4, Zenon DEF Holds
  <2>10. phase' = "parse" BY <1>2, <1>15
  <2> QED BY <1>5, <1>11, <1>12, <2>6, <2>8, <2>9, <2>10 DEF BytecodeInv
<1>16. ASSUME at <= Len(source) PROVE line \in Lines BY <1>1, <1>2, <1>16 DEF line
<1>17. <<>> \in Seq(Nat) /\ bytes = bytes \o <<>> BY <1>9, ConcatEmptySeq, EmptySeq
<1>18. CASE ParseSay
  <2>1. AtLine({"say"}) /\ phase' = phase /\ hasHalt' = hasHalt
        /\ Bytecode(<<<<SAY>> \o U32(Len(line.text)) \o line.text>>)
    BY <1>18 DEF ParseSay, Native
  <2>2. line.kind = "say" /\ line \in Lines BY <1>16, <2>1 DEF AtLine
  <2>3. LineCode(line) = <<SAY>> \o U32(Len(line.text)) \o line.text BY <2>2 DEF LineCode
  <2>4. LineCode(line) \in Seq(Nat) BY <2>2, LineCodeFacts
  <2>5. bytes' = bytes \o LineCode(line) /\ starts' = starts \cup {Len(bytes) + 1}
    BY <1>9, <1>17, <2>1, <2>3, <2>4, BytecodeAdds, Zenon
  <2>6. ~Stores(line) /\ line.kind # "halt" /\ AtLine({line.kind}) BY <2>1, <2>2 DEF Stores
  <2> QED BY <1>15, <2>1, <2>5, <2>6
<1>19. ASSUME Stores(line), AtLine({line.kind}), phase' = phase, hasHalt' = hasHalt,
              Bytecode(StoreSequence(Value(line), Address(line)))
       PROVE  BytecodeInv'
  <2>1. PICK v, w : v = Value(line) /\ w = Address(line) OBVIOUS
  <2>2. line \in Lines /\ line.kind # "halt" BY <1>16, <1>19 DEF AtLine, Stores
  <2>3. LineCode(line) = <<LOAD, v, STORE, w>>
    <3>1. line.kind # "say" BY <1>19 DEF Stores
    <3> QED BY <1>19, <2>1, <3>1 DEF LineCode
  <2>4. v \in Nat /\ w \in Nat
    <3>1. LineCode(line) \in Seq(Nat) BY <2>2, LineCodeFacts
    <3>2. PICK c : c = LineCode(line) OBVIOUS
    <3>3. c \in Seq(Nat) /\ Len(c) = 4 /\ c[2] = v /\ c[4] = w BY <2>3, <3>1, <3>2
    <3>4. 2 \in 1 .. Len(c) /\ 4 \in 1 .. Len(c) BY <3>3
    <3> QED BY <3>3, <3>4, ElementOfSeq
  <2>5. PICK a, b : a = <<LOAD, v>> /\ b = <<STORE, w>> OBVIOUS
  <2>6. a \in Seq(Nat) /\ b \in Seq(Nat) /\ Len(a) = 2 BY <2>4, <2>5 DEF LOAD, STORE
  <2>7. a \o b = LineCode(line)
    <3>1. PICK c, d : c = a \o b /\ d = <<LOAD, v, STORE, w>> OBVIOUS
    <3>2. Len(a) = 2 /\ a[1] = LOAD /\ a[2] = v /\ Len(b) = 2 /\ b[1] = STORE /\ b[2] = w
      BY <2>5
    <3>3. c \in Seq(Nat) /\ Len(c) = 4 /\ \A i \in 1 .. 4 : c[i] = IF i <= 2 THEN a[i] ELSE b[i - 2]
      <4>1. c \in Seq(Nat) /\ Len(c) = Len(a) + Len(b)
            /\ \A i \in 1 .. Len(a) + Len(b) : c[i] = IF i <= Len(a) THEN a[i] ELSE b[i - Len(a)]
        BY <2>6, <3>1, ConcatProperties, Zenon
      <4>2. Len(a) = 2 /\ Len(a) + Len(b) = 4 BY <3>2
      <4> QED BY <4>1, <4>2, Zenon
    <3>4. c[1] = LOAD /\ c[2] = v /\ c[3] = STORE /\ c[4] = w BY <3>2, <3>3
    <3>5. d \in Seq(Nat) /\ Len(d) = 4 /\ d[1] = LOAD /\ d[2] = v /\ d[3] = STORE /\ d[4] = w
      BY <2>4, <3>1 DEF LOAD, STORE
    <3>6. \A i \in 1 .. Len(c) : c[i] = d[i]
      <4>1. 1 .. Len(c) = {1, 2, 3, 4} BY <3>3
      <4> QED BY <3>4, <3>5, <4>1, Zenon
    <3>7. c = d BY <3>3, <3>5, <3>6, SeqEqual
    <3> QED BY <2>3, <3>1, <3>7, Zenon
  <2>8. Bytecode(<<a, b>>) BY <1>19, <2>1, <2>5, Zenon DEF StoreSequence
  <2>9. bytes' = bytes \o (a \o b) /\ starts' = starts \cup {Len(bytes) + 1, Len(bytes) + 1 + Len(a)}
    BY <1>9, <2>6, <2>8, BytecodeAdds, Zenon
  <2>10. Len(bytes) + 1 + Len(a) = Len(bytes) + 3 BY <1>9, <2>6
  <2> QED BY <1>15, <1>19, <2>2, <2>7, <2>9, <2>10
<1>20. CASE ParseSignal
  <2>1. AtLine({"signal"}) /\ phase' = phase /\ hasHalt' = hasHalt
        /\ Bytecode(StoreSequence(line.signal, line.port))
    BY <1>20 DEF ParseSignal, Native
  <2>2. line.kind = "signal" BY <2>1 DEF AtLine
  <2>3. Stores(line) /\ Value(line) = line.signal /\ Address(line) = line.port
    BY <2>2 DEF Stores, Value, Address
  <2> QED BY <1>19, <2>1, <2>2, <2>3
<1>21. CASE ParseMmio
  <2>1. CASE phase' = "failed"
    <3>1. bytes' = bytes BY <1>2, <1>21, <2>1 DEF ParseMmio, Native
    <3> QED BY <1>14, <2>1, <3>1
  <2>2. CASE phase' # "failed"
    <3>1. AtLine({"mmio"}) /\ phase' = phase /\ hasHalt' = hasHalt
          /\ Bytecode(StoreSequence(line.value, line.addr))
      BY <1>21, <2>2 DEF ParseMmio, Native
    <3>2. line.kind = "mmio" BY <3>1 DEF AtLine
    <3>3. Stores(line) /\ Value(line) = line.value /\ Address(line) = line.addr
      BY <3>2 DEF Stores, Value, Address
    <3> QED BY <1>19, <3>1, <3>2, <3>3
  <2> QED BY <2>1, <2>2
<1>22. CASE ParseHalt
  <2>1. AtLine({"halt"}) /\ phase' = phase /\ hasHalt' = TRUE /\ Bytecode(<<<<HALT>>>>)
    BY <1>22 DEF ParseHalt, Native
  <2>2. line.kind = "halt" /\ line \in Lines BY <1>16, <2>1 DEF AtLine
  <2>3. LineCode(line) = <<HALT>> /\ LineCode(line) \in Seq(Nat) BY <2>2, LineCodeFacts
  <2>4. bytes' = bytes \o LineCode(line) /\ starts' = starts \cup {Len(bytes) + 1}
    BY <1>9, <1>17, <2>1, <2>3, BytecodeAdds, Zenon
  <2>5. ~Stores(line) BY <2>2 DEF Stores
  <2> QED BY <1>15, <2>1, <2>2, <2>4, <2>5
<1>23. ASSUME AtLine({line.kind}), line.kind \notin {"say", "signal", "mmio", "halt"},
              phase' = phase, hasHalt' = hasHalt, bytes' = bytes, starts' = starts
       PROVE  BytecodeInv'
  <2>1. LineCode(line) = <<>> /\ ~Stores(line) BY <1>23 DEF LineCode, Stores
  <2>2. bytes' = bytes \o LineCode(line) BY <1>17, <1>23, <2>1, Zenon
  <2> QED BY <1>15, <1>23, <2>1, <2>2
<1>24. Bytecode(<<>>) => bytes' = bytes /\ starts' = starts
  BY <1>9, <1>17, BytecodeAdds, Zenon
<1>25. CASE ParseAt
  <2>1. AtLine({"at"}) /\ phase' = phase /\ hasHalt' = hasHalt /\ Bytecode(<<>>)
    BY <1>25 DEF ParseAt, Native
  <2>2. line.kind = "at" BY <2>1 DEF AtLine
  <2> QED BY <1>23, <1>24, <2>1, <2>2
<1>26. CASE ParseUi
  <2>1. AtLine({"ui"}) /\ phase' = phase /\ hasHalt' = hasHalt /\ Bytecode(<<>>)
    BY <1>26 DEF ParseUi, Native
  <2>2. line.kind = "ui" BY <2>1 DEF AtLine
  <2> QED BY <1>23, <1>24, <2>1, <2>2
<1>27. CASE ParseSkip
  <2>1. AtLine({"skip"}) /\ phase' = phase /\ hasHalt' = hasHalt /\ bytes' = bytes /\ starts' = starts
    BY <1>27 DEF ParseSkip
  <2>2. line.kind = "skip" BY <2>1 DEF AtLine
  <2> QED BY <1>23, <2>1, <2>2
<1>28. CASE ParseBroken
  BY <1>14, <1>28 DEF ParseBroken
<1>29. CASE ParseEnd
  <2>1. phase' = "write" /\ n = m /\ at = m + 1
    BY <1>6, <1>29 DEF ParseEnd
  <2>2. Bytecode(IF hasHalt THEN <<>> ELSE <<<<HALT>>>>) BY <1>29 DEF ParseEnd, Native
  <2>3. PICK c : c = Codes(source)[m + 1] OBVIOUS
  <2>4. c = IF hasHalt THEN <<>> ELSE <<HALT>>
    BY <1>1, <1>3, <1>6, <2>1, <2>3, CodesFacts
  <2>5. <<HALT>> \in Seq(Nat) BY DEF HALT
  <2>6. bytes' = bytes \o c /\ starts \subseteq starts'
        /\ (c # <<>> => Len(bytes) + 1 \in starts')
    <3>1. CASE hasHalt
      <4>1. bytes' = bytes /\ starts' = starts /\ c = <<>> BY <1>24, <2>2, <2>4, <3>1, Zenon
      <4> QED BY <1>17, <4>1, Zenon
    <3>2. CASE ~hasHalt
      <4>1. Bytecode(<<<<HALT>>>>) /\ c = <<HALT>> BY <2>2, <2>4, <3>2, Zenon
      <4>2. bytes' = bytes \o c /\ starts' = starts \cup {Len(bytes) + 1}
        BY <1>9, <1>17, <2>5, <4>1, BytecodeAdds, Zenon
      <4> QED BY <4>2
    <3> QED BY <3>1, <3>2
  <2>7. ~(n < Len(source)) BY <1>6, <2>1
  <2>8. Holds(n + 1)' BY <1>1, <1>5, <1>7, <1>8, <2>1, <2>3, <2>6, <2>7, HoldsGrows, Zenon
  <2>9. m + 1 \in 0 .. m + 1 BY <1>6
  <2>10. Len(file') <= Len(bytes') BY <1>13, <2>1, <2>8, <2>9, Zenon
  <2>11. Holds(Len(source) + 1)' BY <1>5, <1>6, <2>1, <2>8, Zenon DEF Holds
  <2> QED BY <1>5, <1>11, <1>12, <2>1, <2>10, <2>11 DEF BytecodeInv
<1> QED BY <1>18, <1>20, <1>21, <1>22, <1>25, <1>26, <1>27, <1>28, <1>29 DEF Parse
\* What the lines make does not change with the rest of the state.
LEMMA BytecodeFrame ==
  ASSUME UNCHANGED <<source, bytes, starts>>, NEW n
  PROVE  /\ Holds(n)' <=> Holds(n)
         /\ Said(n)' = Said(n)
         /\ Place(n)' = Place(n)
<1>1. source' = source /\ bytes' = bytes /\ starts' = starts OBVIOUS
<1>2. Said(n)' = Said(n) BY <1>1, Zenon DEF Said
<1>3. \A k : Place(k)' = Place(k) BY <1>1, Zenon DEF Place
<1>4. Holds(n)' <=> Holds(n) BY <1>1, <1>3, Zenon DEF Holds
<1> QED BY <1>2, <1>3, <1>4

LEMMA BytecodeFile ==
  ASSUME CommonInv, backend = "bytecode", BytecodeInv, WriteFails \/ Write
  PROVE  BytecodeInv'
<1>1. phase = "write" /\ phase' \in {"written", "failed"}
      /\ UNCHANGED <<source, at, hasHalt, bytes, starts, output>>
  BY DEF WriteFails, Write, frontVars, runVars
<1>2. source \in Sources /\ Len(source) \in Nat BY SourceFacts DEF CommonInv
<1>3. Holds(Len(source) + 1) BY <1>1 DEF BytecodeInv
<1>4. bytes \in Seq(Nat) /\ Len(bytes) \in Nat
  <2>1. Len(source) + 1 \in 0 .. Len(source) + 1 BY <1>2
  <2>2. bytes \in Seq(Nat) BY <1>2, <1>3, <2>1, HoldsFacts
  <2> QED BY <2>2
<1>5. file = <<>> BY <1>1 DEF CommonInv
<1>6. Holds(Len(source) + 1)' BY <1>1, <1>3, BytecodeFrame
<1>7. \E k \in 0 .. Len(source') : output' = Said(k)'
  <2>1. \E k \in 0 .. Len(source) : output = Said(k) BY DEF BytecodeInv
  <2> QED BY <1>1, <2>1, BytecodeFrame
<1>8. /\ file' \in Seq(Nat)
      /\ Len(file') <= Len(bytes)
      /\ \A i \in 1 .. Len(file') : file'[i] = bytes[i]
      /\ phase' = "written" => Len(file') = Len(bytes)
  <2>1. CASE Write
    <3>1. file' = bytes BY <2>1 DEF Write
    <3> QED BY <1>4, <3>1
  <2>2. CASE WriteFails
    <3>1. phase' = "failed" BY <2>2 DEF WriteFails
    <3>2. CASE file' = file
      <4>1. file' \in Seq(Nat) /\ Len(file') = 0 /\ 1 .. Len(file') = {} BY <1>5, <3>2, EmptySeq
      <4> QED BY <1>4, <3>1, <4>1
    <3>3. ASSUME NEW n \in 1 .. Len(bytes) - 1, file' = SubSeq(bytes, 1, n)
          PROVE  /\ file' \in Seq(Nat)
                 /\ Len(file') <= Len(bytes)
                 /\ \A i \in 1 .. Len(file') : file'[i] = bytes[i]
      <4>1. 1 <= n /\ n - 1 + 1 = n /\ n <= Len(bytes) /\ n \in Nat BY <1>4
      <4>2. \A i \in 1 .. n : bytes[i] \in Nat
        <5>1. \A i \in 1 .. n : i \in 1 .. Len(bytes) BY <1>4, <4>1
        <5> QED BY <1>4, <5>1, ElementOfSeq
      <4>3. /\ file' \in Seq(Nat)
            /\ Len(file') = IF 1 <= n THEN n - 1 + 1 ELSE 0
            /\ \A i \in 1 .. n - 1 + 1 : file'[i] = bytes[1 + i - 1]
        <5>1. 1 \in Int /\ n \in Int BY <4>1
        <5> QED BY <3>3, <4>2, <5>1, SubSeqProperties
      <4>4. Len(file') = n BY <4>1, <4>3
      <4>5. ASSUME NEW i \in 1 .. n PROVE file'[i] = bytes[i]
        <5>1. 1 + i - 1 = i /\ i \in 1 .. n - 1 + 1 BY <4>1
        <5> QED BY <4>3, <5>1
      <4> QED BY <4>1, <4>3, <4>4, <4>5
    <3> QED BY <2>2, <3>1, <3>2, <3>3 DEF WriteFails
  <2> QED BY <2>1, <2>2
<1> QED BY <1>1, <1>6, <1>7, <1>8 DEF BytecodeInv

LEMMA BytecodeUnchanged ==
  ASSUME BytecodeInv, UNCHANGED vars
  PROVE  BytecodeInv'
<1>1. UNCHANGED <<source, bytes, starts, at, hasHalt, phase, file, output, halted, pc, acc>>
  BY DEF vars, frontVars, runVars
<1>2. \A n : (Holds(n)' <=> Holds(n)) /\ Said(n)' = Said(n) /\ Place(n)' = Place(n)
  BY <1>1, BytecodeFrame
<1>3. \A k : (AtPiece(k)' <=> AtPiece(k)) /\ (InStore(k)' <=> InStore(k))
  BY <1>1, <1>2, Zenon DEF AtPiece, InStore
<1>4. phase = "parse" => Holds(at - 1)' /\ (hasHalt <=> ~Reached(source, at))
  <2>1. phase = "parse" => Holds(at - 1) /\ (hasHalt <=> ~Reached(source, at)) BY DEF BytecodeInv
  <2>2. Holds(at - 1)' <=> Holds(at - 1) BY <1>1, <1>2, Zenon DEF Holds
  <2> QED BY <2>1, <2>2
<1>5. phase \notin {"parse", "failed"} \/ file # <<>> => Holds(Len(source) + 1)'
  <2>1. Holds(Len(source) + 1)' <=> Holds(Len(source) + 1) BY <1>1, <1>2, Zenon DEF Holds
  <2> QED BY <2>1 DEF BytecodeInv
<1>6. phase = "run" => \E k \in 1 .. Len(source) + 1 : AtPiece(k)' \/ InStore(k)'
  BY <1>3 DEF BytecodeInv
<1>7. \E k \in 0 .. Len(source) : output = Said(k)' BY <1>2 DEF BytecodeInv
<1>8. Said(Len(source))' = Said(Len(source)) BY <1>1, <1>2, Zenon DEF Said
<1>9. phase = "ended" => IF halted THEN output = Said(Len(source))' ELSE Len(file) < Len(bytes)
  BY <1>8 DEF BytecodeInv
<1>10. file \in Seq(Nat) /\ Len(file) <= Len(bytes) /\ (\A i \in 1 .. Len(file) : file[i] = bytes[i])
       /\ (phase = "written" => Len(file) = Len(bytes))
  BY DEF BytecodeInv
<1> QED BY <1>1, <1>4, <1>5, <1>6, <1>7, <1>9, <1>10, Zenon DEF BytecodeInv
------------------------------------------------------------------------------
\* The bytecode machine

\* The machine is before an instruction of a line, or before the store of one.
LEMMA RunsAt ==
  ASSUME CommonInv, BytecodeInv, phase = "run"
  PROVE  \E k \in 1 .. Len(source) + 1 :
           InStore(k) \/ (AtPiece(k) /\ Codes(source)[k] # <<>>)
<1>1. source \in Sources /\ \A k \in 1 .. Len(source) : source[k] \in Lines
  BY SourceFacts DEF CommonInv
<1>2. PICK n \in Nat : n = Len(source) BY <1>1, SourceFacts
<1>3. \E k \in 1 .. n + 1 : AtPiece(k) \/ InStore(k) BY <1>2 DEF BytecodeInv
<1> DEFINE T == {k \in 1 .. n + 1 : AtPiece(k)}
<1>4. CASE T = {} BY <1>2, <1>3, <1>4
<1>5. CASE T # {}
  <2>1. T \in SUBSET (0 .. n + 1) /\ n + 1 \in Nat OBVIOUS
  <2>2. PICK k \in T : \A i \in T : i <= k
    <3> HIDE DEF T
    <3> QED BY <1>5, <2>1, LargestElement
  <2>3. k \in 1 .. n + 1 /\ AtPiece(k) BY <2>2
  <2>4. ASSUME Codes(source)[k] = <<>> PROVE FALSE
    <3>1. k # n + 1
      <4>1. Codes(source)[n + 1] = IF Reached(source, n + 1) THEN <<HALT>> ELSE <<>>
        BY <1>1, <1>2, CodesFacts, Zenon
      <4>2. AtPiece(n + 1) => Reached(source, n + 1) BY DEF AtPiece
      <4>3. <<HALT>> # <<>> OBVIOUS
      <4> QED BY <2>3, <2>4, <4>1, <4>2, <4>3
    <3>2. k \in 1 .. n /\ k + 1 \in 1 .. n + 1 /\ (k + 1) - 1 = k BY <2>3, <3>1
    <3>3. PICK l \in Lines : l = source[k] BY <1>1, <1>2, <3>2
    <3>4. LineCode(l) = <<>> BY <1>1, <1>2, <2>4, <3>2, <3>3, CodesFacts
    <3>5. l.kind # "say" /\ ~Stores(l) /\ l.kind # "halt"
      <4>1. Len(<<>>) = 0 OBVIOUS
      <4>2. ASSUME l.kind = "say" PROVE FALSE
        <5>1. Len(l.text) \in Nat /\ Len(LineCode(l)) = 5 + Len(l.text) BY <4>2, LineCodeFacts, Zenon
        <5> QED BY <3>4, <4>1, <5>1
      <4>3. ASSUME Stores(l) PROVE FALSE
        <5>1. Len(LineCode(l)) = 4 BY <4>3, LineCodeFacts, Zenon
        <5> QED BY <3>4, <4>1, <5>1
      <4>4. ASSUME l.kind = "halt" PROVE FALSE
        <5>1. LineCode(l) = <<HALT>> BY <4>4, LineCodeFacts, Zenon
        <5> QED BY <3>4, <5>1
      <4> QED BY <4>2, <4>3, <4>4
    <3>6. Reached(source, k) /\ output = Said(k - 1) /\ pc = Place(k) BY <2>3 DEF AtPiece
    <3>7. Reached(source, k + 1) BY <1>1, <1>2, <3>2, <3>3, <3>5, <3>6, ReachedFacts
    <3>8. output = Said(k)
      <4>1. BytecodePieces(source)[k] = <<>> BY <1>1, <1>2, <3>2, <3>3, <3>5, PieceFacts
      <4>2. Said(k) = Said(k - 1) \o <<>> BY <1>1, <1>2, <3>2, <4>1, SaidFacts
      <4>3. k - 1 \in 0 .. n BY <3>2
      <4>4. Said(k - 1) \in Seq(Seq(Cells)) BY <1>1, <1>2, <4>3, SaidFacts
      <4> QED BY <3>6, <4>2, <4>4, ConcatEmptySeq
    <3>9. pc = Place(k + 1)
      <4>1. Place(k + 1) = Place(k) + Len(Codes(source)[k]) /\ Place(k) \in Nat
        <5>1. k \in 1 .. n + 2 BY <2>3
        <5> QED BY <1>1, <1>2, <2>3, <5>1, PlaceFacts, Zenon
      <4>2. Len(Codes(source)[k]) = 0 BY <2>4
      <4> QED BY <3>6, <4>1, <4>2
    <3>10. AtPiece(k + 1) BY <3>2, <3>7, <3>8, <3>9, Zenon DEF AtPiece
    <3>11. k + 1 <= k BY <2>2, <3>2, <3>10
    <3> QED BY <3>2, <3>11
  <2> QED BY <1>2, <2>3, <2>4
<1> QED BY <1>4, <1>5

\* The bytes of a line are where the file has not been cut off.
LEMMA InFile ==
  ASSUME CommonInv, BytecodeInv, phase = "run", NEW k \in 1 .. Len(source) + 1
  PROVE  /\ Len(file) \in Nat /\ Len(bytes) \in Nat /\ Len(file) <= Len(bytes)
         /\ Place(k) \in Nat /\ Place(k) >= 5
         /\ Len(Codes(source)[k]) \in Nat
         /\ Place(k) + Len(Codes(source)[k]) - 1 <= Len(bytes)
         /\ Place(k + 1) = Place(k) + Len(Codes(source)[k])
         /\ \A j \in 1 .. Len(Codes(source)[k]) :
              Place(k) + j - 1 <= Len(file) => file[Place(k) + j - 1] = Codes(source)[k][j]
<1>1. source \in Sources BY DEF CommonInv
<1>2. PICK n \in Nat : n = Len(source) BY <1>1, SourceFacts
<1>3. Holds(n + 1) BY <1>2 DEF BytecodeInv
<1>4. n + 1 \in 0 .. Len(source) + 1 /\ k \in 1 .. n + 1 /\ k \in 1 .. Len(source) + 2
  BY <1>2
<1>5. file \in Seq(Nat) /\ Len(file) <= Len(bytes) /\ \A i \in 1 .. Len(file) : file[i] = bytes[i]
  BY DEF BytecodeInv
<1>6. bytes \in Seq(Nat) BY <1>1, <1>3, <1>4, HoldsFacts
<1>7. Len(file) \in Nat /\ Len(bytes) \in Nat BY <1>5, <1>6
<1>8. PICK a, c : a = Place(k) /\ c = Codes(source)[k] OBVIOUS
<1>9. a \in Nat /\ a >= 5 /\ Len(c) \in Nat /\ Place(k + 1) = a + Len(c)
  BY <1>1, <1>4, <1>8, PlaceFacts, Zenon
<1>10. a + Len(c) - 1 <= Len(bytes) /\ \A j \in 1 .. Len(c) : bytes[a + j - 1] = c[j]
  BY <1>1, <1>3, <1>4, <1>8, HoldsFacts, Zenon
<1>11. ASSUME NEW j \in 1 .. Len(c), a + j - 1 <= Len(file)
       PROVE  file[a + j - 1] = c[j]
  <2>1. a + j - 1 \in 1 .. Len(file) BY <1>7, <1>9, <1>11
  <2> QED BY <1>5, <1>10, <2>1, Zenon
<1> QED BY <1>5, <1>7, <1>8, <1>9, <1>10, <1>11, Zenon
\* The machine reads the instruction that the compiler put there.
LEMMA AtSay ==
  ASSUME CommonInv, BytecodeInv, ShortTexts, phase = "run",
         NEW k \in 1 .. Len(source), AtPiece(k), source[k].kind = "say"
  PROVE  LET text == source[k].text
         IN /\ Len(text) \in Nat
            /\ pc \in starts
            /\ Left > 0 => file[pc] = SAY
            /\ Left <= 0 \/ SayIsCut => Len(file) < Len(bytes)
            /\ Left > 0 /\ ~SayIsCut =>
                 /\ Length = Len(text)
                 /\ SayMessage([j \in 1 .. Length |->
                      IF pc + 4 + j <= Len(file) THEN file[pc + 4 + j] ELSE -1]) = SayMessage(text)
                 /\ pc + (5 + Length) = Place(k + 1)
<1>1. source \in Sources /\ Len(source) \in Nat /\ \A i \in 1 .. Len(source) : source[i] \in Lines
  BY SourceFacts DEF CommonInv
<1>2. k \in 1 .. Len(source) + 1 BY <1>1
<1>3. PICK t : t = source[k].text OBVIOUS
<1>4. t \in Seq(0 .. 255) BY <1>1, <1>3, LineFacts, Zenon
<1>5. PICK n \in Nat : n = Len(t) BY <1>4
<1>6. PICK c : c = Codes(source)[k] OBVIOUS
<1>7. c = LineCode(source[k]) BY <1>1, <1>6, CodesFacts
<1>8. /\ Len(c) = 5 + n /\ c[1] = SAY
      /\ \A j \in 1 .. 4 : c[j + 1] = U32(n)[j]
      /\ \A j \in 1 .. n : c[j + 5] = t[j]
  BY <1>1, <1>3, <1>5, <1>7, LineCodeFacts, Zenon
<1>9. PICK a : a = Place(k) OBVIOUS
<1>10. PICK z, y : z = Len(file) /\ y = Len(bytes) OBVIOUS
<1>11. /\ z \in Nat /\ y \in Nat /\ z <= y
       /\ a \in Nat /\ a >= 5
       /\ a + Len(c) - 1 <= y /\ Place(k + 1) = a + Len(c)
       /\ \A j \in 1 .. Len(c) : a + j - 1 <= z => file[a + j - 1] = c[j]
  BY <1>2, <1>6, <1>9, <1>10, InFile, Zenon
<1>12. a + (5 + n) - 1 <= y /\ Place(k + 1) = a + (5 + n)
       /\ \A j \in 1 .. 5 + n : a + j - 1 <= z => file[a + j - 1] = c[j]
  BY <1>8, <1>11, Zenon
<1>13. pc = a BY <1>9 DEF AtPiece
<1>14. Left = z - a + 1 BY <1>10, <1>13, Zenon DEF Left
<1>15. pc \in starts
  <2>1. Holds(Len(source) + 1) BY DEF BytecodeInv
  <2>2. c # <<>>
    <3>1. Len(<<>>) = 0 OBVIOUS
    <3> QED BY <1>8, <3>1
  <2>3. Place(k) \in starts BY <1>2, <1>6, <2>1, <2>2, Zenon DEF Holds
  <2> QED BY <1>9, <1>13, <2>3
<1>16. Left > 0 => file[pc] = SAY
  <2> SUFFICES ASSUME Left > 0 PROVE file[a] = SAY BY <1>13
  <2>1. 1 \in 1 .. 5 + n /\ a + 1 - 1 = a /\ a <= z BY <1>11, <1>14
  <2>2. file[a + 1 - 1] = c[1] BY <1>12, <2>1, Zenon
  <2> QED BY <1>8, <2>1, <2>2, Zenon
<1>17. ASSUME Left > 4 PROVE Length = n
  <2>1. \A j \in 1 .. 4 : file[a + j] = U32(n)[j]
    <3> SUFFICES ASSUME NEW j \in 1 .. 4 PROVE file[a + j] = U32(n)[j] OBVIOUS
    <3>1. j + 1 \in 1 .. 5 + n /\ a + (j + 1) - 1 = a + j /\ a + j <= z BY <1>11, <1>14, <1>17
    <3>2. file[a + (j + 1) - 1] = c[j + 1] BY <1>12, <3>1, Zenon
    <3> QED BY <1>8, <3>1, <3>2, Zenon
  <2>2. 1 \in 1 .. 4 /\ 2 \in 1 .. 4 /\ 3 \in 1 .. 4 /\ 4 \in 1 .. 4 OBVIOUS
  <2>3. file[a + 1] = U32(n)[1] /\ file[a + 2] = U32(n)[2]
        /\ file[a + 3] = U32(n)[3] /\ file[a + 4] = U32(n)[4]
    BY <2>1, <2>2, Zenon
  <2>4. n < 256 * 16777216 BY <1>1, <1>3, <1>5, SourceFacts DEF ShortTexts
  <2>5. U32(n)[1] + 256 * U32(n)[2] + 65536 * U32(n)[3] + 16777216 * U32(n)[4] = n
    BY <2>4, U32Facts
  <2>6. Length = U32(n)[1] + 256 * U32(n)[2] + 65536 * U32(n)[3] + 16777216 * U32(n)[4]
    BY <1>13, <2>3 DEF Length
  <2> QED BY <2>5, <2>6
<1>18. Left - 1 < 4 <=> ~(Left > 4) BY <1>11, <1>14
<1>19. SayIsCut <=> ~(Left > 4) \/ (Left > 4 /\ Left - 5 < n)
  BY <1>17, <1>18, Zenon DEF SayIsCut
<1>20. Left <= 0 \/ SayIsCut => z < y BY <1>11, <1>12, <1>14, <1>19
<1>21. ASSUME Left > 0, ~SayIsCut
       PROVE  /\ Length = n
              /\ SayMessage([j \in 1 .. Length |->
                   IF pc + 4 + j <= Len(file) THEN file[pc + 4 + j] ELSE -1]) = SayMessage(t)
              /\ pc + (5 + Length) = Place(k + 1)
  <2>1. Left > 4 /\ Left - 5 >= n BY <1>11, <1>14, <1>19, <1>21
  <2>2. Length = n BY <1>17, <2>1
  <2>3. ASSUME NEW j \in 1 .. n
        PROVE  (IF a + 4 + j <= z THEN file[a + 4 + j] ELSE -1) = t[j]
    <3>1. j + 5 \in 1 .. 5 + n /\ a + (j + 5) - 1 = a + 4 + j /\ a + 4 + j <= z
      BY <1>11, <1>14, <2>1
    <3>2. file[a + (j + 5) - 1] = c[j + 5] BY <1>12, <3>1, Zenon
    <3> QED BY <1>8, <3>1, <3>2, Zenon
  <2>4. [j \in 1 .. n |-> IF a + 4 + j <= z THEN file[a + 4 + j] ELSE -1] = [j \in 1 .. n |-> t[j]]
    BY <2>3
  <2>5. t = [j \in 1 .. n |-> t[j]] BY <1>4, <1>5
  <2>6. [j \in 1 .. Length |-> IF pc + 4 + j <= Len(file) THEN file[pc + 4 + j] ELSE -1] = t
    BY <1>10, <1>13, <2>2, <2>4, <2>5, Zenon
  <2> QED BY <1>12, <1>13, <2>2, <2>6, Zenon
<1> QED BY <1>3, <1>5, <1>10, <1>15, <1>16, <1>20, <1>21, Zenon

LEMMA AtLoad ==
  ASSUME CommonInv, BytecodeInv, phase = "run",
         NEW k \in 1 .. Len(source), AtPiece(k), Stores(source[k])
  PROVE  /\ pc \in starts
         /\ Left > 0 => file[pc] = LOAD
         /\ Left < 2 => Len(file) < Len(bytes)
         /\ Left >= 2 => file[pc + 1] = Value(source[k])
         /\ pc + 2 = Place(k) + 2
<1>1. source \in Sources /\ Len(source) \in Nat /\ \A i \in 1 .. Len(source) : source[i] \in Lines
  BY SourceFacts DEF CommonInv
<1>2. k \in 1 .. Len(source) + 1 BY <1>1
<1>3. PICK c : c = Codes(source)[k] OBVIOUS
<1>4. c = LineCode(source[k]) BY <1>1, <1>3, CodesFacts
<1>5. Len(c) = 4 /\ c[1] = LOAD /\ c[2] = Value(source[k])
  BY <1>1, <1>4, LineCodeFacts, Zenon
<1>6. PICK a, z, y : a = Place(k) /\ z = Len(file) /\ y = Len(bytes) OBVIOUS
<1>7. /\ z \in Nat /\ y \in Nat /\ z <= y
      /\ a \in Nat /\ a >= 5
      /\ a + 4 - 1 <= y
      /\ \A j \in 1 .. 4 : a + j - 1 <= z => file[a + j - 1] = c[j]
  BY <1>2, <1>3, <1>5, <1>6, InFile
<1>8. pc = a BY <1>6 DEF AtPiece
<1>9. Left = z - a + 1 BY <1>6, <1>8, Zenon DEF Left
<1>10. pc \in starts
  <2>1. Holds(Len(source) + 1) BY DEF BytecodeInv
  <2>2. c # <<>>
    <3>1. Len(<<>>) = 0 OBVIOUS
    <3> QED BY <1>5, <3>1
  <2>3. Place(k) \in starts BY <1>2, <1>3, <2>1, <2>2, Zenon DEF Holds
  <2> QED BY <1>6, <1>8, <2>3
<1>11. Left > 0 => file[a] = LOAD
  <2> SUFFICES ASSUME Left > 0 PROVE file[a] = LOAD OBVIOUS
  <2>1. 1 \in 1 .. 4 /\ a + 1 - 1 = a /\ a <= z BY <1>7, <1>9
  <2> QED BY <1>5, <1>7, <2>1
<1>12. Left >= 2 => file[a + 1] = c[2]
  <2> SUFFICES ASSUME Left >= 2 PROVE file[a + 1] = c[2] OBVIOUS
  <2>1. 2 \in 1 .. 4 /\ a + 2 - 1 = a + 1 /\ a + 1 <= z BY <1>7, <1>9
  <2>2. file[a + 2 - 1] = c[2] BY <1>7, <2>1
  <2> QED BY <2>1, <2>2, Zenon
<1>13. Left < 2 => z < y BY <1>7, <1>9
<1> QED BY <1>5, <1>6, <1>8, <1>10, <1>11, <1>12, <1>13, Zenon

LEMMA AtStore ==
  ASSUME CommonInv, BytecodeInv, phase = "run",
         NEW k \in 1 .. Len(source), InStore(k)
  PROVE  /\ pc \in starts
         /\ Left > 0 => file[pc] = STORE
         /\ Left < 2 => Len(file) < Len(bytes)
         /\ Left >= 2 => file[pc + 1] = Address(source[k])
         /\ pc + 2 = Place(k + 1)
<1>1. source \in Sources /\ Len(source) \in Nat /\ \A i \in 1 .. Len(source) : source[i] \in Lines
  BY SourceFacts DEF CommonInv
<1>2. k \in 1 .. Len(source) + 1 BY <1>1
<1>3. PICK c : c = Codes(source)[k] OBVIOUS
<1>4. c = LineCode(source[k]) BY <1>1, <1>3, CodesFacts
<1>5. Stores(source[k]) BY DEF InStore
<1>6. Len(c) = 4 /\ c[3] = STORE /\ c[4] = Address(source[k])
  BY <1>1, <1>4, <1>5, LineCodeFacts, Zenon
<1>7. PICK a, z, y : a = Place(k) /\ z = Len(file) /\ y = Len(bytes) OBVIOUS
<1>8. /\ z \in Nat /\ y \in Nat /\ z <= y
      /\ a \in Nat /\ a >= 5
      /\ a + 4 - 1 <= y /\ Place(k + 1) = a + 4
      /\ \A j \in 1 .. 4 : a + j - 1 <= z => file[a + j - 1] = c[j]
  BY <1>2, <1>3, <1>6, <1>7, InFile
<1>9. pc = a + 2 BY <1>7 DEF InStore
<1>10. Left = z - (a + 2) + 1 BY <1>7, <1>9, Zenon DEF Left
<1>11. pc \in starts
  <2>1. Holds(Len(source) + 1) BY DEF BytecodeInv
  <2>2. k <= Len(source) BY <1>1
  <2>3. Place(k) + 2 \in starts BY <1>2, <1>5, <2>1, <2>2, Zenon DEF Holds
  <2> QED BY <1>7, <1>9, <2>3
<1>12. Left > 0 => file[pc] = STORE
  <2> SUFFICES ASSUME Left > 0 PROVE file[pc] = STORE OBVIOUS
  <2>1. 3 \in 1 .. 4 /\ a + 3 - 1 = a + 2 /\ a + 2 <= z BY <1>8, <1>10
  <2>2. file[a + 3 - 1] = c[3] BY <1>8, <2>1
  <2> QED BY <1>6, <1>9, <2>1, <2>2, Zenon
<1>13. Left >= 2 => file[pc + 1] = c[4]
  <2> SUFFICES ASSUME Left >= 2 PROVE file[pc + 1] = c[4] OBVIOUS
  <2>1. 4 \in 1 .. 4 /\ a + 4 - 1 = a + 2 + 1 /\ a + 2 + 1 <= z BY <1>8, <1>10
  <2>2. file[a + 4 - 1] = c[4] BY <1>8, <2>1
  <2> QED BY <1>9, <2>1, <2>2, Zenon
<1>14. Left < 2 => z < y BY <1>8, <1>10
<1>15. pc + 2 = Place(k + 1) BY <1>8, <1>9
<1> QED BY <1>6, <1>7, <1>11, <1>12, <1>13, <1>14, <1>15, Zenon

LEMMA AtHalt ==
  ASSUME CommonInv, BytecodeInv, phase = "run",
         NEW k \in 1 .. Len(source) + 1, AtPiece(k), Codes(source)[k] = <<HALT>>
  PROVE  /\ pc \in starts
         /\ Left > 0 => file[pc] = HALT
         /\ Left <= 0 => Len(file) < Len(bytes)
<1>1. PICK c : c = Codes(source)[k] OBVIOUS
<1>2. Len(c) = 1 /\ c[1] = HALT /\ c # <<>> BY <1>1
<1>3. PICK a, z, y : a = Place(k) /\ z = Len(file) /\ y = Len(bytes) OBVIOUS
<1>4. /\ z \in Nat /\ y \in Nat /\ z <= y
      /\ a \in Nat /\ a >= 5
      /\ a + 1 - 1 <= y
      /\ \A j \in 1 .. 1 : a + j - 1 <= z => file[a + j - 1] = c[j]
  BY <1>1, <1>2, <1>3, InFile
<1>5. pc = a BY <1>3 DEF AtPiece
<1>6. Left = z - a + 1 BY <1>3, <1>5, Zenon DEF Left
<1>7. pc \in starts
  <2>1. Holds(Len(source) + 1) BY DEF BytecodeInv
  <2>2. Place(k) \in starts BY <1>1, <1>2, <2>1, Zenon DEF Holds
  <2> QED BY <1>3, <1>5, <2>2
<1>8. Left > 0 => file[a] = HALT
  <2> SUFFICES ASSUME Left > 0 PROVE file[a] = HALT OBVIOUS
  <2>1. 1 \in 1 .. 1 /\ a + 1 - 1 = a /\ a <= z BY <1>4, <1>6
  <2> QED BY <1>2, <1>4, <2>1
<1>9. Left <= 0 => z < y BY <1>4, <1>6
<1> QED BY <1>3, <1>5, <1>7, <1>8, <1>9, Zenon
\* The lines whose bytecode is something.
LEMMA CodeKinds ==
  ASSUME CommonInv, NEW k \in 1 .. Len(source) + 1, Codes(source)[k] # <<>>
  PROVE  \/ k \in 1 .. Len(source) /\ source[k].kind = "say"
         \/ k \in 1 .. Len(source) /\ Stores(source[k])
         \/ Codes(source)[k] = <<HALT>> /\ (k \in 1 .. Len(source) => source[k].kind = "halt")
<1>1. source \in Sources /\ Len(source) \in Nat /\ \A i \in 1 .. Len(source) : source[i] \in Lines
  BY SourceFacts DEF CommonInv
<1>2. CASE k \in 1 .. Len(source)
  <2>1. PICK l \in Lines : l = source[k] BY <1>1, <1>2
  <2>2. Codes(source)[k] = LineCode(l) BY <1>1, <1>2, <2>1, CodesFacts
  <2>3. LineCode(l) # <<>> BY <2>2
  <2>4. l.kind = "say" \/ Stores(l) \/ l.kind = "halt" BY <2>3, LineCodeFacts, Zenon
  <2>5. l.kind = "halt" => LineCode(l) = <<HALT>> BY LineCodeFacts, Zenon
  <2> QED BY <1>2, <2>1, <2>2, <2>4, <2>5
<1>3. CASE k = Len(source) + 1
  <2>1. Codes(source)[k] = IF Reached(source, k) THEN <<HALT>> ELSE <<>> BY <1>1, <1>3, CodesFacts
  <2>2. k \notin 1 .. Len(source) BY <1>1, <1>3
  <2> QED BY <2>1, <2>2
<1>4. k \in 1 .. Len(source) \/ k = Len(source) + 1 BY <1>1
<1> QED BY <1>2, <1>3, <1>4

\* What a step of the machine has to keep.
LEMMA RunKeeps ==
  ASSUME CommonInv, BytecodeInv, phase = "run", phase' \in {"run", "ended"},
         UNCHANGED <<frontVars, file>>,
         phase' = "run" => \E k \in 1 .. Len(source) + 1 : AtPiece(k)' \/ InStore(k)',
         \E k \in 0 .. Len(source) : output' = Said(k),
         phase' = "ended" => IF halted' THEN output' = Said(Len(source))
                                        ELSE Len(file) < Len(bytes)
  PROVE  BytecodeInv'
<1>1. UNCHANGED <<source, at, hasHalt, bytes, starts, file>> BY DEF frontVars
<1>2. \A n : (Holds(n)' <=> Holds(n)) /\ Said(n)' = Said(n)
  BY <1>1, BytecodeFrame
<1>3. Holds(Len(source) + 1)'
  <2>1. Holds(Len(source) + 1) BY DEF BytecodeInv
  <2> QED BY <1>1, <1>2, <2>1, Zenon DEF Holds
<1>4. \E k \in 0 .. Len(source') : output' = Said(k)' BY <1>1, <1>2, Zenon
<1>5. Said(Len(source))' = Said(Len(source)) BY <1>1, <1>2, Zenon DEF Said
<1>6. phase' = "ended" => IF halted' THEN output' = Said(Len(source))'
                                     ELSE Len(file') < Len(bytes')
  BY <1>1, <1>5, Zenon
<1>7. phase' = "run" => \E k \in 1 .. Len(source') + 1 : AtPiece(k)' \/ InStore(k)'
  BY <1>1, Zenon
<1>8. file' \in Seq(Nat) /\ Len(file') <= Len(bytes') /\ \A i \in 1 .. Len(file') : file'[i] = bytes'[i]
  BY <1>1 DEF BytecodeInv
<1>9. phase' # "parse" /\ phase' # "written" OBVIOUS
<1> QED BY <1>3, <1>4, <1>6, <1>7, <1>8, <1>9, Zenon DEF BytecodeInv

\* Behind a halt nothing is said.
LEMMA SaidAtHalt ==
  ASSUME CommonInv, NEW k \in 1 .. Len(source) + 1,
         k \in 1 .. Len(source) => source[k].kind = "halt"
  PROVE  Said(k - 1) = Said(Len(source))
<1>1. source \in Sources /\ Len(source) \in Nat BY SourceFacts DEF CommonInv
<1>2. PICK m, j \in Nat : m = Len(source) /\ j = k - 1 BY <1>1
<1>3. ASSUME NEW i \in j + 1 .. m PROVE BytecodePieces(source)[i] = <<>>
  <2>1. k \in 1 .. m /\ i \in 1 .. m /\ j + 1 = k BY <1>2
  <2>2. source[k].kind = "halt" BY <1>2, <2>1
  <2>3. CASE i = k
    <3>1. ~Stores(source[i]) /\ source[i].kind # "say" BY <2>2, <2>3 DEF Stores
    <3> QED BY <1>1, <1>2, <2>1, <3>1, PieceFacts
  <2>4. CASE i # k
    <3>1. k + 1 \in 1 .. m /\ i \in k + 1 .. m + 1 BY <2>1, <2>4
    <3>2. ~Reached(source, k + 1) BY <1>1, <1>2, <2>1, <2>2, ReachedFacts
    <3>3. ~Reached(source, i) BY <1>1, <1>2, <3>1, <3>2, ReachedFacts
    <3> QED BY <1>1, <1>2, <2>1, <3>3, PieceFacts
  <2> QED BY <2>3, <2>4
<1>4. m \in 0 .. m /\ j \in 0 .. m BY <1>2
<1>5. Said(m) = Said(j) BY <1>1, <1>2, <1>3, <1>4, SaidRests
<1> QED BY <1>2, <1>5

LEMMA MachineStarts ==
  ASSUME CommonInv, backend = "bytecode", BytecodeInv, StartRun
  PROVE  BytecodeInv'
<1>1. source \in Sources /\ Len(source) \in Nat BY SourceFacts DEF CommonInv
<1>2. /\ phase \in {"written", "failed"} /\ (phase = "written" \/ file # <<>>)
      /\ UNCHANGED <<source, at, hasHalt, bytes, starts, file, output, halted>>
      /\ phase' = (IF HasMagic THEN "run" ELSE "ended")
      /\ HasMagic => pc' = 5
  BY DEF StartRun, EndRun, frontVars
<1>3. \A n : (Holds(n)' <=> Holds(n)) /\ Said(n)' = Said(n) /\ Place(n)' = Place(n)
  BY <1>2, BytecodeFrame
<1>4. Holds(Len(source) + 1) BY <1>2 DEF BytecodeInv
<1>5. Holds(Len(source) + 1)' BY <1>2, <1>3, <1>4, Zenon DEF Holds
<1>6. output = <<>> /\ ~halted BY <1>2 DEF CommonInv
<1>7. \E k \in 0 .. Len(source') : output' = Said(k)'
  <2>1. \E k \in 0 .. Len(source) : output = Said(k) BY DEF BytecodeInv
  <2> QED BY <1>2, <1>3, <2>1, Zenon
<1>8. file' \in Seq(Nat) /\ Len(file') <= Len(bytes') /\ \A i \in 1 .. Len(file') : file'[i] = bytes'[i]
  BY <1>2 DEF BytecodeInv
<1>9. ASSUME HasMagic PROVE \E k \in 1 .. Len(source') + 1 : AtPiece(k)' \/ InStore(k)'
  <2>1. 1 \in 1 .. Len(source) + 1 /\ 1 - 1 = 0 BY <1>1
  <2>2. Reached(source, 1)
    <3>1. 1 .. 1 - 1 = {} OBVIOUS
    <3> QED BY <3>1 DEF Reached
  <2>3. output' = Said(1 - 1)'
    <3>1. Said(0) = <<>> BY <1>1, SaidFacts
    <3>2. Said(0)' = <<>> BY <1>3, <3>1
    <3> QED BY <1>2, <1>6, <2>1, <3>2, Zenon
  <2>4. pc' = Place(1)' BY <1>1, <1>2, <1>3, <1>9, PlaceFacts
  <2>5. AtPiece(1)' BY <1>2, <2>2, <2>3, <2>4, Zenon DEF AtPiece
  <2> QED BY <1>2, <2>1, <2>5, Zenon
<1>10. ASSUME ~HasMagic PROVE Len(file) < Len(bytes)
  <2>1. Len(source) + 1 \in 0 .. Len(source) + 1 BY <1>1
  <2>2. bytes \in Seq(Nat) /\ Len(bytes) >= 4 /\ \A i \in 1 .. 4 : bytes[i] = Magic[i]
    BY <1>1, <1>4, <2>1, HoldsFacts
  <2>3. file \in Seq(Nat) /\ Len(file) <= Len(bytes) /\ \A i \in 1 .. Len(file) : file[i] = bytes[i]
    BY DEF BytecodeInv
  <2>4. Len(file) \in Nat /\ Len(bytes) \in Nat BY <2>2, <2>3
  <2>5. ASSUME Len(file) = Len(bytes) PROVE FALSE
    <3>1. 1 .. 4 \subseteq 1 .. Len(file) BY <2>2, <2>4, <2>5
    <3>2. \A i \in 1 .. 4 : file[i] = Magic[i] /\ file[i] \in Nat
      BY <2>2, <2>3, <3>1, ElementOfSeq
    <3>3. PICK h : h = SubSeq(file, 1, 4) OBVIOUS
    <3>4. h \in Seq(Nat) /\ Len(h) = (IF 1 <= 4 THEN 4 - 1 + 1 ELSE 0)
          /\ \A i \in 1 .. 4 - 1 + 1 : h[i] = file[1 + i - 1]
      <4>1. 1 \in Int /\ 4 \in Int OBVIOUS
      <4> QED BY <3>2, <3>3, <4>1, SubSeqProperties
    <3>5. Len(h) = 4 /\ \A i \in 1 .. 4 : h[i] = Magic[i]
      <4>1. \A i \in 1 .. 4 : i \in 1 .. 4 - 1 + 1 /\ 1 + i - 1 = i OBVIOUS
      <4>2. \A i \in 1 .. 4 : h[i] = file[i] BY <3>4, <4>1
      <4> QED BY <3>2, <3>4, <4>2
    <3>6. Magic \in Seq(Nat) /\ Len(Magic) = 4 BY DEF Magic
    <3>7. h = Magic BY <3>4, <3>5, <3>6, SeqEqual
    <3>8. Len(file) >= 4 BY <2>2, <2>5
    <3> QED BY <1>10, <3>3, <3>7, <3>8 DEF HasMagic
  <2> QED BY <2>3, <2>4, <2>5
<1>11. phase' = "run" => HasMagic BY <1>2
<1>12. phase' = "ended" => ~HasMagic BY <1>2
<1>13. phase' \in {"run", "ended"} BY <1>2
<1>14. phase' # "parse" /\ phase' # "written" BY <1>13
<1>15. phase' = "ended" => ~halted' /\ Len(file') < Len(bytes')
  BY <1>2, <1>6, <1>10, <1>12
<1> QED BY <1>2, <1>5, <1>7, <1>8, <1>9, <1>11, <1>14, <1>15, Zenon DEF BytecodeInv

LEMMA MachineRuns ==
  ASSUME CommonInv, backend = "bytecode", BytecodeInv, ShortTexts,
         RunHalt \/ RunSay \/ RunLoad \/ RunStore \/ RunError \/ RunOff
  PROVE  BytecodeInv'
<1>1. source \in Sources /\ Len(source) \in Nat /\ \A i \in 1 .. Len(source) : source[i] \in Lines
  BY SourceFacts DEF CommonInv
<1>2. phase = "run" /\ phase' \in {"run", "ended"} /\ UNCHANGED <<frontVars, file>>
  BY DEF RunHalt, RunSay, RunLoad, RunStore, RunError, RunOff, At, Goes, EndRun
<1>3. ~halted BY <1>2 DEF CommonInv
<1>4. PICK k \in 1 .. Len(source) + 1 : InStore(k) \/ (AtPiece(k) /\ Codes(source)[k] # <<>>)
  BY <1>2, RunsAt
<1>5. k - 1 \in 0 .. Len(source) /\ output = Said(k - 1) BY <1>1, <1>4 DEF InStore, AtPiece
<1>6. Said(k - 1) \in Seq(Seq(Cells)) BY <1>1, <1>5, SaidFacts
<1>7. ASSUME phase' = "ended", output' = output, halted' = halted, Len(file) < Len(bytes)
      PROVE  BytecodeInv'
  <2>1. \E i \in 0 .. Len(source) : output' = Said(i) BY <1>5, <1>7
  <2>2. ~halted' /\ phase' # "run" BY <1>3, <1>7
  <2> QED BY <1>2, <1>7, <2>1, <2>2, RunKeeps
<1>8. ASSUME phase' = "run", NEW j \in 1 .. Len(source) + 1, output' = Said(j - 1),
             AtPiece(j)' \/ InStore(j)'
      PROVE  BytecodeInv'
  <2>1. j - 1 \in 0 .. Len(source) BY <1>1
  <2>2. \E i \in 0 .. Len(source) : output' = Said(i) BY <1>8, <2>1
  <2>3. phase' # "ended" BY <1>8
  <2>4. \E i \in 1 .. Len(source) + 1 : AtPiece(i)' \/ InStore(i)' BY <1>8
  <2> QED BY <1>2, <2>2, <2>3, <2>4, RunKeeps
<1>9. UNCHANGED <<source, bytes, starts>> BY <1>2 DEF frontVars
<1>10. \A n : Said(n)' = Said(n) /\ Place(n)' = Place(n) BY <1>9, BytecodeFrame
<1>11. \A i, j \in {HALT, SAY, LOAD, STORE} : At(i) /\ At(j) => i = j BY DEF At
<1>12. HALT # SAY /\ HALT # LOAD /\ HALT # STORE /\ SAY # LOAD /\ SAY # STORE /\ LOAD # STORE
  BY DEF HALT, SAY, LOAD, STORE
<1>13. ASSUME NEW opcode \in {HALT, SAY, LOAD, STORE},
              Left > 0 => file[pc] = opcode
       PROVE  /\ RunHalt => opcode = HALT
              /\ RunSay => opcode = SAY
              /\ RunLoad => opcode = LOAD
              /\ RunStore => opcode = STORE
              /\ RunError => /\ opcode # HALT
                             /\ opcode = SAY => SayIsCut
                             /\ opcode \in {LOAD, STORE} => Left < 2
  BY <1>12, <1>13 DEF RunHalt, RunSay, RunLoad, RunStore, RunError, At
<1>14. RunOff => Left <= 0 BY DEF RunOff
<1>15. RunOff \/ RunError => phase' = "ended" /\ output' = output /\ halted' = halted
  BY DEF RunOff, RunError, EndRun
<1>16. CASE InStore(k)
  <2>1. k \in 1 .. Len(source) /\ Stores(source[k]) /\ Reached(source, k) /\ acc = Value(source[k])
    BY <1>1, <1>16 DEF InStore
  <2>2. /\ Left > 0 => file[pc] = STORE
        /\ Left < 2 => Len(file) < Len(bytes)
        /\ Left >= 2 => file[pc + 1] = Address(source[k])
        /\ pc + 2 = Place(k + 1)
    BY <1>2, <1>16, <2>1, AtStore
  <2>3. STORE \in {HALT, SAY, LOAD, STORE} OBVIOUS
  <2>4. ~RunHalt /\ ~RunSay /\ ~RunLoad /\ (RunError => Left < 2)
    BY <1>12, <1>13, <2>2, <2>3
  <2>5. CASE RunOff \/ RunError
    <3>1. Left < 2
      <4>1. CASE RunError BY <2>4, <4>1
      <4>2. CASE RunOff
        <5>1. Left \in Int
          <6>1. file \in Seq(Nat) /\ pc = Place(k) + 2 BY <1>16 DEF BytecodeInv, InStore
          <6>2. k \in 1 .. Len(source) + 2 BY <1>1
          <6>3. Place(k) \in Nat BY <1>1, <6>2, PlaceFacts
          <6>4. Len(file) \in Nat BY <6>1
          <6> QED BY <6>1, <6>3, <6>4 DEF Left
        <5> QED BY <1>14, <4>2, <5>1
      <4> QED BY <2>5, <4>1, <4>2
    <3> QED BY <1>7, <1>15, <2>2, <2>5, <3>1
  <2>6. CASE RunStore
    <3>1. phase' = "run" /\ pc' = pc + 2 /\ Left >= 2
          /\ output' = IF file[pc + 1] \in {PULSE_PORT, EMIT_PORT}
                         THEN Append(output, SignalMessage(file[pc + 1], acc)) ELSE output
      BY <1>2, <2>6 DEF RunStore, Goes
    <3>2. PICK s : s = SignalMessage(Address(source[k]), Value(source[k])) OBVIOUS
    <3>3. s \in Seq(Cells)
      <4>1. Value(source[k]) \in Int
        <5>1. PICK l \in Lines : l = source[k] BY <1>1, <2>1
        <5>2. PICK c : c = LineCode(l) OBVIOUS
        <5>3. c \in Seq(Nat) /\ Len(c) = 4 /\ c[2] = Value(l)
          BY <2>1, <5>1, <5>2, LineCodeFacts, Zenon
        <5>4. 2 \in 1 .. Len(c) BY <5>3
        <5>5. Value(l) \in Nat BY <5>3, <5>4, ElementOfSeq
        <5> QED BY <5>1, <5>5
      <4> QED BY <3>2, <4>1, SignalMessageFacts
    <3>4. BytecodePieces(source)[k] = IF Address(source[k]) \in {PULSE_PORT, EMIT_PORT}
                                        THEN <<s>> ELSE <<>>
      BY <1>1, <2>1, <3>2, PieceFacts
    <3>5. output' = IF Address(source[k]) \in {PULSE_PORT, EMIT_PORT}
                      THEN Append(output, s) ELSE output
      BY <2>1, <2>2, <3>1, <3>2, Zenon
    <3>6. Append(output, s) = output \o <<s>> BY <1>5, <1>6, <3>3, AppendIsConcat, Zenon
    <3>7. output \o <<>> = output BY <1>5, <1>6, ConcatEmptySeq, Zenon
    <3>8. output' = output \o BytecodePieces(source)[k] BY <3>4, <3>5, <3>6, <3>7, Zenon
    <3>9. output' = Said(k)
      <4>1. Said(k) = Said(k - 1) \o BytecodePieces(source)[k] BY <1>1, <2>1, SaidFacts
      <4> QED BY <1>5, <3>8, <4>1, Zenon
    <3>10. k + 1 \in 1 .. Len(source) + 1 /\ (k + 1) - 1 = k BY <1>1, <2>1
    <3>11. Reached(source, k + 1)
      <4>1. source[k].kind # "halt" BY <2>1 DEF Stores
      <4> QED BY <1>1, <2>1, <4>1, ReachedFacts
    <3>12. AtPiece(k + 1)'
      <4>1. output' = Said((k + 1) - 1)' BY <1>10, <3>9, <3>10, Zenon
      <4>2. pc' = Place(k + 1)' BY <1>10, <2>2, <3>1, Zenon
      <4>3. Reached(source', k + 1) BY <1>9, <3>11, Zenon
      <4> QED BY <4>1, <4>2, <4>3, Zenon DEF AtPiece
    <3> QED BY <1>8, <3>1, <3>9, <3>10, <3>12
  <2> QED BY <2>4, <2>5, <2>6
<1>17. CASE AtPiece(k) /\ k \in 1 .. Len(source) /\ source[k].kind = "say"
  <2>1. PICK t : t = source[k].text OBVIOUS
  <2>2. /\ Left > 0 => file[pc] = SAY
        /\ Left <= 0 \/ SayIsCut => Len(file) < Len(bytes)
        /\ Left > 0 /\ ~SayIsCut =>
             /\ SayMessage([j \in 1 .. Length |->
                  IF pc + 4 + j <= Len(file) THEN file[pc + 4 + j] ELSE -1]) = SayMessage(t)
             /\ pc + (5 + Length) = Place(k + 1)
    BY <1>2, <1>17, <2>1, AtSay, Zenon
  <2>3. SAY \in {HALT, SAY, LOAD, STORE} OBVIOUS
  <2>4. ~RunHalt /\ ~RunLoad /\ ~RunStore /\ (RunError => SayIsCut)
    BY <1>12, <1>13, <2>2, <2>3
  <2>5. CASE RunOff \/ RunError BY <1>7, <1>14, <1>15, <2>2, <2>4, <2>5
  <2>6. CASE RunSay
    <3>1. phase' = "run" /\ Left > 0 /\ ~SayIsCut /\ pc' = pc + (5 + Length)
          /\ output' = Append(output, SayMessage([j \in 1 .. Length |->
                         IF pc + 4 + j <= Len(file) THEN file[pc + 4 + j] ELSE -1]))
      BY <1>2, <2>6 DEF RunSay, At, Goes
    <3>2. PICK s : s = SayMessage(t) OBVIOUS
    <3>3. s \in Seq(Cells)
      <4>1. t \in Seq(0 .. 255) BY <1>1, <1>17, <2>1, LineFacts, Zenon
      <4> QED BY <3>2, <4>1, SayMessageFacts
    <3>4. output' = Append(output, s) BY <2>2, <3>1, <3>2, Zenon
    <3>5. Append(output, s) = output \o <<s>> BY <1>5, <1>6, <3>3, AppendIsConcat, Zenon
    <3>6. Reached(source, k) BY <1>17 DEF AtPiece
    <3>7. BytecodePieces(source)[k] = <<s>> BY <1>1, <1>17, <2>1, <3>2, <3>6, PieceFacts
    <3>8. output' = Said(k)
      <4>1. Said(k) = Said(k - 1) \o BytecodePieces(source)[k] BY <1>1, <1>17, SaidFacts
      <4> QED BY <1>5, <3>4, <3>5, <3>7, <4>1, Zenon
    <3>9. k + 1 \in 1 .. Len(source) + 1 /\ (k + 1) - 1 = k BY <1>1, <1>17
    <3>10. Reached(source, k + 1) BY <1>1, <1>17, <3>6, ReachedFacts
    <3>11. AtPiece(k + 1)'
      <4>1. output' = Said((k + 1) - 1)' BY <1>10, <3>8, <3>9, Zenon
      <4>2. pc' = Place(k + 1)' BY <1>10, <2>2, <3>1, Zenon
      <4>3. Reached(source', k + 1) BY <1>9, <3>10, Zenon
      <4> QED BY <4>1, <4>2, <4>3, Zenon DEF AtPiece
    <3> QED BY <1>8, <3>1, <3>8, <3>9, <3>11
  <2> QED BY <2>4, <2>5, <2>6
<1>18. CASE AtPiece(k) /\ k \in 1 .. Len(source) /\ Stores(source[k])
  <2>1. /\ Left > 0 => file[pc] = LOAD
        /\ Left < 2 => Len(file) < Len(bytes)
        /\ Left >= 2 => file[pc + 1] = Value(source[k])
        /\ pc + 2 = Place(k) + 2
    BY <1>2, <1>18, AtLoad
  <2>2. LOAD \in {HALT, SAY, LOAD, STORE} OBVIOUS
  <2>3. ~RunHalt /\ ~RunSay /\ ~RunStore /\ (RunError => Left < 2)
    BY <1>12, <1>13, <2>1, <2>2
  <2>4. CASE RunOff \/ RunError
    <3>1. Left < 2
      <4>1. CASE RunError BY <2>3, <4>1
      <4>2. CASE RunOff
        <5>1. Left \in Int
          <6>1. file \in Seq(Nat) /\ pc = Place(k) BY <1>18 DEF BytecodeInv, AtPiece
          <6>2. k \in 1 .. Len(source) + 2 BY <1>1
          <6>3. Place(k) \in Nat BY <1>1, <6>2, PlaceFacts
          <6>4. Len(file) \in Nat BY <6>1
          <6> QED BY <6>1, <6>3, <6>4 DEF Left
        <5> QED BY <1>14, <4>2, <5>1
      <4> QED BY <2>4, <4>1, <4>2
    <3> QED BY <1>7, <1>15, <2>1, <2>4, <3>1
  <2>5. CASE RunLoad
    <3>1. phase' = "run" /\ pc' = pc + 2 /\ Left >= 2 /\ acc' = file[pc + 1] /\ output' = output
      BY <1>2, <2>5 DEF RunLoad, Goes
    <3>2. InStore(k)'
      <4>1. Reached(source, k) BY <1>18 DEF AtPiece
      <4>2. k <= Len(source') /\ Stores(source'[k]) /\ Reached(source', k)
        <5>1. k <= Len(source) BY <1>1, <1>18
        <5> QED BY <1>9, <1>18, <4>1, <5>1, Zenon
      <4>3. output' = Said(k - 1)' BY <1>5, <1>10, <3>1, Zenon
      <4>4. pc' = Place(k)' + 2 BY <1>10, <2>1, <3>1, Zenon
      <4>5. acc' = Value(source'[k]) BY <1>9, <2>1, <3>1, Zenon
      <4> QED BY <4>2, <4>3, <4>4, <4>5, Zenon DEF InStore
    <3> QED BY <1>5, <1>8, <3>1, <3>2
  <2> QED BY <2>3, <2>4, <2>5
<1>19. CASE AtPiece(k) /\ Codes(source)[k] = <<HALT>>
            /\ (k \in 1 .. Len(source) => source[k].kind = "halt")
  <2>1. (Left > 0 => file[pc] = HALT) /\ (Left <= 0 => Len(file) < Len(bytes))
    BY <1>2, <1>19, AtHalt
  <2>2. HALT \in {HALT, SAY, LOAD, STORE} OBVIOUS
  <2>3. ~RunSay /\ ~RunLoad /\ ~RunStore /\ ~RunError
    BY <1>12, <1>13, <2>1, <2>2
  <2>4. CASE RunOff BY <1>7, <1>14, <1>15, <2>1, <2>4
  <2>5. CASE RunHalt
    <3>1. phase' = "ended" /\ output' = output BY <2>5 DEF RunHalt, EndRun
    <3>2. Said(k - 1) = Said(Len(source)) BY <1>19, SaidAtHalt
    <3>3. output' = Said(Len(source)) BY <1>5, <3>1, <3>2, Zenon
    <3>4. halted' BY <2>5 DEF RunHalt
    <3>5. \E i \in 0 .. Len(source) : output' = Said(i) BY <1>5, <3>1
    <3>6. phase' # "run" BY <3>1
    <3> QED BY <1>2, <3>3, <3>4, <3>5, <3>6, RunKeeps
  <2> QED BY <2>3, <2>4, <2>5
<1> QED BY <1>4, <1>16, <1>17, <1>18, <1>19, CodeKinds
LEMMA BytecodeStep ==
  ASSUME CommonInv, backend = "bytecode", BytecodeInv, ShortTexts, [Next]_vars
  PROVE  BytecodeInv'
<1>1. ~Emit BY DEF CommonInv, Emit, EmitWrite, EmitExit, Patch
<1>2. ~Execute BY DEF Execute, ExecuteWrite, ExecuteExit
<1>3. CASE Machine BY <1>3, MachineStarts, MachineRuns DEF Machine
<1> QED BY <1>1, <1>2, <1>3, BytecodeUnchanged, BytecodeParse, BytecodeFile DEF Next

------------------------------------------------------------------------------
\* What the invariant says of a state

LEMMA MisdecodesNever ==
  ASSUME CommonInv, backend = "bytecode" => BytecodeInv, ShortTexts
  PROVE  NeverMisdecodes
<1>1. ASSUME phase = "run", backend = "bytecode", Left > 0 PROVE pc \in starts
  <2>1. PICK k \in 1 .. Len(source) + 1 : InStore(k) \/ (AtPiece(k) /\ Codes(source)[k] # <<>>)
    BY <1>1, RunsAt
  <2>2. CASE InStore(k)
    <3>1. k \in 1 .. Len(source)
      <4>1. Len(source) \in Nat BY SourceFacts DEF CommonInv
      <4> QED BY <2>2, <4>1 DEF InStore
    <3> QED BY <1>1, <2>2, <3>1, AtStore
  <2>3. CASE AtPiece(k) /\ k \in 1 .. Len(source) /\ source[k].kind = "say"
    BY <1>1, <2>3, AtSay, Zenon
  <2>4. CASE AtPiece(k) /\ k \in 1 .. Len(source) /\ Stores(source[k])
    BY <1>1, <2>4, AtLoad
  <2>5. CASE AtPiece(k) /\ Codes(source)[k] = <<HALT>>
    BY <1>1, <2>5, AtHalt
  <2> QED BY <2>1, <2>2, <2>3, <2>4, <2>5, CodeKinds
<1>2. ASSUME phase = "ended", ~halted PROVE Len(file) < Len(bytes)
  <2>1. backend = "bytecode" BY <1>2 DEF CommonInv
  <2> QED BY <1>2, <2>1 DEF BytecodeInv
<1> QED BY <1>1, <1>2 DEF NeverMisdecodes

LEMMA NativePrints ==
  ASSUME CommonInv, backend = "native", NativeInv
  PROVE  LET script == NativeScript(source)
         IN /\ output \in Seq(Seq(Cells)) /\ script \in Seq(Seq(Cells))
            /\ Len(output) <= Len(script)
            /\ \A i \in DOMAIN output : output[i] = script[i]
            /\ halted => output = script
<1>1. source \in Sources /\ Len(source) \in Nat BY SourceFacts DEF CommonInv
<1>2. PICK p, n : p = NativePieces(source) /\ n = Len(source) OBVIOUS
<1>3. p \in Seq(Seq(Seq(Cells))) /\ Len(p) = n BY <1>1, <1>2, NativePiecesFacts, Zenon
<1>4. PICK script : script = NativeScript(source) OBVIOUS
<1>5. script = UpTo(p)[n]
  <2>1. FlattenSeq(p) = UpTo(p)[Len(p)] BY <1>3, FlattenIsUpTo, Zenon
  <2>2. NativeScript(source) = FlattenSeq(p) BY <1>2, Zenon DEF NativeScript, NativePieces
  <2> QED BY <1>3, <1>4, <2>1, <2>2, Zenon
<1>6. script \in Seq(Seq(Cells)) /\ Len(script) \in Nat
  <2>1. n \in 0 .. Len(source) BY <1>1, <1>2
  <2>2. script \in Seq(Seq(Cells)) BY <1>1, <1>2, <1>5, <2>1, NativeWritesFacts, Zenon
  <2> QED BY <2>2
<1>7. output \in Seq(Seq(Cells)) /\ Len(output) \in Nat /\ DOMAIN output = 1 .. Len(output)
  <2>1. output \in Seq(Seq(Cells)) BY DEF NativeInv
  <2> QED BY <2>1, LenProperties
<1>8. CASE phase \notin {"run", "ended"}
  <2>1. output = <<>> /\ ~halted BY <1>8 DEF CommonInv
  <2>2. Len(output) = 0 /\ DOMAIN output = {} BY <2>1
  <2> QED BY <1>4, <1>6, <1>7, <2>1, <2>2
<1>9. CASE phase \in {"run", "ended"}
  <2>1. at = n + 1 BY <1>2, <1>9 DEF CommonInv
  <2>2. at - 1 = n BY <1>1, <1>2, <2>1
  <2>3. writes = script BY <1>2, <1>5, <2>2, Zenon DEF NativeInv
  <2>4. Len(output) <= Len(script) /\ \A i \in 1 .. Len(output) : output[i] = script[i]
    BY <2>3 DEF NativeInv
  <2>5. halted => Len(output) = Len(script)
    <3>1. halted => phase = "ended" BY DEF CommonInv
    <3> QED BY <2>3, <3>1 DEF NativeInv
  <2>6. halted => output = script
    <3>1. \A x, y \in Seq(Seq(Cells)) :
            Len(x) = Len(y) /\ (\A i \in 1 .. Len(x) : x[i] = y[i]) => x = y
      BY SeqEqual
    <3> QED BY <1>6, <1>7, <2>4, <2>5, <3>1, Zenon
  <2> QED BY <1>4, <1>6, <1>7, <2>4, <2>6, Zenon
<1> QED BY <1>8, <1>9, Zenon

LEMMA BytecodePrints ==
  ASSUME CommonInv, backend = "bytecode", BytecodeInv
  PROVE  LET script == BytecodeScript(source)
         IN /\ output \in Seq(Seq(Cells)) /\ script \in Seq(Seq(Cells))
            /\ Len(output) <= Len(script)
            /\ \A i \in DOMAIN output : output[i] = script[i]
            /\ halted => output = script
<1>1. source \in Sources /\ Len(source) \in Nat BY SourceFacts DEF CommonInv
<1>2. PICK n \in Nat : n = Len(source) BY <1>1
<1>3. PICK script : script = BytecodeScript(source) OBVIOUS
<1>4. script = Said(n) BY <1>1, <1>2, <1>3, SaidFacts, Zenon
<1>5. PICK k \in 0 .. n : output = Said(k) BY <1>2 DEF BytecodeInv
<1>6. n \in 0 .. n OBVIOUS
<1>7. output \in Seq(Seq(Cells)) /\ script \in Seq(Seq(Cells))
  BY <1>1, <1>2, <1>4, <1>5, <1>6, SaidFacts, Zenon
<1>8. k \in 0 .. n /\ n \in 0 .. Len(source) BY <1>2
<1>9. Len(Said(k)) <= Len(Said(n)) /\ \A i \in 1 .. Len(Said(k)) : Said(n)[i] = Said(k)[i]
  BY <1>1, <1>8, SaidGrows
<1>10. DOMAIN output = 1 .. Len(output) BY <1>7, LenProperties
<1>11. Len(output) <= Len(script) /\ \A i \in DOMAIN output : output[i] = script[i]
  BY <1>4, <1>5, <1>9, <1>10, Zenon
<1>12. halted => output = script
  <2>1. halted => phase = "ended" BY DEF CommonInv
  <2> QED BY <1>2, <1>4, <2>1 DEF BytecodeInv
<1> QED BY <1>3, <1>7, <1>11, <1>12, Zenon

\* What the backend that is used makes of the source.
Script == IF backend = "native" THEN NativeScript(source) ELSE BytecodeScript(source)

LEMMA MeaningPrinted ==
  ASSUME IInv
  PROVE  /\ PrintsItsMeaning
         /\ output \in Seq(Seq(Cells)) /\ Script \in Seq(Seq(Cells))
<1>1. CommonInv /\ backend \in {"native", "bytecode"} BY DEF IInv, CommonInv
<1>2. CASE backend = "native"
  <2>1. NativeInv BY <1>2 DEF IInv
  <2>2. Script = NativeScript(source) BY <1>2 DEF Script
  <2>3. /\ output \in Seq(Seq(Cells)) /\ Script \in Seq(Seq(Cells))
        /\ Len(output) <= Len(Script)
        /\ \A i \in DOMAIN output : output[i] = Script[i]
        /\ halted => output = Script
    BY <1>1, <1>2, <2>1, <2>2, NativePrints, Zenon
  <2> QED BY <2>3, Zenon DEF PrintsItsMeaning, Script
<1>3. CASE backend = "bytecode"
  <2>1. BytecodeInv BY <1>3 DEF IInv
  <2>2. Script = BytecodeScript(source) BY <1>3 DEF Script
  <2>3. /\ output \in Seq(Seq(Cells)) /\ Script \in Seq(Seq(Cells))
        /\ Len(output) <= Len(Script)
        /\ \A i \in DOMAIN output : output[i] = Script[i]
        /\ halted => output = Script
    BY <1>1, <1>3, <2>1, <2>2, BytecodePrints, Zenon
  <2> QED BY <2>3, Zenon DEF PrintsItsMeaning, Script
<1> QED BY <1>1, <1>2, <1>3

\* On a plain source each compiler makes of a line what the line says.
LEMMA PlainScripts ==
  ASSUME CommonInv, Plain(source)
  PROVE  Script = PlainScript(source)
<1>1. PICK s \in Sources : s = source BY DEF CommonInv
<1>2. Len(s) \in Nat /\ DOMAIN s = 1 .. Len(s) /\ \A k \in 1 .. Len(s) : s[k] \in Lines
  BY SourceFacts
<1>3. Plain(s) BY <1>1
<1>4. ASSUME NEW k \in DOMAIN s PROVE NativeMessages(s, k) = LineMessages(s[k])
  <2>1. s[k].kind \in {"skip", "say", "signal", "halt"} BY <1>3, <1>4 DEF Plain
  <2> QED BY <2>1 DEF NativeMessages
<1>5. ASSUME NEW k \in DOMAIN s PROVE BytecodeMessages(s, k) = LineMessages(s[k])
  <2>1. s[k].kind \in {"skip", "say", "signal", "halt"} BY <1>3, <1>5 DEF Plain
  <2>2. CASE Reached(s, k) BY <2>1, <2>2 DEF BytecodeMessages
  <2>3. CASE ~Reached(s, k)
    <3>1. PICK j \in 1 .. k - 1 : s[j].kind = "halt" BY <2>3 DEF Reached
    <3>2. j \in DOMAIN s /\ ~(k < j) BY <1>2, <1>5
    <3>3. s[k].kind \notin {"say", "signal"} BY <1>3, <1>5, <3>1, <3>2 DEF Plain
    <3>4. LineMessages(s[k]) = <<>> BY <1>2, <1>5, <3>3, LineMessagesFacts
    <3> QED BY <2>3, <3>4 DEF BytecodeMessages
  <2> QED BY <2>2, <2>3
<1>6. [k \in DOMAIN s |-> NativeMessages(s, k)] = [k \in DOMAIN s |-> LineMessages(s[k])]
  BY <1>4
<1>7. [k \in DOMAIN s |-> BytecodeMessages(s, k)] = [k \in DOMAIN s |-> LineMessages(s[k])]
  BY <1>5
<1>8. NativeScript(s) = PlainScript(s) BY <1>6, Zenon DEF NativeScript, PlainScript
<1>9. BytecodeScript(s) = PlainScript(s) BY <1>7, Zenon DEF BytecodeScript, PlainScript
<1> QED BY <1>1, <1>8, <1>9 DEF Script

\* A step prints nothing, or one message, or ends the run with a halt.
LEMMA PrintSteps ==
  ASSUME CommonInv, Next
  PROVE  \/ output' = output /\ halted' = halted
         \/ ~halted /\ halted' = halted /\ \E m : output' = Append(output, m)
         \/ ~halted /\ halted' = TRUE /\ output' = output
<1> USE DEF runVars
<1>1. CASE Parse
  BY <1>1 DEF Parse, ParseSay, ParseSignal, ParseHalt, ParseMmio, ParseAt, ParseUi,
              ParseSkip, ParseBroken, ParseEnd, AtLine
<1>2. CASE Emit BY <1>2 DEF Emit, EmitWrite, EmitExit, Patch
<1>3. CASE WriteFails \/ Write BY <1>3 DEF WriteFails, Write
<1>4. CASE Execute BY <1>4 DEF CommonInv, Execute, ExecuteWrite, ExecuteExit
<1>5. CASE Machine
  <2>1. CASE StartRun BY <2>1 DEF StartRun, EndRun
  <2>2. CASE RunHalt BY <2>2 DEF CommonInv, RunHalt, EndRun, At
  <2>3. CASE RunSay BY <2>3 DEF CommonInv, RunSay, Goes, At
  <2>4. CASE RunLoad BY <2>4 DEF RunLoad, Goes
  <2>5. CASE RunStore
    <3>1. ~halted /\ halted' = halted BY <2>5 DEF CommonInv, RunStore, Goes, At
    <3>2. output' = output \/ \E m : output' = Append(output, m) BY <2>5 DEF RunStore
    <3> QED BY <3>1, <3>2
  <2>6. CASE RunError BY <2>6 DEF RunError, EndRun
  <2>7. CASE RunOff BY <2>7 DEF RunOff, EndRun
  <2> QED BY <1>5, <2>1, <2>2, <2>3, <2>4, <2>5, <2>6, <2>7 DEF Machine
<1> QED BY <1>1, <1>2, <1>3, <1>4, <1>5 DEF Next

Printed == PrintsItsMeaning /\ output \in Seq(Seq(Cells))

\* On a plain source a step of the program is one of the abstract program.
LEMMA ProgramSteps ==
  ASSUME IInv, Printed', [Next]_vars, Plain(source)
  PROVE  Program!Next \/ UNCHANGED Program!vars
<1>1. CommonInv BY DEF IInv
<1>2. source' = source /\ backend' = backend BY <1>1, CommonStep
<1>3. Script = PlainScript(source) /\ Script' = Script /\ PlainScript(source)' = PlainScript(source)
  BY <1>1, <1>2, PlainScripts, Zenon DEF Script
<1>4. output \in Seq(Seq(Cells)) /\ Script \in Seq(Seq(Cells)) BY MeaningPrinted
<1>5. output' \in Seq(Seq(Cells)) /\ PrintsItsMeaning' BY DEF Printed
<1>6. Len(output') <= Len(Script) /\ (\A i \in DOMAIN output' : output'[i] = Script[i])
      /\ (halted' => output' = Script)
  BY <1>3, <1>5, Zenon DEF PrintsItsMeaning, Script
<1>7. CASE output' = output /\ halted' = halted
  BY <1>3, <1>7, Zenon DEF Program!vars
<1>8. ASSUME ~halted, halted' = halted, NEW m, output' = Append(output, m)
      PROVE  Program!Next
  <2>1. Len(output) \in Nat /\ Len(Script) \in Nat BY <1>4
  <2>2. Len(output') = Len(output) + 1 /\ DOMAIN output' = 1 .. Len(output')
        /\ output'[Len(output) + 1] = m
    BY <1>4, <1>8
  <2>3. Len(output) < Len(Script) BY <1>6, <2>1, <2>2
  <2>4. Len(output) + 1 \in DOMAIN output' BY <2>1, <2>2
  <2>5. m = Script[Len(output) + 1] BY <1>6, <2>2, <2>4
  <2>6. Program!Write BY <1>3, <1>8, <2>3, <2>5, Zenon DEF Program!Write
  <2> QED BY <2>6 DEF Program!Next
<1>9. CASE ~halted /\ halted' = TRUE /\ output' = output
  <2>1. Len(output) = Len(Script) BY <1>6, <1>9
  <2>2. Program!Exit BY <1>3, <1>9, <2>1, Zenon DEF Program!Exit
  <2> QED BY <2>2 DEF Program!Next
<1>10. CASE UNCHANGED vars
  <2>1. output' = output /\ halted' = halted BY <1>10 DEF vars, runVars
  <2> QED BY <1>7, <2>1
<1>11. CASE Next BY <1>1, <1>7, <1>8, <1>9, <1>11, PrintSteps
<1> QED BY <1>10, <1>11

------------------------------------------------------------------------------
\* The theorems

LEMMA Invariance ==
  ASSUME ShortTexts
  PROVE  Spec => [](CommonInv /\ (backend = "bytecode" => BytecodeInv))
<1>1. Init => CommonInv /\ (backend = "bytecode" => BytecodeInv)
  BY CommonInit, BytecodeInit
<1>2. CommonInv /\ (backend = "bytecode" => BytecodeInv) /\ [Next]_vars
        => (CommonInv /\ (backend = "bytecode" => BytecodeInv))'
  BY CommonStep, BytecodeStep
<1> QED BY <1>1, <1>2, PTL DEF Spec

LEMMA InvarianceInImage ==
  ASSUME ShortTexts
  PROVE  Spec /\ []ImageFits => []IInv
<1>1. Init => IInv BY CommonInit, NativeInit, BytecodeInit DEF IInv
<1>2. IInv /\ ImageFits /\ [Next]_vars => IInv'
  BY CommonStep, NativeStep, BytecodeStep DEF IInv
<1> QED BY <1>1, <1>2, PTL DEF Spec

\* The bytecode machine reads as an opcode only what run_bytecode's compiler
\* emitted as one, wherever a failed write has cut the file off, and fails on
\* a cut file only (run_bytecode, compile_source in nanlang_cpp.cpp); for all
\* sources whose texts have a length that fits the four bytes it is given.
THEOREM BytecodeNeverMisdecodes == ShortTexts => (Spec => []NeverMisdecodes)
<1> SUFFICES ASSUME ShortTexts PROVE Spec => []NeverMisdecodes OBVIOUS
<1>1. CommonInv /\ (backend = "bytecode" => BytecodeInv) => NeverMisdecodes BY MisdecodesNever
<1> QED BY <1>1, Invariance, PTL

\* Whichever of the two backends is used, what is printed is a beginning of
\* what its compiler makes of the source, and all of it when the run halts
\* (emit_native_payload, run_bytecode); for all sources with such texts, as
\* long as the code and the messages fit the signed 32 bits of a displacement.
THEOREM PrintsOnlyItsMeaning == ShortTexts => (Spec /\ []ImageFits => []PrintsItsMeaning)
<1> SUFFICES ASSUME ShortTexts PROVE Spec /\ []ImageFits => []PrintsItsMeaning OBVIOUS
<1>1. IInv => PrintsItsMeaning BY MeaningPrinted
<1> QED BY <1>1, InvarianceInImage, PTL

\* On plain sources both backends are the abstract print program, step by
\* step: the messages of the source in order, all of them before the exit.
THEOREM BackendsImplementProgram == ShortTexts => (Spec /\ []ImageFits => ImplementsProgram)
<1> SUFFICES ASSUME ShortTexts PROVE Spec /\ []ImageFits => ImplementsProgram OBVIOUS
<1>1. Init => Program!Init BY DEF Init, Program!Init
<1>2. IInv => Printed BY MeaningPrinted DEF Printed
<1>3. IInv /\ Printed' /\ [Next]_vars
        => [Plain(source) => Program!Next \/ UNCHANGED Program!vars]_vars
  BY ProgramSteps
<1> QED BY <1>1, <1>2, <1>3, InvarianceInImage, PTL DEF Spec, ImplementsProgram
===============================================================================
