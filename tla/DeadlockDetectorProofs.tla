------------------------ MODULE DeadlockDetectorProofs ------------------------
(***************************************************************************)
(* With fewer threads than MAX_RES, the threads that try_acquire() tells   *)
(* to wait never wait for each other, whatever the calls and their order.  *)
(***************************************************************************)
EXTENDS DeadlockDetector, FiniteSetTheorems, TLAPS

\* The caller would be one of the threads of D that wait for each other, were
\* it to wait.
Closing(D) ==
  /\ caller \in D /\ holder[requested] \in D
  /\ \A t \in D \ {caller} : want[t] # None /\ holder[want[t]] \in D

\* What has_cycle() knows of the chain it has followed: it has marked one thread
\* per step, and has not left any set of threads that the wait would deadlock.
SearchInv ==
  phase = "search" =>
    /\ want[caller] = None
    /\ waiting[caller] = requested
    /\ IsFiniteSet(visited) /\ Cardinality(visited) = step
    /\ \A D \in SUBSET Threads : Closing(D) => cur \in D

DetectorInv == TypeOK /\ WaitsAreRecorded /\ NoDeadlock /\ SearchInv

LEMMA IdsAreNotNone == None \notin Threads /\ None \notin Resources
  BY DetectorAssumption DEF Indices, None

LEMMA InitDetectorInv == Init => DetectorInv
<1>. SUFFICES ASSUME Init PROVE DetectorInv
  OBVIOUS
<1>1. TypeOK
  BY DetectorAssumption DEF Init, TypeOK
<1>2. WaitsAreRecorded /\ SearchInv
  BY DEF Init, WaitsAreRecorded, SearchInv
<1>3. NoDeadlock
  BY DEF Init, NoDeadlock, Deadlocked
<1>. QED BY <1>1, <1>2, <1>3 DEF DetectorInv

\* Threads that waited for each other before a call that ends no wait still do
\* after it: a deadlock after the step was one before it.
LEMMA DeadlockIsOld ==
  ASSUME NoDeadlock, NEW t \in Threads,
         \A u \in Threads \ {t} : want'[u] = want[u],
         \A u \in Threads \ {t} :
            want[u] # None /\ holder'[want[u]] \in Threads \ {t} =>
              holder'[want[u]] = holder[want[u]],
         want'[t] = None
  PROVE  NoDeadlock'
<1>. SUFFICES ASSUME NEW D \in SUBSET Threads, Deadlocked(D)' PROVE FALSE
  BY DEF NoDeadlock
<1>1. t \notin D
  BY DEF Deadlocked
<1>2. ASSUME NEW u \in D PROVE want[u] # None /\ holder[want[u]] \in D
  BY <1>1, <1>2 DEF Deadlocked
<1>3. Deadlocked(D)
  BY <1>2 DEF Deadlocked
<1>. QED BY <1>3 DEF NoDeadlock

LEMMA AcquireKeepsInv ==
  ASSUME DetectorInv, NEW t \in Threads, NEW r \in Resources, Acquire(t, r)
  PROVE  DetectorInv'
<1>. USE DetectorAssumption, IdsAreNotNone DEF DetectorInv
<1>1. TypeOK'
  BY DEF Acquire, TypeOK, search, Indices
<1>2. WaitsAreRecorded'
  BY DEF Acquire, WaitsAreRecorded, TypeOK
<1>3. NoDeadlock'
  <2>1. want'[t] = None /\ \A u \in Threads \ {t} : want'[u] = want[u]
    BY DEF Acquire, TypeOK
  <2>2. \A x \in Resources : holder'[x] # t => holder'[x] = holder[x]
    BY DEF Acquire, TypeOK
  <2>3. \A u \in Threads : want[u] \in Resources \cup {None}
    BY DEF TypeOK
  <2>. QED BY <2>1, <2>2, <2>3, DeadlockIsOld
<1>4. SearchInv'
  BY DEF Acquire, SearchInv, search
<1>. QED BY <1>1, <1>2, <1>3, <1>4

LEMMA ReleaseKeepsInv ==
  ASSUME DetectorInv, NEW t \in Threads, NEW r \in Resources, Release(t, r)
  PROVE  DetectorInv'
<1>. USE DetectorAssumption, IdsAreNotNone DEF DetectorInv
<1>1. TypeOK'
  BY DEF Release, TypeOK, search, Indices
<1>2. WaitsAreRecorded'
  BY DEF Release, WaitsAreRecorded, TypeOK, Indices
<1>3. NoDeadlock'
  <2>1. want'[t] = None /\ \A u \in Threads \ {t} : want'[u] = want[u]
    BY DEF Release, TypeOK
  <2>2. \A x \in Resources : holder'[x] # None => holder'[x] = holder[x]
    BY DEF Release, TypeOK
  <2>3. \A u \in Threads : want[u] \in Resources \cup {None}
    BY DEF TypeOK
  <2>. QED BY <2>1, <2>2, <2>3, DeadlockIsOld
<1>4. SearchInv'
  BY DEF Release, SearchInv, search
<1>. QED BY <1>1, <1>2, <1>3, <1>4

LEMMA RequestKeepsInv ==
  ASSUME DetectorInv, NEW t \in Threads, NEW r \in Resources, Request(t, r)
  PROVE  DetectorInv'
<1>. USE DetectorAssumption, IdsAreNotNone DEF DetectorInv
<1>1. TypeOK'
  BY DEF Request, TypeOK, Indices
<1>2. WaitsAreRecorded'
  BY DEF Request, WaitsAreRecorded, TypeOK, Indices
<1>3. NoDeadlock'
  <2>1. want'[t] = None /\ holder' = holder /\ \A u \in Threads \ {t} : want'[u] = want[u]
    BY DEF Request, TypeOK
  <2>. QED BY <2>1, DeadlockIsOld
<1>4. SearchInv'
  <2>1. want'[t] = None /\ waiting'[t] = r
    BY DEF Request, TypeOK, Indices
  <2>2. IsFiniteSet({}) /\ Cardinality({}) = 0
    BY FS_EmptySet
  <2>3. \A D \in SUBSET Threads : Closing(D)' => cur' \in D
    BY DEF Request, Closing
  <2>. QED BY <2>1, <2>2, <2>3 DEF Request, SearchInv
<1>. QED BY <1>1, <1>2, <1>3, <1>4

LEMMA FollowKeepsInv ==
  ASSUME DetectorInv, Follow
  PROVE  DetectorInv'
<1>. USE DetectorAssumption, IdsAreNotNone DEF DetectorInv
<1>1. cur \in Threads /\ waiting[cur] \in Resources
  BY DEF Follow, TypeOK, Indices
<1>2. TypeOK'
  <2>1. holder[waiting[cur]] \in Threads \cup {None}
    BY <1>1 DEF TypeOK
  <2>. QED BY <1>1, <2>1 DEF Follow, TypeOK
<1>3. WaitsAreRecorded' /\ NoDeadlock'
  BY DEF Follow, WaitsAreRecorded, NoDeadlock, Deadlocked
<1>4. IsFiniteSet(visited') /\ Cardinality(visited') = step'
  BY FS_AddElement DEF Follow, SearchInv, TypeOK
<1>5. ASSUME NEW D \in SUBSET Threads, Closing(D)' PROVE cur' \in D
  <2>1. Closing(D)
    BY <1>5 DEF Closing, Follow
  <2>2. cur \in D
    BY <2>1 DEF SearchInv, Follow
  <2>3. CASE cur = caller
    BY <2>1, <2>3 DEF SearchInv, Follow, Closing
  <2>4. CASE cur # caller
    <3>1. want[cur] # None /\ holder[want[cur]] \in D
      BY <2>1, <2>2, <2>4 DEF Closing
    <3>2. waiting[cur] = want[cur]
      BY <1>1, <3>1 DEF WaitsAreRecorded
    <3>. QED BY <3>1, <3>2 DEF Follow
  <2>. QED BY <2>3, <2>4
<1>6. SearchInv'
  BY <1>4, <1>5 DEF SearchInv, Follow
<1>. QED BY <1>2, <1>3, <1>6

LEMMA CycleKeepsInv ==
  ASSUME DetectorInv, Cycle
  PROVE  DetectorInv'
<1>. USE DetectorAssumption, IdsAreNotNone DEF DetectorInv
<1>1. TypeOK'
  BY DEF Cycle, TypeOK, search, Indices
<1>2. WaitsAreRecorded'
  BY DEF Cycle, WaitsAreRecorded, SearchInv, TypeOK, Indices
<1>3. NoDeadlock'
  BY DEF Cycle, NoDeadlock, Deadlocked
<1>4. SearchInv'
  BY DEF Cycle, SearchInv
<1>. QED BY <1>1, <1>2, <1>3, <1>4

\* The search has not made all its steps with fewer threads than MAX_RES, so it
\* ended at a thread that does not wait.
LEMMA WaitKeepsInv ==
  ASSUME DetectorInv, Wait, IsFiniteSet(Threads), Cardinality(Threads) < MaxRes
  PROVE  DetectorInv'
<1>. USE DetectorAssumption, IdsAreNotNone DEF DetectorInv
<1>1. caller \in Threads /\ requested \in Resources /\ visited \subseteq Threads
  BY DEF Wait, TypeOK
<1>2. TypeOK'
  BY <1>1 DEF Wait, TypeOK, search
<1>3. WaitsAreRecorded'
  BY <1>1 DEF Wait, WaitsAreRecorded, SearchInv, TypeOK
<1>4. step # MaxRes
  <2>1. Cardinality(visited) <= Cardinality(Threads)
    BY <1>1, FS_Subset
  <2>2. Cardinality(visited) \in Nat /\ Cardinality(Threads) \in Nat
    BY <1>1, FS_CardinalityType, FS_Subset
  <2>. QED BY <2>1, <2>2 DEF Wait, SearchInv
<1>5. NoDeadlock'
  <2>. SUFFICES ASSUME NEW D \in SUBSET Threads, Deadlocked(D)' PROVE FALSE
    BY DEF NoDeadlock
  <2>1. \A t \in Threads \ {caller} : want'[t] = want[t]
    BY DEF Wait, TypeOK
  <2>2. want'[caller] = requested /\ holder' = holder
    BY <1>1 DEF Wait, TypeOK
  <2>3. CASE caller \notin D
    <3>1. Deadlocked(D)
      BY <2>1, <2>2, <2>3 DEF Deadlocked
    <3>. QED BY <3>1 DEF NoDeadlock
  <2>4. CASE caller \in D
    <3>1. Closing(D)
      BY <2>1, <2>2, <2>4 DEF Deadlocked, Closing
    <3>2. cur \in D
      BY <3>1 DEF SearchInv, Wait
    <3>3. waiting[cur] # None
      BY <1>1, <3>1, <3>2 DEF Closing, SearchInv, Wait, WaitsAreRecorded
    <3>. QED BY <1>4, <3>2, <3>3 DEF Wait, ChainEnds
  <2>. QED BY <2>3, <2>4
<1>6. SearchInv'
  BY DEF Wait, SearchInv
<1>. QED BY <1>2, <1>3, <1>5, <1>6

LEMMA StutterKeepsInv == DetectorInv /\ UNCHANGED vars => DetectorInv'
  BY DEF DetectorInv, TypeOK, WaitsAreRecorded, NoDeadlock, Deadlocked, SearchInv, Closing,
         vars, search

LEMMA DetectorInvAlways ==
  ASSUME IsFiniteSet(Threads), Cardinality(Threads) < MaxRes
  PROVE  Spec => []DetectorInv
<1>1. DetectorInv /\ [Next]_vars => DetectorInv'
  BY AcquireKeepsInv, RequestKeepsInv, ReleaseKeepsInv, FollowKeepsInv, CycleKeepsInv,
     WaitKeepsInv, StutterKeepsInv DEF Next, HasCycle
<1>. QED BY InitDetectorInv, <1>1, PTL DEF Spec

------------------------------------------------------------------------------
\* For any number of threads below MAX_RES, any resources and any calls: no
\* threads that try_acquire() told to wait wait for each other.
THEOREM DetectorPreventsDeadlock ==
  ASSUME IsFiniteSet(Threads), Cardinality(Threads) < MaxRes
  PROVE  Spec => []NoDeadlock
<1>1. DetectorInv => NoDeadlock
  BY DEF DetectorInv
<1>. QED BY DetectorInvAlways, <1>1, PTL

\* The graph that has_cycle() follows has the edge of every waiting thread.
THEOREM WaitsAreAlwaysRecorded ==
  ASSUME IsFiniteSet(Threads), Cardinality(Threads) < MaxRes
  PROVE  Spec => []WaitsAreRecorded
<1>1. DetectorInv => WaitsAreRecorded
  BY DEF DetectorInv
<1>. QED BY DetectorInvAlways, <1>1, PTL

\* The two arrays and the locals of has_cycle() keep to their types.
THEOREM DetectorTypes ==
  ASSUME IsFiniteSet(Threads), Cardinality(Threads) < MaxRes
  PROVE  Spec => []TypeOK
<1>1. DetectorInv => TypeOK
  BY DEF DetectorInv
<1>. QED BY DetectorInvAlways, <1>1, PTL
==============================================================================
