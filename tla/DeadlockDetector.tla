-------------------------- MODULE DeadlockDetector --------------------------
(***************************************************************************)
(* DeadlockDetector of include/nan_perf.h, one step per iteration of       *)
(* has_cycle().  The struct has no lock and no atomics, so a caller runs   *)
(* one call after the other (as src/perf_ops.cpp does); the threads and    *)
(* the order of their calls are arbitrary.                                 *)
(*                                                                         *)
(* try_acquire() does not block.  A thread it tells to wait is waiting     *)
(* until its next call, which may retry, ask for something else or release *)
(* what it holds; want keeps what such a thread waits for and is not part  *)
(* of the code.                                                            *)
(***************************************************************************)
EXTENDS Integers, FiniteSets

CONSTANTS
  MaxRes,     \* MAX_RES, the length of the two arrays and of the search
  Threads,    \* the thread ids and the
  Resources   \* resource ids in use: indices of the arrays

Indices == 0 .. MaxRes - 1

ASSUME DetectorAssumption == /\ MaxRes \in Nat \ {0}
                             /\ Threads \subseteq Indices
                             /\ Resources \subseteq Indices

None == -1    \* a free resource, a thread that waits for nothing

VARIABLES
  holder,     \* resource -> thread id
  waiting,    \* thread -> resource it is waiting for
  want,       \* thread -> resource it was told to wait for (history)
  phase,      \* "idle", or "search" while a try_acquire is in has_cycle()
  caller,     \* its thread_id
  requested,  \* and its resource
  cur, visited, step    \* the locals of has_cycle()

search == <<caller, requested, cur, visited, step>>
vars   == <<holder, waiting, want, phase, search>>

TypeOK ==
  /\ holder \in [Indices -> Threads \cup {None}]
  /\ waiting \in [Indices -> Resources \cup {None}]
  /\ want \in [Threads -> Resources \cup {None}]
  /\ phase \in {"idle", "search"}
  /\ phase = "search" => /\ caller \in Threads /\ requested \in Resources
                         /\ cur \in Threads \cup {None}
  /\ visited \subseteq Threads
  /\ step \in 0 .. MaxRes

Init ==
  /\ holder = [r \in Indices |-> None]
  /\ waiting = [t \in Indices |-> None]
  /\ want = [t \in Threads |-> None]
  /\ phase = "idle" /\ caller = None /\ requested = None
  /\ cur = None /\ visited = {} /\ step = 0

------------------------------------------------------------------------------
\* try_acquire(t, r)

\* The resource is free.  waiting[t] keeps what it was.
Acquire(t, r) ==
  /\ phase = "idle"
  /\ holder[r] = None
  /\ holder' = [holder EXCEPT ![r] = t]
  /\ want' = [want EXCEPT ![t] = None]
  /\ UNCHANGED <<waiting, phase, search>>

\* Mutant of Request: the edge is to be recorded after the search.
RequestUnrecorded(t, r) ==
  /\ phase = "idle"
  /\ holder[r] # None
  /\ want' = [want EXCEPT ![t] = None]
  /\ phase' = "search"
  /\ caller' = t /\ requested' = r
  /\ cur' = t /\ visited' = {} /\ step' = 0
  /\ UNCHANGED <<holder, waiting>>

\* It is held, by t itself perhaps: the edge is recorded and the search begins.
Request(t, r) ==
  /\ phase = "idle"
  /\ holder[r] # None
  /\ waiting' = [waiting EXCEPT ![t] = r]
  /\ want' = [want EXCEPT ![t] = None]
  /\ phase' = "search"
  /\ caller' = t /\ requested' = r
  /\ cur' = t /\ visited' = {} /\ step' = 0
  /\ UNCHANGED holder

\* Mutant of Follow: from the thread to the resource instead of its holder.
FollowToResource ==
  /\ phase = "search" /\ step < MaxRes
  /\ cur # None /\ cur \notin visited /\ waiting[cur] # None
  /\ cur' = waiting[cur]
  /\ visited' = visited \cup {cur}
  /\ step' = step + 1
  /\ UNCHANGED <<holder, waiting, want, phase, caller, requested>>

\* One iteration of has_cycle() that goes on.
Follow ==
  /\ phase = "search" /\ step < MaxRes
  /\ cur # None /\ cur \notin visited /\ waiting[cur] # None
  /\ cur' = holder[waiting[cur]]
  /\ visited' = visited \cup {cur}
  /\ step' = step + 1
  /\ UNCHANGED <<holder, waiting, want, phase, caller, requested>>

\* Mutant of Cycle: the edge removed is that of the thread met again.
CycleAtCur ==
  /\ phase = "search" /\ step < MaxRes
  /\ cur # None /\ cur \in visited
  /\ waiting' = [waiting EXCEPT ![cur] = None]
  /\ phase' = "idle"
  /\ UNCHANGED <<holder, want, search>>

\* has_cycle() returns true: the edge is removed and the request refused.
Cycle ==
  /\ phase = "search" /\ step < MaxRes
  /\ cur # None /\ cur \in visited
  /\ waiting' = [waiting EXCEPT ![caller] = None]
  /\ phase' = "idle"
  /\ UNCHANGED <<holder, want, search>>

\* has_cycle() returns false at the end of the chain, or when it has made
\* MAX_RES steps: a legit wait.
ChainEnds == cur = None \/ (cur \in Threads \ visited /\ waiting[cur] = None)
Wait ==
  /\ phase = "search"
  /\ step = MaxRes \/ ChainEnds
  /\ want' = [want EXCEPT ![caller] = requested]
  /\ phase' = "idle"
  /\ UNCHANGED <<holder, waiting, search>>

------------------------------------------------------------------------------
\* release(t, r), which does nothing when t does not hold r.
Release(t, r) ==
  /\ phase = "idle"
  /\ holder[r] = t
  /\ holder' = [holder EXCEPT ![r] = None]
  /\ waiting' = [waiting EXCEPT ![t] = None]
  /\ want' = [want EXCEPT ![t] = None]
  /\ UNCHANGED <<phase, search>>

HasCycle == Follow \/ Cycle \/ Wait

Next ==
  \/ \E t \in Threads, r \in Resources : Acquire(t, r) \/ Request(t, r) \/ Release(t, r)
  \/ HasCycle

Spec == Init /\ [][Next]_vars

------------------------------------------------------------------------------
\* Properties

\* The threads of D wait for each other.
Deadlocked(D) == D # {} /\ \A t \in D : want[t] # None /\ holder[want[t]] \in D

\* "the deadlock is prevented from forming" (docs/GLOSSARY.md): the threads
\* that try_acquire() told to wait never wait for each other, although it
\* searches a graph that may hold edges of threads that wait no more, and each
\* call changes the graph under those that wait already.
NoDeadlock == \A D \in SUBSET Threads : ~Deadlocked(D)

\* The graph the search follows has the edge of every thread that waits: no
\* grant, refusal or release of another thread removes it.
WaitsAreRecorded == \A t \in Threads : want[t] # None => waiting[t] = want[t]

\* "A cycle in this graph indicates a deadlock" (docs/LEARNING.md, section
\* 31.2): a request is refused as a cycle only when it closes one, through
\* threads none of which "waits" for a resource that it holds itself.
NoFalseAlarm ==
  [][Cycle =>
       \E D \in SUBSET Threads :
         /\ caller \in D /\ holder[requested] \in D
         /\ \A t \in D \ {caller} : waiting[t] # None /\ holder[waiting[t]] \in D \ {t}]_vars
==============================================================================
