---------------------------- MODULE WaitFreeQueue ----------------------------
(***************************************************************************)
(* The single-producer single-consumer ring of include/nan_perf.h, with    *)
(* one action per shared access of push() and pop().                       *)
(*                                                                         *)
(* Memory model.  head is stored by the consumer only and tail by the      *)
(* producer only.  Each side loads its own index relaxed (it sees its own  *)
(* last store) and the other side's index with acquire, which may return   *)
(* any value from the one it last saw up to the newest one.  headView is   *)
(* the newest head the producer can see, tailView the newest tail the      *)
(* consumer can see; Propagate moves a view to the newest store.  Release  *)
(* and acquire make the slots written before a seen tail visible with it,  *)
(* so the slots need no view, provided no slot is read while it is being   *)
(* written (NoDataRace).                                                   *)
(***************************************************************************)
EXTENDS Integers, Sequences

CONSTANTS
  N,         \* number of slots, the template parameter
  Values,    \* the items pushed
  NoValue    \* the value-initialised content of slots and of pop()'s out

\* static_assert((N & (N-1)) == 0): a power of two (0 has no slot to index).
ASSUME RingAssumption == /\ N \in Nat \ {0}
                         /\ \E k \in 0 .. N : N = 2 ^ k

ASSUME NoValueAssumption == NoValue \notin Values

VARIABLES
  head, tail, buffer,   \* the three members of the struct
  headView, tailView,   \* head as the producer sees it, tail as the consumer does
  producer,             \* the producer's place in push()
  val,                  \* push()'s argument
  consumer,             \* the consumer's place in pop()
  out                   \* pop()'s out parameter

vars == <<head, tail, buffer, headView, tailView, producer, val, consumer, out>>

Slots == 0 .. N - 1

\* Mutant of Succ: the mask forgotten.
SuccUnmasked(i) == i + 1

\* (i + 1) & (N - 1): the mask of a power of two is the remainder by it.
Succ(i) == (i + 1) % N

TypeOK ==
  /\ head \in Slots /\ tail \in Slots
  /\ headView \in Slots /\ tailView \in Slots
  /\ buffer \in [Slots -> Values \cup {NoValue}]
  /\ producer \in {"idle", "check", "write", "publish"}
  /\ val \in Values \cup {NoValue}
  /\ consumer \in {"idle", "check", "read", "advance"}
  /\ out \in Values \cup {NoValue}

Init ==
  /\ head = 0 /\ tail = 0
  /\ headView = 0 /\ tailView = 0
  /\ buffer = [i \in Slots |-> NoValue]
  /\ producer = "idle" /\ val = NoValue
  /\ consumer = "idle" /\ out = NoValue

------------------------------------------------------------------------------
\* push(val)

PushCall(v) ==
  /\ producer = "idle"
  /\ producer' = "check"
  /\ val' = v
  /\ UNCHANGED <<head, tail, buffer, headView, tailView, consumer, out>>

\* Mutant of Full: the test dropped.
FullNever == FALSE

\* t = tail, next = Succ(t), compared with the head the producer sees.
Full == Succ(tail) = headView

\* Mutant of PushRefused: the producer spins until there is room.
PushRefusedSpins == producer = "check" /\ Full /\ UNCHANGED vars

PushRefused ==
  /\ producer = "check"
  /\ Full
  /\ producer' = "idle"
  /\ UNCHANGED <<head, tail, buffer, headView, tailView, val, consumer, out>>

PushAdmitted ==
  /\ producer = "check"
  /\ ~Full
  /\ producer' = "write"
  /\ UNCHANGED <<head, tail, buffer, headView, tailView, val, consumer, out>>

PushWrite ==
  /\ producer = "write"
  /\ buffer' = [buffer EXCEPT ![tail] = val]
  /\ producer' = "publish"
  /\ UNCHANGED <<head, tail, headView, tailView, val, consumer, out>>

PushPublish ==
  /\ producer = "publish"
  /\ tail' = Succ(tail)
  /\ producer' = "idle"
  /\ UNCHANGED <<head, buffer, headView, tailView, val, consumer, out>>

PushStep == PushRefused \/ PushAdmitted \/ PushWrite \/ PushPublish

------------------------------------------------------------------------------
\* pop(out)

PopCall ==
  /\ consumer = "idle"
  /\ consumer' = "check"
  /\ UNCHANGED <<head, tail, buffer, headView, tailView, producer, val, out>>

\* Mutant of Empty: compared after the increment.
EmptyOneEarly == Succ(head) = tailView

\* pop()'s test, and empty() called by the consumer.
Empty == head = tailView

\* Mutant of PopRefused: the consumer spins until there is an item.
PopRefusedSpins == consumer = "check" /\ Empty /\ UNCHANGED vars

PopRefused ==
  /\ consumer = "check"
  /\ Empty
  /\ consumer' = "idle"
  /\ UNCHANGED <<head, tail, buffer, headView, tailView, producer, val, out>>

PopAdmitted ==
  /\ consumer = "check"
  /\ ~Empty
  /\ consumer' = "read"
  /\ UNCHANGED <<head, tail, buffer, headView, tailView, producer, val, out>>

\* Mutant of PopRead: the slot read is the one after the release.
PopReadNext ==
  /\ consumer = "read"
  /\ out' = buffer[Succ(head)]
  /\ consumer' = "advance"
  /\ UNCHANGED <<head, tail, buffer, headView, tailView, producer, val>>

PopRead ==
  /\ consumer = "read"
  /\ out' = buffer[head]
  /\ consumer' = "advance"
  /\ UNCHANGED <<head, tail, buffer, headView, tailView, producer, val>>

PopAdvance ==
  /\ consumer = "advance"
  /\ head' = Succ(head)
  /\ consumer' = "idle"
  /\ UNCHANGED <<tail, buffer, headView, tailView, producer, val, out>>

PopStep == PopRefused \/ PopAdmitted \/ PopRead \/ PopAdvance

------------------------------------------------------------------------------
\* A store becomes visible to the other side.

PropagateHead ==
  /\ headView' = head
  /\ UNCHANGED <<head, tail, buffer, tailView, producer, val, consumer, out>>

PropagateTail ==
  /\ tailView' = tail
  /\ UNCHANGED <<head, tail, buffer, headView, producer, val, consumer, out>>

Next ==
  \/ \E v \in Values : PushCall(v)
  \/ PushStep
  \/ PopCall
  \/ PopStep
  \/ PropagateHead
  \/ PropagateTail

\* A thread inside a call is scheduled again.  Nothing is assumed of the other
\* side, of new calls or of when a store becomes visible.
SafetySpec == Init /\ [][Next]_vars
Spec       == SafetySpec /\ WF_vars(PushStep) /\ WF_vars(PopStep)

\* What a client that wants its items through adds: the consumer polls, as the
\* loop of the demo does, and stores become visible in finite time.
Polling == WF_vars(PopCall) /\ WF_vars(PropagateHead) /\ WF_vars(PropagateTail)

------------------------------------------------------------------------------
\* Properties

\* The slot k steps of Succ after slot a.
SlotAfter(a, k) == (a + k) % N

\* How many steps of Succ lead from slot a to slot b.
Distance(a, b) == IF a <= b THEN b - a ELSE b - a + N

\* The four indices keep their cyclic order headView, head, tailView, tail,
\* and lie within one turn of the ring: the sum of the gaps between neighbours
\* is the gap between the outer two, which is below N.  Stale views only make
\* a side careful, never wrong.
RingOrder ==
  Distance(headView, head) + Distance(head, tailView) + Distance(tailView, tail)
    = Distance(headView, tail)

\* A push past its test has room, a pop past its test has an item: what the
\* test found with a possibly old view stays true until the call ends.
AdmittedPush == producer \in {"write", "publish"} => Succ(tail) # headView
AdmittedPop  == consumer \in {"read", "advance"} => head # tailView

\* The slot about to be published holds the argument of the call.
Written ==
  /\ producer # "idle" => val \in Values
  /\ producer = "publish" => buffer[tail] = val

\* The inductive invariant of the ring.
Inv == TypeOK /\ RingOrder /\ AdmittedPush /\ AdmittedPop /\ Written

\* The non-atomic accesses of the two sides never touch one slot together;
\* if they did, the program would have a data race and pop() could return a
\* torn item.
NoDataRace ==
  ~(producer = "write" /\ consumer = "read" /\ tail = head)

\* The items of the abstract channel: the slots from head to tail, without
\* the one pop() has already copied out and is about to release.
FirstItem == IF consumer = "advance" THEN Succ(head) ELSE head
Items == [i \in 1 .. Distance(FirstItem, tail) |-> buffer[SlotAfter(FirstItem, i - 1)]]

\* Every behaviour of the ring is one of a channel of N - 1 places.
Fifo == INSTANCE BoundedFifo WITH items <- Items, Capacity <- N - 1
ImplementsFifo == Fifo!Spec

\* A call returns although the other thread may never act again: the queue
\* "never causes stalls", in the words of the comment above the struct.
PushReturns == (producer # "idle") ~> (producer = "idle")
PopReturns  == (consumer # "idle") ~> (consumer = "idle")

\* With a polling consumer an accepted item is handed out, and the next one
\* after it, although no side ever waits for the other.
OldestIsTaken ==
  Polling => \A v \in Values : (Items # <<>> /\ Head(Items) = v) ~> (out = v)

\* When the producer falls silent, a polling consumer comes to see the queue
\* empty for good, and nothing accepted is left in it: no item stays behind
\* because its store of tail was not seen.
DrainsWhenQuiet ==
  Polling => (<>[](producer = "idle") => <>[](Empty /\ Items = <<>>))
==============================================================================
