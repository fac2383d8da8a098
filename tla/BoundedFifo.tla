----------------------------- MODULE BoundedFifo -----------------------------
(***************************************************************************)
(* What a bounded first-in first-out channel promises its two clients:     *)
(* an item accepted by Put is handed out once, by Take, in the order of    *)
(* acceptance, and no more than Capacity items wait at any time.           *)
(* WaitFreeQueue is shown to implement this module.                        *)
(***************************************************************************)
EXTENDS Naturals, Sequences

CONSTANTS
  Values,     \* the items the producer may put
  NoValue,    \* the content of the consumer's variable before any Take
  Capacity    \* how many accepted items may wait

VARIABLES
  items,      \* accepted and not yet taken, oldest first
  out         \* the item the last Take handed to the consumer

vars == <<items, out>>

Init ==
  /\ items = <<>>
  /\ out = NoValue

Put(v) ==
  /\ Len(items) < Capacity
  /\ items' = Append(items, v)
  /\ UNCHANGED out

Take ==
  /\ items # <<>>
  /\ out' = Head(items)
  /\ items' = Tail(items)

Next == Take \/ \E v \in Values : Put(v)

Spec == Init /\ [][Next]_vars
==============================================================================
