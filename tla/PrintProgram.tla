----------------------------- MODULE PrintProgram -----------------------------
(***************************************************************************)
(* What a NanLang program is to its user: a run that writes the messages   *)
(* of a script one after the other, all of them, and then exits.           *)
(***************************************************************************)
EXTENDS Naturals, Sequences

VARIABLES
  script,     \* the messages to write; fixed
  written,    \* the messages written so far
  exited      \* whether the process has exited with status 0

vars == <<script, written, exited>>

Init == written = <<>> /\ exited = FALSE

Write ==
  /\ ~exited
  /\ Len(written) < Len(script)
  /\ written' = Append(written, script[Len(written) + 1])
  /\ UNCHANGED <<script, exited>>

Exit ==
  /\ ~exited
  /\ Len(written) = Len(script)
  /\ exited' = TRUE
  /\ UNCHANGED <<script, written>>

Next == Write \/ Exit

Spec == Init /\ [][Next]_vars /\ WF_vars(Next)
==============================================================================
