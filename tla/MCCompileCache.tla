--------------------------- MODULE MCCompileCache ---------------------------
(***************************************************************************)
(* Instance of CompileCache for TLC: invocations are interchangeable.      *)
(***************************************************************************)
EXTENDS CompileCache, TLC

Symmetry == Permutations(Procs)
=============================================================================
