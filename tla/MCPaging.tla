------------------------------ MODULE MCPaging ------------------------------
(***************************************************************************)
(* Paging for TLC: the pages of a process, and the processes other than    *)
(* the shell, are interchangeable.                                         *)
(***************************************************************************)
EXTENDS Paging, TLC

Symmetry == Permutations(Pages) \cup Permutations(Procs \ {Shell})
=============================================================================
