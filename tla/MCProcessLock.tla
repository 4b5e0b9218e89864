---------------------------- MODULE MCProcessLock ----------------------------
(* ProcessLock with symmetric processes and files. *)
EXTENDS ProcessLock, TLC

Symmetry == Permutations(Procs) \cup Permutations(Inodes)
==============================================================================
