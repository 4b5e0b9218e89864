---------------------------- MODULE MCTeleClient ----------------------------
(* TeleClient with symmetric connections and pushes, for safety runs. *)
EXTENDS TeleClient, TLC

Symmetry == Permutations(Conns) \cup Permutations(Pushes)
==============================================================================
