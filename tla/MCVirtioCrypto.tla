---------------------------- MODULE MCVirtioCrypto ----------------------------
(* VirtioCrypto for TLC: tasks and files are interchangeable. *)
EXTENDS VirtioCrypto, TLC

Symmetry == Permutations(Tasks) \cup Permutations(Files) \cup Permutations(SessionIds)
==============================================================================
