--------------------------- MODULE MCCryptoModule ---------------------------
(* CryptoModule for TLC: tasks are interchangeable. *)
EXTENDS CryptoModule, TLC

Symmetry == Permutations(Tasks)
==============================================================================
