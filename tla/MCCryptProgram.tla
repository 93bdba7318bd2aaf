---------------------------- MODULE MCCryptProgram ----------------------------
(* CryptProgram for TLC: tasks, files and sessions are interchangeable. *)
EXTENDS CryptProgram, TLC

Symmetry == Permutations(Tasks) \cup Permutations(Files) \cup Permutations(SessionIds)
==============================================================================
