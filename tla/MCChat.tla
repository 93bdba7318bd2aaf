------------------------------- MODULE MCChat -------------------------------
(* Chat for TLC: clients are interchangeable. *)
EXTENDS Chat, TLC

Symmetry == Permutations(Clients)
==============================================================================
