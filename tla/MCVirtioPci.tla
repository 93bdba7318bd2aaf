----------------------------- MODULE MCVirtioPci -----------------------------
(* VirtioPci for TLC: vectors are interchangeable, queues have an order. *)
EXTENDS VirtioPci, TLC

Symmetry == Permutations(Vectors)

(* A guest with MSI-X does not kick.  Of the kicks, the other actions only   *)
(* ask that no CPU is trapped, and what a kick changes (work, trapped, and   *)
(* whether a host notifier is set or clear) matters to KickPending alone,    *)
(* which VirtioPciProofs shows of Spec.  So this drops no state of the rest, *)
(* and makes room for a third queue.                                        *)
KicksWithIntx ==
  Init /\ [][Call \/ Guest \/ Machine \/ Interrupts \/ (intr = "intx" /\ Kicks)]_vars
==============================================================================
