----------------------------- MODULE MCIrcServer -----------------------------
(* IrcServer for TLC: clients are interchangeable when all or none leave. *)
EXTENDS IrcServer, TLC

Symmetry == Permutations(Clients)

(* Once two threads serve one client they always do, and of what follows   *)
(* only LocksExclusive still claims something in a run with this           *)
(* constraint; irc_live goes on after it without a constraint.             *)
NoSharedId == ~SharedId
==============================================================================
