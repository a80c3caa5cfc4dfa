-------------------------- MODULE MCTicketCounter --------------------------
(* Instances of TicketCounter for TLC. *)
EXTENDS TicketCounter, TLC

CONSTANTS t1, t2, t3

Alike == Permutations(Calls)
=============================================================================
