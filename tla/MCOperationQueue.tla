-------------------------- MODULE MCOperationQueue --------------------------
(***************************************************************************)
(* OperationQueue for up to three calls of one guild.  "a" is a submit and *)
(* "x" a run_exclusive; which "b" is, and what they share, differs from    *)
(* run to run.                                                             *)
(***************************************************************************)
EXTENDS OperationQueue

CONSTANTS a, b, x, k1, k2, k3, lane, wide, pool, type, kind

MCCalls == {a, b, x}

(* "a" and "b" are the same request twice. *)
SameKey  == [c \in Calls |-> IF c = x THEN k2 ELSE k1]
(* Three requests. *)
OwnKeys  == [c \in Calls |-> CASE c = a -> k1 [] c = b -> k2 [] OTHER -> k3]
AllKeys  == [c \in Calls |-> k1]
(* "a" and "x" are the same request, by either way in. *)
BothWays == [c \in Calls |-> IF c = b THEN k2 ELSE k1]

(* All compete for one lock; "x" competes for permits only. *)
OneLane  == [c \in Calls |-> lane]
TwoLanes == [c \in Calls |-> IF c = x THEN wide ELSE lane]

OnePool  == [c \in Calls |-> pool]
OneType  == [c \in Calls |-> type]
(* "b" and "x" compete for one type's permits, from two lanes. *)
TwoTypes == [c \in Calls |-> IF c = a THEN kind ELSE type]
Cap1     == [p \in {pool} |-> 1]
Cap2     == [p \in {pool} |-> 2]
=============================================================================
