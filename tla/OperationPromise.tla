-------------------------- MODULE OperationPromise --------------------------
(***************************************************************************)
(* What the operation queue promises to the operations of one process and  *)
(* the next, whatever happens to threads, rows and waiters inside it:      *)
(*   - an operation is admitted once, begins at most once, and is over     *)
(*     once it has ended, was withdrawn, or its process died;              *)
(*   - of the operations with one idempotency key at most one is under way *)
(*     (waiting or executing) at a time, until a call of the database has  *)
(*     failed;                                                             *)
(*   - operations of one concurrency key never execute together;           *)
(*   - no more execute together than the whole bot, a guild's pool and an  *)
(*     operation type allow.                                               *)
(***************************************************************************)
EXTENDS Naturals, FiniteSets

CONSTANTS Calls, KeyOf, LaneOf, PoolOf, TypeOf,
          Pools, Types, MaxGlobal, PoolCap, MaxPerType

VARIABLES
    phase,              \* [Calls -> Phases]
    degraded            \* a call of the database has failed

Phases == {"none", "waiting", "executing", "over", "lost"}

Init == phase = [c \in Calls |-> "none"] /\ degraded = FALSE

UnderWay(c) == phase[c] \in {"waiting", "executing"}
Executing   == {c \in Calls : phase[c] = "executing"}

Admit(c) ==
    /\ phase[c] = "none"
    /\ degraded \/ \A d \in Calls : KeyOf[d] = KeyOf[c] => ~ UnderWay(d)
    /\ phase' = [phase EXCEPT ![c] = "waiting"]

Begin(c) ==
    /\ phase[c] = "waiting"
    /\ \A d \in Executing : LaneOf[d] # LaneOf[c]
    /\ Cardinality(Executing) < MaxGlobal
    /\ Cardinality({d \in Executing : PoolOf[d] = PoolOf[c]}) < PoolCap[PoolOf[c]]
    /\ Cardinality({d \in Executing : TypeOf[d] = TypeOf[c]}) < MaxPerType
    /\ phase' = [phase EXCEPT ![c] = "executing"]

Withdraw(c) ==
    /\ phase[c] = "waiting"
    /\ phase' = [phase EXCEPT ![c] = "over"]

End(c) ==
    /\ phase[c] = "executing"
    /\ phase' = [phase EXCEPT ![c] = "over"]

Crash ==
    phase' = [c \in Calls |-> IF UnderWay(c) THEN "lost" ELSE phase[c]]

Step ==
    \/ \E c \in Calls : Admit(c) \/ Begin(c) \/ Withdraw(c) \/ End(c)
    \/ Crash

(* A call of the database may fail in any step, or in one of no other effect. *)
Next == (Step \/ UNCHANGED phase) /\ (degraded => degraded')

Spec == Init /\ [][Next]_<<phase, degraded>>
=============================================================================
