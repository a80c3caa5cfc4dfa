------------------------ MODULE OperationQueueProofs ------------------------
(***************************************************************************)
(* Proofs about OperationQueue, for every set of calls, every assignment   *)
(* of keys, lanes, pools and types, every limit and any number of crashes. *)
(***************************************************************************)
EXTENDS OperationQueue, FiniteSetTheorems, TLAPS

----------------------------------------------------------------------------
(* Type correctness.  The image an upsert sends was built by the step before. *)
UpsertHasImage == \A c \in Calls : call[c] = "upserting" => pending[c] \in Images

LEMMA TypeInit == Init => TypeOK /\ UpsertHasImage
  BY OperationAssumptions DEF Init, TypeOK, UpsertHasImage, CallSteps, Answers,
     RunSteps, Statuses

(* The rows that the persistence functions build are rows. *)
LEMMA RowTypes ==
    ASSUME db \in [Keys -> Rows \cup {None}]
    PROVE  /\ \A s \in Statuses : Snapshot(s) \in Images
           /\ \A r \in Rows : Image(r) \in Images
           /\ \A c \in Calls, i \in Images :
                 /\ Row(c, i) \in Rows
                 /\ Upserted(c, i) \in [Keys -> Rows \cup {None}]
                 /\ Updated(c, i) \in [Keys -> Rows \cup {None}]
<1>1. \A s \in Statuses : Snapshot(s) \in Images
  BY DEF Snapshot, Images, Leases
<1>2. \A r \in Rows : Image(r) \in Images
  BY DEF Image, Images, Rows
<1>3. \A c \in Calls, i \in Images : Row(c, i) \in Rows
  BY DEF Row, Images, Rows
<1>4. \A c \in Calls, i \in Images : Upserted(c, i) \in [Keys -> Rows \cup {None}]
  BY <1>3 DEF Upserted, Set
<1>5. \A c \in Calls, i \in Images : Updated(c, i) \in [Keys -> Rows \cup {None}]
  BY <1>4 DEF Updated
<1> QED  BY <1>1, <1>2, <1>3, <1>4, <1>5

(* A write, successful or not, leaves a table, a store and a fault count. *)
LEMMA PutTypes ==
    ASSUME TypeOK, NEW after \in [Keys -> Rows \cup {None}], Put(after)
    PROVE  /\ db' \in [Keys -> Rows \cup {None}]
           /\ store' \in {"up", "off", "lagging"}
           /\ faults' \in 0..MaxFaults
  BY OperationAssumptions DEF Put, Disable, TypeOK

(* After its permits are back a job awaits its last update, or leaves its lane. *)
LEMMA RecordTypes ==
    ASSUME TypeOK, NEW c \in Calls, RecordThenLeave(c)
    PROVE  /\ run' \in [Calls -> RunSteps]
           /\ lock' \in [Lanes -> Calls \cup {None}]
           /\ worker' \in [Lanes -> {"none", "idle", "busy"}]
  BY DEF RecordThenLeave, Leave, WorkerIdle, Set, RunSteps, TypeOK

LEMMA TypeStep == TypeOK /\ UpsertHasImage /\ [Next]_vars => (TypeOK /\ UpsertHasImage)'
<1> SUFFICES ASSUME TypeOK, UpsertHasImage, [Next]_vars
             PROVE  (TypeOK /\ UpsertHasImage)'
  OBVIOUS
<1> DEFINE Goal == (TypeOK /\ UpsertHasImage)'
<1>0. db \in [Keys -> Rows \cup {None}]
  BY DEF TypeOK
<1> USE OperationAssumptions
<1> USE DEF callers, jobs, marks, memory, permits, sched, storage, starting, clients,
            writes, others, Set, CallSteps, Answers, RunSteps, Statuses, Answered
<1>1. ASSUME NEW c \in Calls, CallBegins(c) PROVE Goal
  BY <1>1, SMTT(40) DEF CallBegins, TypeOK, UpsertHasImage
<1>2. ASSUME NEW c \in Calls, CallReconciled(c) PROVE Goal
  BY <1>2 DEF CallReconciled, TypeOK, UpsertHasImage
<1>3. ASSUME NEW c \in Calls, Fetch(c) PROVE Goal
  <2>1. KeyOf[c] \in Keys
    BY DEF Keys
  <2> QED  BY <1>3, <2>1 DEF Fetch, ReadFails, Disable, TypeOK, UpsertHasImage
<1>4. ASSUME NEW c \in Calls, DuplicateOfRow(c) PROVE Goal
  <2>1. seen[c] \in Rows /\ seen[c].id \in Calls
    BY <1>4 DEF DuplicateOfRow, TypeOK, Rows
  <2> QED  BY <1>4, <2>1, RowTypes, <1>0 DEF DuplicateOfRow, TypeOK, UpsertHasImage
<1>5. ASSUME NEW c \in Calls, DuplicateInMemory(c) PROVE Goal
  BY <1>5 DEF DuplicateInMemory, TypeOK, UpsertHasImage
<1>6. ASSUME NEW c \in Calls, Refuse(c) PROVE Goal
  BY <1>6, SMTT(40) DEF Refuse, TypeOK, UpsertHasImage
<1>7. ASSUME NEW c \in Calls, Admit(c) PROVE Goal
  <2>1. tracked' \in [Calls -> Images \cup {None, Live}]
    BY <1>7 DEF Admit, TypeOK
  <2>2. dedupe' \in [Keys -> Calls \cup {None}]
    BY <1>7 DEF Admit, TypeOK
  <2>3. call' \in [Calls -> CallSteps] /\ answer' \in [Calls -> Answers]
    BY <1>7 DEF Admit, TypeOK
  <2>4. /\ run' \in [Calls -> RunSteps]
        /\ ahead' \in [Calls -> SUBSET Calls]
        /\ worker' \in [Lanes -> {"none", "idle", "busy"}]
    <3>1. CASE c \in Exclusive
      BY <1>7, <3>1 DEF Admit, TypeOK
    <3>2. CASE c \notin Exclusive
      <4>1. run' \in [Calls -> RunSteps]
        BY <1>7, <3>2 DEF Admit, TypeOK
      <4>2. ahead' \in [Calls -> SUBSET Calls]
        <5>1. ahead' = [ahead EXCEPT ![c] = Waiting(LaneOf[c])]
          BY <1>7, <3>2 DEF Admit
        <5>2. Waiting(LaneOf[c]) \in SUBSET Calls
          BY DEF Waiting
        <5> QED  BY <5>1, <5>2 DEF TypeOK
      <4>3. worker' \in [Lanes -> {"none", "idle", "busy"}]
        BY <1>7, <3>2 DEF Admit, TypeOK
      <4> QED  BY <4>1, <4>2, <4>3
    <3> QED  BY <3>1, <3>2
  <2>5. UpsertHasImage'
    BY <1>7 DEF Admit, TypeOK, UpsertHasImage
  <2> QED  BY <1>7, <2>1, <2>2, <2>3, <2>4, <2>5 DEF Admit, TypeOK
<1>8. ASSUME NEW c \in Calls, BuildRow(c) PROVE Goal
  BY <1>8, RowTypes, <1>0 DEF BuildRow, TypeOK, UpsertHasImage
<1>9. ASSUME NEW c \in Calls, StoreRow(c) PROVE Goal
  <2>1. pending[c] \in Images
    BY <1>9 DEF StoreRow, UpsertHasImage
  <2>2. Upserted(c, pending[c]) \in [Keys -> Rows \cup {None}]
    BY <2>1, RowTypes, <1>0
  <2> QED  BY <1>9, <2>2, PutTypes DEF StoreRow, TypeOK, UpsertHasImage
<1>10. ASSUME NEW c \in Calls, WorkerTakes(c) PROVE Goal
  BY <1>10, SMTT(40) DEF WorkerTakes, TypeOK, UpsertHasImage
<1>11. ASSUME NEW c \in Calls, RecordDropped(c) PROVE Goal
  <2>1. Updated(c, Snapshot(status[c])) \in [Keys -> Rows \cup {None}]
    BY RowTypes DEF TypeOK
  <2> QED  BY <1>11, <2>1, PutTypes DEF RecordDropped, WorkerIdle, TypeOK, UpsertHasImage
<1>12. ASSUME NEW c \in Calls, TakeLock(c) PROVE Goal
  BY <1>12 DEF TakeLock, TypeOK, UpsertHasImage
<1>13. ASSUME NEW c \in Calls, TakeGlobal(c) PROVE Goal
  BY <1>13 DEF TakeGlobal, TypeOK, UpsertHasImage
<1>14. ASSUME NEW c \in Calls, TakePool(c) PROVE Goal
  BY <1>14, SMTT(40) DEF TakePool, TypeOK, UpsertHasImage
<1>15. ASSUME NEW c \in Calls, Drop(c) PROVE Goal
  <2>1. globalFree' \in Nat /\ poolFree' \in [Pools -> Nat]
    BY <1>15 DEF Drop, TypeOK
  <2>2. status' \in [Calls -> Statuses]
    BY <1>15 DEF Drop, TypeOK
  <2> QED  BY <1>15, <2>1, <2>2, RecordTypes DEF Drop, TypeOK, UpsertHasImage
<1>16. ASSUME NEW c \in Calls, Begin(c) PROVE Goal
  BY <1>16, SMTT(40) DEF Begin, TypeOK, UpsertHasImage
<1>17. ASSUME NEW c \in Calls, MarkRunning(c) PROVE Goal
  <2>1. Updated(c, Snapshot("running")) \in [Keys -> Rows \cup {None}]
    BY RowTypes, <1>0
  <2> QED  BY <1>17, <2>1, PutTypes DEF MarkRunning, TypeOK, UpsertHasImage
<1>18. ASSUME NEW c \in Calls, End(c) PROVE Goal
  <2>1. /\ globalFree' \in Nat
        /\ poolFree' \in [Pools -> Nat]
        /\ typeFree' \in [Types -> Nat]
        /\ status' \in [Calls -> Statuses]
    BY <1>18 DEF End, TypeOK
  <2> QED  BY <1>18, <2>1, RecordTypes DEF End, TypeOK, UpsertHasImage
<1>19. ASSUME NEW c \in Calls, Record(c) PROVE Goal
  <2>1. Updated(c, Snapshot(status[c])) \in [Keys -> Rows \cup {None}]
    BY RowTypes DEF TypeOK
  <2> QED  BY <1>19, <2>1, PutTypes DEF Record, Leave, WorkerIdle, TypeOK, UpsertHasImage
<1>20. ASSUME NEW c \in Calls, Cancel(c) PROVE Goal
  <2>1. CASE CancelQueued(c)
    <3>1. Snapshot("cancelled") \in Images
      BY RowTypes, <1>0
    <3>2. cancelling' \in [Calls -> Images \cup {None}]
      BY <2>1, <3>1 DEF CancelQueued, Writes, TypeOK
    <3>3. status' \in [Calls -> Statuses]
      BY <2>1 DEF CancelQueued, TypeOK
    <3> QED  BY <1>20, <2>1, <3>2, <3>3 DEF Cancel, CancelQueued, TypeOK, UpsertHasImage
  <2>2. CASE CancelRunning(c)
    BY <1>20, <2>2, RowTypes, <1>0 DEF Cancel, CancelRunning, Writes, TypeOK, UpsertHasImage
  <2>3. CASE CancelCopy(c)
    <3>1. tracked[c] \in Images
      BY <2>3 DEF CancelCopy, TypeOK
    <3>2. [tracked[c] EXCEPT !.status = "cancelled"] \in Images
      BY <3>1 DEF Images
    <3> QED  BY <1>20, <2>3, <3>1, <3>2
             DEF Cancel, CancelCopy, Writes, TypeOK, UpsertHasImage
  <2> QED  BY <1>20, <2>1, <2>2, <2>3 DEF Cancel
<1>21. ASSUME NEW c \in Calls, CancelLands(c) PROVE Goal
  <2>1. Updated(c, cancelling[c]) \in [Keys -> Rows \cup {None}]
    BY <1>21, RowTypes DEF CancelLands, TypeOK
  <2> QED  BY <1>21, <2>1, PutTypes DEF CancelLands, TypeOK, UpsertHasImage
<1>22. ASSUME NEW c \in Calls, Reattach(c) PROVE Goal
  <2>1. CASE Owns(c) /\ tracked' = Set(tracked, c, Image(db[KeyOf[c]])) /\ UNCHANGED storage
    <3>1. db[KeyOf[c]] \in Rows
      BY <2>1 DEF Owns, Keys, TypeOK
    <3> QED  BY <1>22, <2>1, <3>1, RowTypes, <1>0 DEF Reattach, TypeOK, UpsertHasImage
  <2>2. CASE ReadFails /\ UNCHANGED tracked
    BY <1>22, <2>2 DEF Reattach, ReadFails, Disable, TypeOK, UpsertHasImage
  <2> QED  BY <1>22, <2>1, <2>2 DEF Reattach
<1>23. ASSUME NEW l \in Lanes, WorkerRetires(l) PROVE Goal
  BY <1>23 DEF WorkerRetires, TypeOK, UpsertHasImage
<1>24. ASSUME NEW k \in Keys, DedupeExpires(k) PROVE Goal
  BY <1>24 DEF DedupeExpires, TypeOK, UpsertHasImage
<1>25. ASSUME NEW k \in Keys, LeaseLapses(k) PROVE Goal
  <2>1. [db EXCEPT ![k].lease = "past"] \in [Keys -> Rows \cup {None}]
    BY <1>0, <1>25 DEF LeaseLapses, Rows, Leases
  <2> QED  BY <1>25, <2>1 DEF LeaseLapses, TypeOK, UpsertHasImage
<1>26. CASE ReconcileStart
  BY <1>26 DEF ReconcileStart, TypeOK, UpsertHasImage
<1>27. CASE ReconcileRead
  <2>1. {db[k].id : k \in {q \in Keys : db[q] # None /\ ShouldExpire(db[q])}} \subseteq Calls
    BY <1>0 DEF Rows
  <2> QED  BY <1>27, <2>1 DEF ReconcileRead, ReadFails, Disable, TypeOK, UpsertHasImage
<1>28. CASE ReconcileEnd
  BY <1>28, RowTypes, <1>0 DEF ReconcileEnd, TypeOK, UpsertHasImage
<1>29. ASSUME NEW c \in Calls, ReconcileWrite(c) PROVE Goal
  <2>1. Updated(c, Snapshot("expired")) \in [Keys -> Rows \cup {None}]
    BY RowTypes, <1>0
  <2> QED  BY <1>29, <2>1 DEF ReconcileWrite, Disable, TypeOK, UpsertHasImage
<1>30. CASE StoreRetried
  BY <1>30 DEF StoreRetried, TypeOK, UpsertHasImage
<1>31. CASE Crash
  BY <1>31 DEF Crash, TypeOK, UpsertHasImage
<1>32. CASE UNCHANGED vars
  BY <1>32 DEF vars, TypeOK, UpsertHasImage
<1> QED
  BY <1>1, <1>2, <1>3, <1>4, <1>5, <1>6, <1>7, <1>8, <1>9, <1>10, <1>11, <1>12, <1>13,
     <1>14, <1>15, <1>16, <1>17, <1>18, <1>19, <1>20, <1>21, <1>22, <1>23, <1>24, <1>25,
     <1>26, <1>27, <1>28, <1>29, <1>30, <1>31, <1>32
     DEF Next, Start, Decide, Store, Execute, Reconcile

(* Every variable of the queue stays in its set, faults and crashes included:
   in particular no semaphore goes below zero and no upsert is sent without a
   row (all of operation_queue.py). *)
THEOREM TypeCorrect == Spec => []TypeOK
<1>1. Spec => [](TypeOK /\ UpsertHasImage)
  BY TypeInit, TypeStep, PTL DEF Spec
<1> QED  BY <1>1, PTL

----------------------------------------------------------------------------
(* What a step does to jobs, locks and permits.  A call has no job to run
   before its row is stored (run_exclusive) or its job is queued (submit). *)
CallPrecedesRun ==
    \A c \in Calls :
        /\ call[c] \in {"new", "reconciling", "fetching", "fetched"} => run[c] = "none"
        /\ c \in Exclusive /\ call[c] \in {"storing", "upserting"} => run[c] = "none"

Stays == UNCHANGED <<run, lock, permits>>

MovesOutside(c) ==
    /\ run[c] \in {"none", "queued", "dropping"}
    /\ \E s \in {"none", "queued", "dropping", "locking", "done"} :
          run' = [run EXCEPT ![c] = s]
    /\ UNCHANGED <<lock, permits>>

MovesInside(c) ==
    \/ TakeLock(c) \/ TakeGlobal(c) \/ TakePool(c) \/ Drop(c) \/ Begin(c)
    \/ MarkRunning(c) \/ End(c) \/ Record(c)

LEMMA StepKinds ==
    ASSUME TypeOK, CallPrecedesRun, [Next]_vars
    PROVE  \/ Stays
           \/ \E c \in Calls : MovesOutside(c) \/ MovesInside(c)
           \/ Crash
<1> DEFINE Goal == Stays \/ (\E c \in Calls : MovesOutside(c) \/ MovesInside(c)) \/ Crash
<1> USE DEF callers, jobs, marks, permits, sched, Set, Stays
<1>1. ASSUME NEW c \in Calls, Start(c) PROVE Goal
  BY <1>1 DEF Start, CallBegins, CallReconciled, Fetch
<1>2. ASSUME NEW c \in Calls, Decide(c) PROVE Goal
  <2>1. CASE DuplicateOfRow(c)
    BY <2>1 DEF DuplicateOfRow
  <2>2. CASE DuplicateInMemory(c)
    BY <2>2 DEF DuplicateInMemory
  <2>3. CASE Refuse(c)
    BY <2>3 DEF Refuse
  <2>4. CASE Admit(c)
    <3>1. run[c] = "none"
      BY <2>4 DEF Admit, CallPrecedesRun
    <3>2. \E s \in {"none", "queued", "locking"} : run' = [run EXCEPT ![c] = s]
      BY <2>4 DEF Admit
    <3>3. UNCHANGED <<lock, permits>>
      BY <2>4 DEF Admit
    <3> QED  BY <3>1, <3>2, <3>3 DEF MovesOutside
  <2> QED  BY <1>2, <2>1, <2>2, <2>3, <2>4 DEF Decide
<1>3. ASSUME NEW c \in Calls, Store(c) PROVE Goal
  <2>1. CASE BuildRow(c)
    BY <2>1 DEF BuildRow
  <2>2. CASE StoreRow(c) /\ c \notin Exclusive
    BY <2>2 DEF StoreRow
  <2>3. CASE StoreRow(c) /\ c \in Exclusive
    BY <2>3 DEF StoreRow, CallPrecedesRun, MovesOutside
  <2> QED  BY <1>3, <2>1, <2>2, <2>3 DEF Store
<1>4. ASSUME NEW c \in Calls, WorkerTakes(c) PROVE Goal
  BY <1>4 DEF WorkerTakes, MovesOutside
<1>5. ASSUME NEW c \in Calls, RecordDropped(c) PROVE Goal
  BY <1>5 DEF RecordDropped, MovesOutside
<1>6. ASSUME NEW c \in Calls, Cancel(c) \/ CancelLands(c) \/ Reattach(c) PROVE Goal
  BY <1>6 DEF Cancel, CancelLands, Reattach
<1>7. ASSUME NEW l \in Lanes, WorkerRetires(l) PROVE Goal
  BY <1>7 DEF WorkerRetires
<1>8. ASSUME NEW k \in Keys, DedupeExpires(k) \/ LeaseLapses(k) PROVE Goal
  BY <1>8 DEF DedupeExpires, LeaseLapses
<1>9. CASE ReconcileStart \/ ReconcileRead \/ ReconcileEnd \/ StoreRetried
  BY <1>9 DEF ReconcileStart, ReconcileRead, ReconcileEnd, StoreRetried
<1>10. ASSUME NEW c \in Calls, ReconcileWrite(c) PROVE Goal
  BY <1>10 DEF ReconcileWrite
<1>11. CASE UNCHANGED vars
  BY <1>11 DEF vars
<1>12. ASSUME NEW c \in Calls, MovesInside(c) PROVE Goal
  BY <1>12
<1> QED
  BY <1>1, <1>2, <1>3, <1>4, <1>5, <1>6, <1>7, <1>8, <1>9, <1>10, <1>11, <1>12
     DEF Next, Execute, Reconcile, MovesInside

LEMMA CallPrecedesRunStep ==
    ASSUME TypeOK, CallPrecedesRun, [Next]_vars
    PROVE  CallPrecedesRun'
<1> DEFINE Goal == CallPrecedesRun'
<1> USE DEF callers, jobs, marks, Set, CallSteps, RunSteps, TypeOK, Answered
<1>1. ASSUME NEW c \in Calls, Start(c) PROVE Goal
  BY <1>1 DEF Start, CallBegins, CallReconciled, Fetch, CallPrecedesRun
<1>2. ASSUME NEW c \in Calls, Decide(c) PROVE Goal
  BY <1>2 DEF Decide, DuplicateOfRow, DuplicateInMemory, Refuse, Admit, CallPrecedesRun
<1>3. ASSUME NEW c \in Calls, Store(c) PROVE Goal
  BY <1>3 DEF Store, BuildRow, StoreRow, CallPrecedesRun
<1>4. ASSUME NEW c \in Calls, WorkerTakes(c) \/ RecordDropped(c) PROVE Goal
  BY <1>4 DEF WorkerTakes, RecordDropped, CallPrecedesRun
<1>5. ASSUME NEW c \in Calls, TakeLock(c) \/ TakeGlobal(c) \/ TakePool(c) PROVE Goal
  BY <1>5 DEF TakeLock, TakeGlobal, TakePool, CallPrecedesRun
<1>6. ASSUME NEW c \in Calls, Drop(c) \/ End(c) PROVE Goal
  BY <1>6 DEF Drop, End, RecordThenLeave, Leave, CallPrecedesRun
<1>7. ASSUME NEW c \in Calls, Begin(c) \/ MarkRunning(c) \/ Record(c) PROVE Goal
  BY <1>7 DEF Begin, MarkRunning, Record, Leave, CallPrecedesRun
<1>8. ASSUME NEW c \in Calls, Cancel(c) \/ CancelLands(c) \/ Reattach(c) PROVE Goal
  BY <1>8 DEF Cancel, CancelLands, Reattach, CallPrecedesRun
<1>9. ASSUME NEW l \in Lanes, WorkerRetires(l) PROVE Goal
  BY <1>9 DEF WorkerRetires, CallPrecedesRun
<1>10. ASSUME NEW k \in Keys, DedupeExpires(k) \/ LeaseLapses(k) PROVE Goal
  BY <1>10 DEF DedupeExpires, LeaseLapses, CallPrecedesRun
<1>11. CASE ReconcileStart \/ ReconcileRead \/ ReconcileEnd \/ StoreRetried
  BY <1>11 DEF ReconcileStart, ReconcileRead, ReconcileEnd, StoreRetried, CallPrecedesRun
<1>12. ASSUME NEW c \in Calls, ReconcileWrite(c) PROVE Goal
  BY <1>12 DEF ReconcileWrite, CallPrecedesRun
<1>13. CASE Crash
  BY <1>13 DEF Crash, JobUnderWay, Waits, CallPrecedesRun
<1>14. CASE UNCHANGED vars
  BY <1>14 DEF vars, CallPrecedesRun
<1> QED
  BY <1>1, <1>2, <1>3, <1>4, <1>5, <1>6, <1>7, <1>8, <1>9, <1>10, <1>11, <1>12, <1>13,
     <1>14 DEF Next, Execute, Reconcile

----------------------------------------------------------------------------
(* The lane's lock: a job that waits for its permits, executes or records its
   result is the one the lock names, so two of a lane never do so together. *)
LockHeld == \A c \in Calls : run[c] \in Holding => lock[LaneOf[c]] = c

LEMMA LockStep ==
    ASSUME TypeOK, CallPrecedesRun, LockHeld, [Next]_vars
    PROVE  LockHeld'
<1> USE OperationAssumptions
<1> USE DEF TypeOK, Set, Holding, RunSteps, LockHeld
<1>1. CASE Stays
  BY <1>1 DEF Stays
<1>2. ASSUME NEW c \in Calls, MovesOutside(c) PROVE LockHeld'
  BY <1>2 DEF MovesOutside
<1>3. ASSUME NEW c \in Calls, TakeLock(c) PROVE LockHeld'
  <2>1. \A d \in Calls : run[d] \in Holding => LaneOf[d] # LaneOf[c]
    BY <1>3 DEF TakeLock
  <2> QED  BY <1>3, <2>1 DEF TakeLock
<1>4. ASSUME NEW c \in Calls, TakeGlobal(c) \/ TakePool(c) PROVE LockHeld'
  BY <1>4 DEF TakeGlobal, TakePool, sched
<1>5. ASSUME NEW c \in Calls, Begin(c) \/ MarkRunning(c) PROVE LockHeld'
  BY <1>5 DEF Begin, MarkRunning, sched
<1>6. ASSUME NEW c \in Calls, run[c] \in Holding, Leave(c) PROVE LockHeld'
  <2>1. \A d \in Calls \ {c} : run[d] \in Holding => LaneOf[d] # LaneOf[c]
    BY <1>6
  <2> QED  BY <1>6, <2>1 DEF Leave
<1>7. ASSUME NEW c \in Calls, Drop(c) \/ End(c) PROVE LockHeld'
  <2>1. run[c] \in Holding /\ RecordThenLeave(c)
    BY <1>7 DEF Drop, End
  <2>2. CASE Leave(c)
    BY <1>6, <2>1, <2>2
  <2>3. CASE run' = Set(run, c, "recording") /\ UNCHANGED <<lock, worker>>
    BY <2>1, <2>3
  <2> QED  BY <2>1, <2>2, <2>3 DEF RecordThenLeave
<1>8. ASSUME NEW c \in Calls, Record(c) PROVE LockHeld'
  BY <1>6, <1>8 DEF Record
<1>9. CASE Crash
  BY <1>9 DEF Crash, JobUnderWay, Waits
<1> QED
  BY <1>1, <1>2, <1>3, <1>4, <1>5, <1>7, <1>8, <1>9, StepKinds DEF MovesInside

----------------------------------------------------------------------------
(* Permits *)

(* One job's step adds it to a set of holders, takes it out, or does neither. *)
LEMMA HoldersMove ==
    ASSUME TypeOK, NEW members \in SUBSET Calls, NEW steps, NEW c \in Calls, NEW s,
           run' = [run EXCEPT ![c] = s]
    PROVE  LET n == Cardinality(Holders(members, steps))
               m == Cardinality(Holders(members, steps)')
           IN  /\ n \in Nat
               /\ c \notin members => m = n
               /\ (run[c] \in steps <=> s \in steps) => m = n
               /\ c \in members /\ run[c] \notin steps /\ s \in steps => m = n + 1
               /\ c \in members /\ run[c] \in steps /\ s \notin steps => m = n - 1
<1> DEFINE H == Holders(members, steps)
<1> DEFINE I == Holders(members, steps)'
<1>1. IsFiniteSet(H)
  <2>1. H \subseteq Calls
    BY DEF Holders
  <2> QED  BY <2>1, FS_Subset, OperationAssumptions
<1>2. Cardinality(H) \in Nat
  BY <1>1, FS_CardinalityType
<1>3. ASSUME c \notin members \/ (run[c] \in steps <=> s \in steps)
      PROVE  I = H
  BY <1>3 DEF Holders, TypeOK
<1>4. ASSUME c \in members, run[c] \notin steps, s \in steps
      PROVE  Cardinality(I) = Cardinality(H) + 1
  <2>1. I = H \cup {c} /\ c \notin H
    BY <1>4 DEF Holders, TypeOK
  <2> QED  BY <1>1, <2>1, FS_AddElement
<1>5. ASSUME c \in members, run[c] \in steps, s \notin steps
      PROVE  Cardinality(I) = Cardinality(H) - 1
  <2>1. I = H \ {c} /\ c \in H
    BY <1>5 DEF Holders, TypeOK
  <2> QED  BY <1>1, <2>1, FS_RemoveElement
<1> QED  BY <1>2, <1>3, <1>4, <1>5

(* A step of one job that keeps it where it is, as far as permits go. *)
LEMMA PermitsKept ==
    ASSUME TypeOK, PermitsBalanced, UNCHANGED permits, NEW c \in Calls, NEW s,
           run' = [run EXCEPT ![c] = s],
           \A steps \in {HasGlobal, HasPool, HasType} : run[c] \in steps <=> s \in steps
    PROVE  PermitsBalanced'
<1>1. Cardinality(Holders(Calls, HasGlobal)') = Cardinality(Holders(Calls, HasGlobal))
  BY HoldersMove
<1>2. \A p \in Pools :
        Cardinality(Holders(OfPool(p), HasPool)') = Cardinality(Holders(OfPool(p), HasPool))
  <2> TAKE p \in Pools
  <2>1. OfPool(p) \in SUBSET Calls
    BY DEF OfPool
  <2> QED  BY <2>1, HoldersMove
<1>3. \A t \in Types :
        Cardinality(Holders(OfType(t), HasType)') = Cardinality(Holders(OfType(t), HasType))
  <2> TAKE t \in Types
  <2>1. OfType(t) \in SUBSET Calls
    BY DEF OfType
  <2> QED  BY <2>1, HoldersMove
<1> QED  BY <1>1, <1>2, <1>3 DEF PermitsBalanced, permits

LEMMA PermitsInit == Init => PermitsBalanced
<1> SUFFICES ASSUME Init PROVE PermitsBalanced
  OBVIOUS
<1>1. ASSUME NEW members \in SUBSET Calls, NEW steps, "none" \notin steps
      PROVE  Holders(members, steps) = {}
  BY <1>1 DEF Holders, Init
<1>2. Cardinality({}) = 0
  BY FS_EmptySet
<1>3. globalFree + Cardinality(Holders(Calls, HasGlobal)) = MaxGlobal
  <2>1. Holders(Calls, HasGlobal) = {}
    BY <1>1 DEF HasGlobal
  <2> QED  BY <1>2, <2>1, OperationAssumptions DEF Init
<1>4. ASSUME NEW p \in Pools
      PROVE  poolFree[p] + Cardinality(Holders(OfPool(p), HasPool)) = PoolCap[p]
  <2>1. OfPool(p) \in SUBSET Calls
    BY DEF OfPool
  <2>2. Holders(OfPool(p), HasPool) = {}
    BY <1>1, <2>1 DEF HasPool
  <2> QED  BY <1>2, <2>2, OperationAssumptions DEF Init
<1>5. ASSUME NEW t \in Types
      PROVE  typeFree[t] + Cardinality(Holders(OfType(t), HasType)) = MaxPerType
  <2>1. OfType(t) \in SUBSET Calls
    BY DEF OfType
  <2>2. Holders(OfType(t), HasType) = {}
    BY <1>1, <2>1 DEF HasType
  <2> QED  BY <1>2, <2>2, OperationAssumptions DEF Init
<1> QED  BY <1>3, <1>4, <1>5 DEF PermitsBalanced

(* Where a job is after its permits are back. *)
LEMMA RecordMoves ==
    ASSUME NEW c \in Calls, RecordThenLeave(c)
    PROVE  \E s \in {"recording", "done"} : run' = [run EXCEPT ![c] = s]
  BY DEF RecordThenLeave, Leave, Set

LEMMA PermitsStep ==
    ASSUME TypeOK, CallPrecedesRun, PermitsBalanced, [Next]_vars
    PROVE  PermitsBalanced'
<1> DEFINE nG == Cardinality(Holders(Calls, HasGlobal))
<1> DEFINE nP(p) == Cardinality(Holders(OfPool(p), HasPool))
<1> DEFINE nT(t) == Cardinality(Holders(OfType(t), HasType))
<1> DEFINE nGn == Cardinality(Holders(Calls, HasGlobal)')
<1> DEFINE nPn(p) == Cardinality(Holders(OfPool(p), HasPool)')
<1> DEFINE nTn(t) == Cardinality(Holders(OfType(t), HasType)')
<1> USE OperationAssumptions
<1>0. /\ \A p \in Pools : OfPool(p) \in SUBSET Calls
      /\ \A t \in Types : OfType(t) \in SUBSET Calls
      /\ \A c \in Calls, p \in Pools : c \in OfPool(p) <=> p = PoolOf[c]
      /\ \A c \in Calls, t \in Types : c \in OfType(t) <=> t = TypeOf[c]
  BY DEF OfPool, OfType
<1>s. SUFFICES /\ globalFree' + nGn = MaxGlobal
               /\ \A p \in Pools : poolFree'[p] + nPn(p) = PoolCap[p]
               /\ \A t \in Types : typeFree'[t] + nTn(t) = MaxPerType
  BY DEF PermitsBalanced, OfPool, OfType
<1> DEFINE Goal == /\ globalFree' + nGn = MaxGlobal
                   /\ \A p \in Pools : poolFree'[p] + nPn(p) = PoolCap[p]
                   /\ \A t \in Types : typeFree'[t] + nTn(t) = MaxPerType
<1>1. CASE Stays
  <2>1. \A members, steps : Holders(members, steps)' = Holders(members, steps)
    BY <1>1 DEF Stays, Holders
  <2> QED  BY <1>1, <2>1 DEF Stays, permits, PermitsBalanced
<1>2. ASSUME NEW c \in Calls, UNCHANGED permits, NEW s,
             run' = [run EXCEPT ![c] = s],
             \A steps \in {HasGlobal, HasPool, HasType} : run[c] \in steps <=> s \in steps
      PROVE  Goal
  <2>1. PermitsBalanced'
    BY <1>2, PermitsKept
  <2> QED  BY <2>1 DEF PermitsBalanced, OfPool, OfType
<1>3. ASSUME NEW c \in Calls, MovesOutside(c) PROVE Goal
  <2>1. PICK s \in {"none", "queued", "dropping", "locking", "done"} :
          run' = [run EXCEPT ![c] = s]
    BY <1>3 DEF MovesOutside
  <2> QED  BY <1>2, <1>3, <2>1 DEF MovesOutside, HasGlobal, HasPool, HasType
<1>4. ASSUME NEW c \in Calls, TakeLock(c) PROVE Goal
  BY <1>2, <1>4 DEF TakeLock, Set, HasGlobal, HasPool, HasType
<1>5. ASSUME NEW c \in Calls, MarkRunning(c) PROVE Goal
  BY <1>2, <1>5 DEF MarkRunning, sched, Set, HasGlobal, HasPool, HasType
<1>6. ASSUME NEW c \in Calls, Record(c) PROVE Goal
  BY <1>2, <1>6 DEF Record, Leave, Set, HasGlobal, HasPool, HasType
<1>7. ASSUME NEW c \in Calls, TakeGlobal(c) PROVE Goal
  <2>1. run' = [run EXCEPT ![c] = "guild"] /\ run[c] = "global"
    BY <1>7 DEF TakeGlobal, Set
  <2>2. nG \in Nat /\ nGn = nG + 1
    BY <2>1, HoldersMove DEF HasGlobal
  <2>3. \A p \in Pools : nPn(p) = nP(p)
    <3>1. run[c] \notin HasPool /\ "guild" \notin HasPool
      BY <2>1 DEF HasPool
    <3> QED  BY <1>0, <2>1, <3>1, HoldersMove
  <2>4. \A t \in Types : nTn(t) = nT(t)
    <3>1. run[c] \notin HasType /\ "guild" \notin HasType
      BY <2>1 DEF HasType
    <3> QED  BY <1>0, <2>1, <3>1, HoldersMove
  <2>5. globalFree' = globalFree - 1 /\ poolFree' = poolFree /\ typeFree' = typeFree
    BY <1>7 DEF TakeGlobal
  <2> QED  BY <2>2, <2>3, <2>4, <2>5 DEF PermitsBalanced, TypeOK
<1>8. ASSUME NEW c \in Calls, TakePool(c) PROVE Goal
  <2>1. run' = [run EXCEPT ![c] = "type"] /\ run[c] = "guild"
    BY <1>8 DEF TakePool, Set
  <2>2. nGn = nG
    BY <2>1, HoldersMove DEF HasGlobal
  <2>3. ASSUME NEW p \in Pools PROVE poolFree'[p] + nPn(p) = PoolCap[p]
    <3>1. CASE p = PoolOf[c]
      <4>1. nP(p) \in Nat /\ nPn(p) = nP(p) + 1
        BY <1>0, <2>1, <3>1, HoldersMove DEF HasPool
      <4>2. poolFree'[p] = poolFree[p] - 1
        BY <1>8, <3>1 DEF TakePool, TypeOK
      <4> QED  BY <4>1, <4>2 DEF PermitsBalanced, TypeOK
    <3>2. CASE p # PoolOf[c]
      <4>1. nPn(p) = nP(p)
        BY <1>0, <2>1, <3>2, HoldersMove
      <4>2. poolFree'[p] = poolFree[p]
        BY <1>8, <3>2 DEF TakePool, TypeOK
      <4> QED  BY <4>1, <4>2 DEF PermitsBalanced
    <3> QED  BY <3>1, <3>2
  <2>4. \A t \in Types : nTn(t) = nT(t)
    <3>1. run[c] \notin HasType /\ "type" \notin HasType
      BY <2>1 DEF HasType
    <3> QED  BY <1>0, <2>1, <3>1, HoldersMove
  <2>5. globalFree' = globalFree /\ typeFree' = typeFree
    BY <1>8 DEF TakePool
  <2> QED  BY <2>2, <2>3, <2>4, <2>5 DEF PermitsBalanced
<1>9. ASSUME NEW c \in Calls, Begin(c) PROVE Goal
  <2>1. /\ run[c] = "type"
        /\ \E s \in {"marking", "executing"} : run' = [run EXCEPT ![c] = s]
    BY <1>9 DEF Begin, Set
  <2>2. nGn = nG
    BY <2>1, HoldersMove DEF HasGlobal
  <2>3. \A p \in Pools : nPn(p) = nP(p)
    BY <1>0, <2>1, HoldersMove DEF HasPool
  <2>4. ASSUME NEW t \in Types PROVE typeFree'[t] + nTn(t) = MaxPerType
    <3>1. CASE t = TypeOf[c]
      <4>1. nT(t) \in Nat /\ nTn(t) = nT(t) + 1
        <5>1. PICK s \in {"marking", "executing"} : run' = [run EXCEPT ![c] = s]
          BY <2>1
        <5>2. run[c] \notin HasType /\ s \in HasType
          BY <2>1 DEF HasType
        <5> QED  BY <1>0, <3>1, <5>1, <5>2, HoldersMove
      <4>2. typeFree'[t] = typeFree[t] - 1
        BY <1>9, <3>1 DEF Begin, TypeOK
      <4> QED  BY <4>1, <4>2 DEF PermitsBalanced, TypeOK
    <3>2. CASE t # TypeOf[c]
      <4>1. nTn(t) = nT(t)
        BY <1>0, <2>1, <3>2, HoldersMove
      <4>2. typeFree'[t] = typeFree[t]
        BY <1>9, <3>2 DEF Begin, TypeOK
      <4> QED  BY <4>1, <4>2 DEF PermitsBalanced
    <3> QED  BY <3>1, <3>2
  <2>5. globalFree' = globalFree /\ poolFree' = poolFree
    BY <1>9 DEF Begin
  <2> QED  BY <2>2, <2>3, <2>4, <2>5 DEF PermitsBalanced
<1>10. ASSUME NEW c \in Calls, Drop(c) \/ End(c) PROVE Goal
  <2>1. PICK s \in {"recording", "done"} : run' = [run EXCEPT ![c] = s]
    BY <1>10, RecordMoves DEF Drop, End
  <2>2. run[c] = (IF Drop(c) THEN "type" ELSE "executing")
    BY <1>10 DEF Drop, End
  <2>3. globalFree' + nGn = MaxGlobal
    <3>1. nG \in Nat /\ nGn = nG - 1
      BY <2>1, <2>2, HoldersMove DEF HasGlobal
    <3> QED  BY <1>10, <3>1 DEF Drop, End, PermitsBalanced, TypeOK
  <2>4. ASSUME NEW p \in Pools PROVE poolFree'[p] + nPn(p) = PoolCap[p]
    <3>1. CASE p = PoolOf[c]
      <4>1. nP(p) \in Nat /\ nPn(p) = nP(p) - 1
        BY <1>0, <2>1, <2>2, <3>1, HoldersMove DEF HasPool
      <4>2. poolFree'[p] = poolFree[p] + 1
        BY <1>10, <3>1 DEF Drop, End, TypeOK
      <4> QED  BY <4>1, <4>2 DEF PermitsBalanced, TypeOK
    <3>2. CASE p # PoolOf[c]
      <4>1. nPn(p) = nP(p)
        BY <1>0, <2>1, <3>2, HoldersMove
      <4>2. poolFree'[p] = poolFree[p]
        BY <1>10, <3>2 DEF Drop, End, TypeOK
      <4> QED  BY <4>1, <4>2 DEF PermitsBalanced
    <3> QED  BY <3>1, <3>2
  <2>5. ASSUME NEW t \in Types PROVE typeFree'[t] + nTn(t) = MaxPerType
    <3>1. CASE Drop(c) /\ run[c] = "type"
      <4>1. nTn(t) = nT(t)
        BY <1>0, <2>1, <3>1, HoldersMove DEF HasType
      <4> QED  BY <3>1, <4>1 DEF Drop, PermitsBalanced
    <3>2. CASE End(c) /\ t = TypeOf[c]
      <4>1. nT(t) \in Nat /\ nTn(t) = nT(t) - 1
        BY <1>0, <2>1, <3>2, HoldersMove DEF HasType, End
      <4>2. typeFree'[t] = typeFree[t] + 1
        BY <3>2 DEF End, TypeOK
      <4> QED  BY <4>1, <4>2 DEF PermitsBalanced, TypeOK
    <3>3. CASE End(c) /\ t # TypeOf[c]
      <4>1. nTn(t) = nT(t)
        BY <1>0, <2>1, <3>3, HoldersMove
      <4>2. typeFree'[t] = typeFree[t]
        BY <3>3 DEF End, TypeOK
      <4> QED  BY <4>1, <4>2 DEF PermitsBalanced
    <3> QED  BY <1>10, <2>2, <3>1, <3>2, <3>3
  <2> QED  BY <2>3, <2>4, <2>5
<1>11. CASE Crash
  <2>1. \A c \in Calls : run'[c] \notin HasGlobal \cup HasPool \cup HasType
    BY <1>11 DEF Crash, JobUnderWay, Waits, HasGlobal, HasPool, HasType
  <2>2. Cardinality({}) = 0
    BY FS_EmptySet
  <2>3. nGn = 0
    <3>1. Holders(Calls, HasGlobal)' = {}
      BY <2>1 DEF Holders
    <3> QED  BY <2>2, <3>1
  <2>4. \A p \in Pools : nPn(p) = 0
    <3>1. \A p \in Pools : Holders(OfPool(p), HasPool)' = {}
      BY <2>1 DEF Holders, OfPool
    <3> QED  BY <2>2, <3>1
  <2>5. \A t \in Types : nTn(t) = 0
    <3>1. \A t \in Types : Holders(OfType(t), HasType)' = {}
      BY <2>1 DEF Holders, OfType
    <3> QED  BY <2>2, <3>1
  <2> QED  BY <1>11, <2>3, <2>4, <2>5 DEF Crash
<1> QED
  BY <1>1, <1>3, <1>4, <1>5, <1>6, <1>7, <1>8, <1>9, <1>10, <1>11, StepKinds
     DEF MovesInside

(* The invariant of the execution: types, the order of a call and its job,
   the lane's lock, the permits. *)
RunInv ==
    /\ TypeOK /\ UpsertHasImage
    /\ CallPrecedesRun
    /\ LockHeld
    /\ PermitsBalanced

LEMMA RunInvAlways == Spec => []RunInv
<1>1. Init => RunInv
  BY TypeInit, PermitsInit DEF Init, RunInv, CallPrecedesRun, LockHeld, Holding
<1>2. RunInv /\ [Next]_vars => RunInv'
  BY TypeStep, CallPrecedesRunStep, LockStep, PermitsStep DEF RunInv
<1> QED  BY <1>1, <1>2, PTL DEF Spec

(* Every permit of the bot, of a guild and of an operation type is free or held
   by a job that waits for its next permit or executes, whatever path jobs leave
   by (_run_job_now, and the semaphores a new process starts with). *)
THEOREM PermitsAlwaysBalanced == Spec => []PermitsBalanced
  BY RunInvAlways, PTL DEF RunInv

----------------------------------------------------------------------------
(* Idempotency keys, while no call of the database has failed. *)

(* A failed call is not forgotten. *)
LEMMA FaultsStay ==
    ASSUME TypeOK, [Next]_vars
    PROVE  faults' \in Nat /\ (Degraded => Degraded')
<1> DEFINE Goal == faults' = faults \/ faults' = faults + 1
<1> USE DEF storage, Put, ReadFails
<1>1. ASSUME NEW c \in Calls, Start(c) \/ Decide(c) \/ Store(c) PROVE Goal
  BY <1>1 DEF Start, CallBegins, CallReconciled, Fetch, Decide, DuplicateOfRow,
     DuplicateInMemory, Refuse, Admit, Store, BuildRow, StoreRow
<1>2. ASSUME NEW c \in Calls, Execute(c) PROVE Goal
  BY <1>2 DEF Execute, WorkerTakes, RecordDropped, TakeLock, TakeGlobal, TakePool, Drop,
     Begin, MarkRunning, End, Record
<1>3. ASSUME NEW c \in Calls, Cancel(c) \/ CancelLands(c) \/ Reattach(c) PROVE Goal
  BY <1>3 DEF Cancel, CancelLands, Reattach
<1>4. ASSUME (\E l \in Lanes : WorkerRetires(l))
             \/ (\E k \in Keys : DedupeExpires(k) \/ LeaseLapses(k))
             \/ StoreRetried \/ Crash \/ UNCHANGED vars
      PROVE  Goal
  BY <1>4 DEF WorkerRetires, DedupeExpires, LeaseLapses, StoreRetried, Crash, vars
<1>5. ASSUME ReconcileStart \/ Reconcile PROVE Goal
  BY <1>5 DEF ReconcileStart, Reconcile, ReconcileRead, ReconcileEnd, ReconcileWrite
<1>6. Goal
  BY <1>1, <1>2, <1>3, <1>4, <1>5 DEF Next
<1> QED  BY <1>6, OperationAssumptions DEF TypeOK, Degraded

(* A job under way has its row stored, or its key in memory; a call that found no
   row of its key finds the key in memory if a job of that key is under way. *)
KeysRemembered ==
    /\ store = "up" /\ faults = 0
    /\ \A c \in Calls :
          IF call[c] \in {"storing", "upserting"} THEN Remembered(KeyOf[c])
          ELSE JobUnderWay(c) => db[KeyOf[c]] # None
    /\ \A c, d \in Calls :
          (call[c] = "fetched" /\ seen[c] = None /\ KeyOf[d] = KeyOf[c] /\ JobUnderWay(d))
             => Remembered(KeyOf[c])

(* Rows are never deleted, and without faults every write lands. *)
LEMMA PutKeeps ==
    ASSUME faults = 0, faults' = 0, NEW after, Put(after)
    PROVE  db' = after /\ UNCHANGED <<store, faults>>
  BY DEF Put

LEMMA RowsKept ==
    ASSUME TypeOK, NEW c \in Calls, NEW image \in Images
    PROVE  /\ \A k \in Keys : db[k] # None => Upserted(c, image)[k] # None /\ Updated(c, image)[k] # None
           /\ Upserted(c, image)[KeyOf[c]] # None
<1>1. Row(c, image) \in Rows
  BY RowTypes DEF TypeOK
<1>2. Row(c, image) # None
  BY <1>1, OperationAssumptions
<1> QED  BY <1>2, OperationAssumptions DEF Upserted, Updated, Set, TypeOK

(* Steps that leave calls and the in-memory keys alone, and remove no row. *)
LEMMA KeysStay ==
    ASSUME TypeOK, KeysRemembered, UNCHANGED <<call, seen, store, faults>>,
           \A k \in Keys : Remembered(k) => Remembered(k)',
           \A k \in Keys : db[k] # None => db'[k] # None,
           \A d \in Calls : JobUnderWay(d)' => JobUnderWay(d)
    PROVE  KeysRemembered'
  BY OperationAssumptions DEF KeysRemembered

LEMMA KeysStep ==
    ASSUME TypeOK, TypeOK', UpsertHasImage, CallPrecedesRun, KeysRemembered,
           [Next]_vars, ~ Degraded'
    PROVE  KeysRemembered'
<1> DEFINE Goal == KeysRemembered'
<1> USE OperationAssumptions
<1> USE DEF callers, jobs, marks, memory, sched, storage, writes, starting, others,
            Set, Answered
<1>a. store = "up" /\ faults = 0 /\ faults' = 0 /\ faults' # faults + 1
  BY FaultsStay DEF KeysRemembered, Degraded
<1>1. ASSUME NEW c \in Calls, CallBegins(c) \/ CallReconciled(c) PROVE Goal
  <2>1. /\ call[c] \in {"new", "reconciling"}
        /\ \E v \in {"reconciling", "fetching"} : call' = [call EXCEPT ![c] = v]
        /\ UNCHANGED <<seen, run, tracked, dedupe, db, store, faults>>
    BY <1>1, <1>a DEF CallBegins, CallReconciled
  <2>2. \A d \in Calls : JobUnderWay(d)' <=> JobUnderWay(d)
    BY <2>1 DEF JobUnderWay, Waits, TypeOK
  <2>3. \A k \in Keys : Remembered(k)' <=> Remembered(k)
    BY <2>1 DEF Remembered
  <2> QED  BY <2>1, <2>2, <2>3 DEF KeysRemembered, TypeOK
<1>2. ASSUME NEW c \in Calls, Fetch(c) PROVE Goal
  <2>1. /\ call' = [call EXCEPT ![c] = "fetched"]
        /\ seen' = [seen EXCEPT ![c] = db[KeyOf[c]]]
        /\ UNCHANGED <<run, tracked, dedupe, db, store, faults>>
    BY <1>2, <1>a DEF Fetch, ReadFails
  <2>2. \A d \in Calls : JobUnderWay(d)' <=> JobUnderWay(d)
    BY <1>2, <2>1 DEF Fetch, JobUnderWay, Waits, TypeOK
  <2>3. \A k \in Keys : Remembered(k)' <=> Remembered(k)
    BY <2>1 DEF Remembered
  <2> QED  BY <1>2, <2>1, <2>2, <2>3 DEF Fetch, KeysRemembered, TypeOK
<1>3. ASSUME NEW c \in Calls, DuplicateOfRow(c) PROVE Goal
  <2>1. seen[c] \in Rows /\ Image(seen[c]) # None /\ seen[c].id # None
    <3>1. seen[c] \in Rows
      BY <1>3 DEF DuplicateOfRow, TypeOK
    <3>2. Image(seen[c]) \in Images /\ seen[c].id \in Calls
      BY <3>1, RowTypes DEF TypeOK, Rows
    <3> QED  BY <3>1, <3>2
  <2>2. \A k \in Keys : Remembered(k) => Remembered(k)'
    BY <1>3, <2>1 DEF DuplicateOfRow, Remembered, TypeOK, Rows
  <2>3. \A d \in Calls : JobUnderWay(d)' <=> JobUnderWay(d)
    BY <1>3 DEF DuplicateOfRow, JobUnderWay, Waits, TypeOK
  <2> QED  BY <1>3, <2>2, <2>3 DEF DuplicateOfRow, KeysRemembered, TypeOK
<1>4. ASSUME NEW c \in Calls, DuplicateInMemory(c) \/ Refuse(c) PROVE Goal
  <2>1. /\ call' = [call EXCEPT ![c] = "answered"] /\ call[c] = "fetched"
        /\ UNCHANGED <<seen, run, tracked, dedupe, db, store, faults>>
    BY <1>4 DEF DuplicateInMemory, Refuse
  <2>2. \A d \in Calls : JobUnderWay(d)' <=> JobUnderWay(d)
    BY <2>1 DEF JobUnderWay, Waits, TypeOK
  <2>3. \A k \in Keys : Remembered(k)' <=> Remembered(k)
    BY <2>1 DEF Remembered
  <2> QED  BY <2>1, <2>2, <2>3 DEF KeysRemembered, TypeOK
<1>5. ASSUME NEW c \in Calls, Admit(c) PROVE Goal
  <2>1. /\ call' = [call EXCEPT ![c] = "storing"]
        /\ tracked' = [tracked EXCEPT ![c] = Live]
        /\ dedupe' = [dedupe EXCEPT ![KeyOf[c]] = c]
        /\ UNCHANGED <<seen, db, store, faults>>
    BY <1>5, <1>a DEF Admit
  <2>2. \A d \in Calls \ {c} : JobUnderWay(d)' <=> JobUnderWay(d)
    BY <1>5, <2>1 DEF Admit, JobUnderWay, Waits, TypeOK
  <2>3. \A k \in Keys : (Remembered(k) \/ k = KeyOf[c]) => Remembered(k)'
    BY <2>1 DEF Remembered, TypeOK
  <2> QED  BY <2>1, <2>2, <2>3 DEF KeysRemembered, TypeOK
<1>6. ASSUME NEW c \in Calls, BuildRow(c) PROVE Goal
  <2>1. /\ call[c] = "storing" /\ call' = [call EXCEPT ![c] = "upserting"]
        /\ UNCHANGED <<seen, run, tracked, dedupe, db, store, faults>>
    BY <1>6 DEF BuildRow
  <2>2. \A d \in Calls : JobUnderWay(d)' <=> JobUnderWay(d)
    BY <2>1 DEF JobUnderWay, Waits, TypeOK
  <2>3. \A k \in Keys : Remembered(k)' <=> Remembered(k)
    BY <2>1 DEF Remembered
  <2> QED  BY <2>1, <2>2, <2>3 DEF KeysRemembered, TypeOK
<1>7. ASSUME NEW c \in Calls, StoreRow(c) PROVE Goal
  <2>1. pending[c] \in Images
    BY <1>7 DEF StoreRow, UpsertHasImage
  <2>2. db' = Upserted(c, pending[c]) /\ UNCHANGED <<store, faults>>
    BY <1>7, <1>a, PutKeeps DEF StoreRow
  <2>3. \A k \in Keys : (db[k] # None \/ k = KeyOf[c]) => db'[k] # None
    BY <2>1, <2>2, RowsKept
  <2>4. \A d \in Calls : JobUnderWay(d)' => JobUnderWay(d)
    BY <1>7 DEF StoreRow, CallPrecedesRun, JobUnderWay, Waits, TypeOK
  <2>5. \A k \in Keys : Remembered(k)' <=> Remembered(k)
    BY <1>7 DEF StoreRow, Remembered
  <2> QED  BY <1>7, <2>2, <2>3, <2>4, <2>5 DEF StoreRow, KeysRemembered, TypeOK
<1>8. ASSUME NEW c \in Calls, WorkerTakes(c) \/ TakeLock(c) \/ TakeGlobal(c) \/ TakePool(c)
      PROVE  Goal
  BY <1>8, KeysStay DEF WorkerTakes, TakeLock, TakeGlobal, TakePool, Remembered,
     JobUnderWay, Waits, TypeOK
<1>9. ASSUME NEW c \in Calls, Begin(c) PROVE Goal
  BY <1>9, KeysStay DEF Begin, Remembered, JobUnderWay, Waits, TypeOK
<1>10. ASSUME NEW c \in Calls, Drop(c) \/ End(c) PROVE Goal
  <2>1. PICK s \in {"recording", "done"} : run' = [run EXCEPT ![c] = s]
    BY <1>10, RecordMoves DEF Drop, End
  <2>2. UNCHANGED <<call, seen, store, db, faults, tracked, dedupe>>
    BY <1>10 DEF Drop, End
  <2>3. \A d \in Calls : JobUnderWay(d)' => JobUnderWay(d)
    BY <2>1, <2>2 DEF JobUnderWay, Waits, TypeOK
  <2> QED  BY <2>2, <2>3, KeysStay DEF Remembered
<1>11. ASSUME NEW c \in Calls, RecordDropped(c) \/ MarkRunning(c) \/ Record(c) PROVE Goal
  <2>1. PICK image \in Images : Put(Updated(c, image))
    <3>1. Snapshot(status[c]) \in Images /\ Snapshot("running") \in Images
      BY RowTypes DEF TypeOK, Statuses
    <3> QED  BY <1>11, <3>1 DEF RecordDropped, MarkRunning, Record
  <2>2. db' = Updated(c, image) /\ UNCHANGED <<store, faults>>
    BY <1>a, <2>1, PutKeeps
  <2>3. \A k \in Keys : db[k] # None => db'[k] # None
    BY <2>2, RowsKept
  <2>4. \A d \in Calls : JobUnderWay(d)' => JobUnderWay(d)
    BY <1>11 DEF RecordDropped, MarkRunning, Record, Leave, JobUnderWay, Waits, TypeOK
  <2>5. UNCHANGED <<call, seen, tracked, dedupe>>
    BY <1>11 DEF RecordDropped, MarkRunning, Record
  <2> QED  BY <2>2, <2>3, <2>4, <2>5, KeysStay DEF Remembered
<1>12. ASSUME NEW c \in Calls, CancelLands(c) PROVE Goal
  <2>1. cancelling[c] \in Images /\ Put(Updated(c, cancelling[c]))
    BY <1>12 DEF CancelLands, TypeOK
  <2>2. db' = Updated(c, cancelling[c]) /\ UNCHANGED <<store, faults>>
    BY <1>a, <2>1, PutKeeps
  <2>3. \A k \in Keys : db[k] # None => db'[k] # None
    BY <2>1, <2>2, RowsKept
  <2> QED  BY <1>12, <2>2, <2>3, KeysStay DEF CancelLands, Remembered, JobUnderWay, Waits
<1>13. ASSUME NEW c \in Calls, Cancel(c) PROVE Goal
  <2>1. \A d \in Calls : tracked[d] # None => tracked'[d] # None
    <3>1. CASE CancelCopy(c)
      <4>1. tracked[c] \in Images
        BY <3>1 DEF CancelCopy, TypeOK
      <4>2. [tracked[c] EXCEPT !.status = "cancelled"] \in Images
        BY <4>1 DEF Images, Statuses
      <4>3. None \notin Images /\ tracked \in [Calls -> Images \cup {None, Live}]
        BY OperationAssumptions DEF OperationAssumptions, TypeOK
      <4>4. PICK image \in Images : tracked' = [tracked EXCEPT ![c] = image]
        BY <3>1, <4>1, <4>2 DEF CancelCopy, Set
      <4> QED  BY <4>3, <4>4
    <3> QED  BY <1>13, <3>1 DEF Cancel, CancelQueued, CancelRunning
  <2>2. UNCHANGED <<call, seen, store, db, faults, dedupe, run>>
    BY <1>13 DEF Cancel
  <2>3. \A k \in Keys : Remembered(k) => Remembered(k)'
    BY <2>1, <2>2 DEF Remembered, TypeOK
  <2> QED  BY <2>2, <2>3, KeysStay DEF JobUnderWay, Waits
<1>14. ASSUME NEW c \in Calls, Reattach(c) PROVE Goal
  <2>1. \A d \in Calls : tracked[d] # None => tracked'[d] # None
    BY <1>14 DEF Reattach, TypeOK
  <2>2. UNCHANGED <<call, seen, store, db, faults, dedupe, run>>
    <3>1. UNCHANGED storage
      BY <1>14, <1>a DEF Reattach, ReadFails
    <3> QED  BY <1>14, <3>1 DEF Reattach, storage
  <2>3. \A k \in Keys : Remembered(k) => Remembered(k)'
    BY <2>1, <2>2 DEF Remembered, TypeOK
  <2> QED  BY <2>2, <2>3, KeysStay DEF JobUnderWay, Waits
<1>15. CASE ReconcileEnd
  <2>1. \A d \in Calls : tracked[d] # None => tracked'[d] # None
    <3>1. Snapshot("expired") # None
      BY RowTypes DEF TypeOK, Statuses
    <3> QED  BY <1>15, <3>1 DEF ReconcileEnd
  <2>2. UNCHANGED <<call, seen, store, db, faults, dedupe, run>>
    BY <1>15 DEF ReconcileEnd
  <2>3. \A k \in Keys : Remembered(k) => Remembered(k)'
    BY <2>1, <2>2 DEF Remembered, TypeOK
  <2> QED  BY <2>2, <2>3, KeysStay DEF JobUnderWay, Waits
<1>16. CASE ReconcileStart \/ ReconcileRead \/ UNCHANGED vars
  BY <1>16, <1>a, KeysStay DEF ReconcileStart, ReconcileRead, ReadFails, vars, Remembered,
     JobUnderWay, Waits
<1>17. ASSUME NEW c \in Calls, ReconcileWrite(c) PROVE Goal
  <2>1. db' = Updated(c, Snapshot("expired")) /\ UNCHANGED <<store, faults>>
    BY <1>17, <1>a DEF ReconcileWrite
  <2>2. Snapshot("expired") \in Images
    BY RowTypes DEF TypeOK, Statuses
  <2>3. \A k \in Keys : db[k] # None => db'[k] # None
    BY <2>1, <2>2, RowsKept
  <2> QED  BY <1>17, <2>1, <2>3, KeysStay DEF ReconcileWrite, Remembered, JobUnderWay, Waits
<1>18. ASSUME NEW l \in Lanes, WorkerRetires(l) PROVE Goal
  BY <1>18, KeysStay DEF WorkerRetires, Remembered, JobUnderWay, Waits
<1>19. ASSUME NEW k \in Keys, LeaseLapses(k) PROVE Goal
  <2>1. \A q \in Keys : db[q] # None => db'[q] # None
    <3>1. [db[k] EXCEPT !.lease = "past"] \in Rows
      <4>1. db[k] \in Rows
        BY <1>19 DEF LeaseLapses, TypeOK
      <4> QED  BY <4>1 DEF Rows, Leases
    <3> QED  BY <1>19, <3>1 DEF LeaseLapses, TypeOK
  <2> QED  BY <1>19, <2>1, KeysStay DEF LeaseLapses, Remembered, JobUnderWay, Waits
<1>20. ASSUME NEW k \in Keys, DedupeExpires(k) PROVE Goal
  <2>1. \A q \in Keys \ {k} : Remembered(q)' <=> Remembered(q)
    BY <1>20 DEF DedupeExpires, Remembered, TypeOK
  <2>2. \A d \in Calls : JobUnderWay(d)' <=> JobUnderWay(d)
    BY <1>20 DEF DedupeExpires, JobUnderWay, Waits
  <2> QED  BY <1>20, <2>1, <2>2 DEF DedupeExpires, KeysRemembered
<1>21. CASE StoreRetried
  BY <1>21, <1>a DEF StoreRetried
<1>22. CASE Crash
  <2>1. \A d \in Calls : ~ JobUnderWay(d)' /\ call'[d] \in {"new", "lost"}
    BY <1>22 DEF Crash, JobUnderWay, Waits
  <2> QED  BY <1>22, <1>a, <2>1 DEF Crash, KeysRemembered
<1> QED
  BY <1>1, <1>2, <1>3, <1>4, <1>5, <1>6, <1>7, <1>8, <1>9, <1>10, <1>11, <1>12, <1>13,
     <1>14, <1>15, <1>16, <1>17, <1>18, <1>19, <1>20, <1>21, <1>22
     DEF Next, Start, Decide, Store, Execute, Reconcile

----------------------------------------------------------------------------
(* The abstract promise *)

LEMMA PhaseIsJob ==
    ASSUME TypeOK, NEW c \in Calls
    PROVE  /\ Promise!UnderWay(c) <=> JobUnderWay(c)
           /\ c \in Promise!Executing <=> run[c] \in {"marking", "executing"}
  BY DEF Promise!UnderWay, Promise!Executing, Phase, PhaseOf, JobUnderWay, Waits

(* Capacity: a job that is about to take its last permit finds room. *)
LEMMA RoomToBegin ==
    ASSUME RunInv, NEW c \in Calls, Begin(c)
    PROVE  /\ \A d \in Promise!Executing : LaneOf[d] # LaneOf[c]
           /\ Cardinality(Promise!Executing) < MaxGlobal
           /\ Cardinality({d \in Promise!Executing : PoolOf[d] = PoolOf[c]}) < PoolCap[PoolOf[c]]
           /\ Cardinality({d \in Promise!Executing : TypeOf[d] = TypeOf[c]}) < MaxPerType
<1> USE OperationAssumptions
<1> DEFINE E == Promise!Executing
<1>1. /\ E \subseteq Calls /\ c \notin E
      /\ \A d \in E : run[d] \in {"marking", "executing"}
  BY PhaseIsJob DEF RunInv, Begin, Promise!Executing
<1>2. run[c] = "type" /\ typeFree[TypeOf[c]] > 0
  BY DEF Begin
<1>3. ASSUME NEW S, NEW T \in SUBSET Calls, S \subseteq T \ {c}, c \in T
      PROVE  Cardinality(S) < Cardinality(T) /\ Cardinality(T) \in Nat
  <2>1. IsFiniteSet(T) /\ IsFiniteSet(T \ {c})
    BY FS_Subset
  <2>2. Cardinality(T \ {c}) = Cardinality(T) - 1 /\ Cardinality(T) \in Nat
    BY <1>3, <2>1, FS_RemoveElement, FS_CardinalityType
  <2>3. Cardinality(S) <= Cardinality(T \ {c}) /\ Cardinality(S) \in Nat
    BY <1>3, <2>1, FS_Subset, FS_CardinalityType
  <2> QED  BY <2>2, <2>3
<1>4. \A d \in E : LaneOf[d] # LaneOf[c]
  BY <1>1, <1>2 DEF RunInv, LockHeld, Holding
<1>5. Cardinality(E) < MaxGlobal
  <2>1. /\ E \subseteq Holders(Calls, HasGlobal) \ {c} /\ c \in Holders(Calls, HasGlobal)
        /\ Holders(Calls, HasGlobal) \in SUBSET Calls
    BY <1>1, <1>2 DEF Holders, HasGlobal
  <2>2. Cardinality(E) < Cardinality(Holders(Calls, HasGlobal))
        /\ Cardinality(Holders(Calls, HasGlobal)) \in Nat
    BY <1>3, <2>1
  <2>3. globalFree \in Nat /\ globalFree + Cardinality(Holders(Calls, HasGlobal)) = MaxGlobal
    BY DEF RunInv, TypeOK, PermitsBalanced
  <2>4. Cardinality(E) \in Nat
    BY <1>1, FS_Subset, FS_CardinalityType
  <2> QED  BY <2>2, <2>3, <2>4
<1>6. Cardinality({d \in E : PoolOf[d] = PoolOf[c]}) < PoolCap[PoolOf[c]]
  <2> DEFINE S == {d \in E : PoolOf[d] = PoolOf[c]}
  <2> DEFINE T == Holders(OfPool(PoolOf[c]), HasPool)
  <2>1. S \subseteq T \ {c} /\ c \in T /\ T \in SUBSET Calls
    BY <1>1, <1>2 DEF Holders, HasPool, OfPool
  <2>2. Cardinality(S) < Cardinality(T) /\ Cardinality(T) \in Nat
    BY <1>3, <2>1
  <2>3. poolFree[PoolOf[c]] \in Nat /\ poolFree[PoolOf[c]] + Cardinality(T) = PoolCap[PoolOf[c]]
    BY DEF RunInv, TypeOK, PermitsBalanced
  <2>4. Cardinality(S) \in Nat
    BY <1>1, FS_Subset, FS_CardinalityType
  <2> HIDE DEF S, T
  <2> QED  BY <2>2, <2>3, <2>4 DEF S
<1>7. Cardinality({d \in E : TypeOf[d] = TypeOf[c]}) < MaxPerType
  <2> DEFINE S == {d \in E : TypeOf[d] = TypeOf[c]}
  <2> DEFINE T == Holders(OfType(TypeOf[c]), HasType)
  <2>1. S \subseteq T /\ T \in SUBSET Calls
    BY <1>1 DEF Holders, HasType, OfType
  <2>2. IsFiniteSet(T)
    BY <2>1, FS_Subset
  <2>3. Cardinality(S) <= Cardinality(T) /\ Cardinality(T) \in Nat /\ Cardinality(S) \in Nat
    BY <2>1, <2>2, FS_Subset, FS_CardinalityType
  <2>4. typeFree[TypeOf[c]] \in Nat /\ typeFree[TypeOf[c]] + Cardinality(T) = MaxPerType
    BY DEF RunInv, TypeOK, PermitsBalanced
  <2> HIDE DEF S, T
  <2> QED  BY <1>2, <2>3, <2>4 DEF S
<1> QED  BY <1>4, <1>5, <1>6, <1>7

LEMMA PromiseStep ==
    ASSUME RunInv, ~ Degraded => KeysRemembered, [Next]_vars
    PROVE  Promise!Next
<1> DEFINE Goal == [Promise!Step]_Phase
<1> USE DEF callers, jobs, marks, Set, Answered
<1>0. TypeOK /\ CallPrecedesRun
  BY DEF RunInv
<1>1. ASSUME NEW c \in Calls, Start(c) PROVE Goal
  <2>1. \A d \in Calls : Waits(d)' <=> Waits(d)
    BY <1>0, <1>1 DEF Start, CallBegins, CallReconciled, Fetch, Waits, TypeOK
  <2>2. run' = run
    BY <1>1 DEF Start, CallBegins, CallReconciled, Fetch
  <2> QED  BY <2>1, <2>2 DEF Phase, PhaseOf
<1>2. ASSUME NEW c \in Calls, DuplicateOfRow(c) \/ DuplicateInMemory(c) \/ Refuse(c) PROVE Goal
  <2>1. /\ call[c] = "fetched" /\ call' = [call EXCEPT ![c] = "answered"]
        /\ run' = run
    BY <1>2 DEF DuplicateOfRow, DuplicateInMemory, Refuse
  <2>2. \A d \in Calls : Waits(d)' <=> Waits(d)
    BY <1>0, <2>1 DEF Waits, TypeOK
  <2> QED  BY <2>1, <2>2 DEF Phase, PhaseOf
<1>3. ASSUME NEW c \in Calls, Admit(c) PROVE Goal
  <2>1. run[c] = "none" /\ call[c] = "fetched"
    BY <1>0, <1>3 DEF Admit, CallPrecedesRun
  <2>2. Phase[c] = "none"
    BY <2>1 DEF Phase, PhaseOf, Waits
  <2>3. Degraded \/ \A d \in Calls : KeyOf[d] = KeyOf[c] => ~ JobUnderWay(d)
    BY <1>3 DEF Admit, KeysRemembered
  <2>5. Waits(c)'
    BY <1>0, <1>3 DEF Admit, Waits, TypeOK
  <2>6. \A d \in Calls \ {c} : run'[d] = run[d] /\ (Waits(d)' <=> Waits(d))
    BY <1>0, <1>3 DEF Admit, Waits, TypeOK
  <2>7. Phase' = [Phase EXCEPT ![c] = "waiting"]
    <3>1. PhaseOf(c)' = "waiting"
      BY <2>5 DEF PhaseOf, Waits
    <3>2. \A d \in Calls \ {c} : PhaseOf(d)' = PhaseOf(d)
      <4> TAKE d \in Calls \ {c}
      <4> QED  BY <2>6 DEF PhaseOf
    <3> QED  BY <3>1, <3>2 DEF Phase
  <2>8. Promise!Admit(c)
    BY <1>0, <2>2, <2>3, <2>7, PhaseIsJob DEF Promise!Admit
  <2> QED  BY <2>8 DEF Promise!Step
<1>4. ASSUME NEW c \in Calls, Store(c) PROVE Goal
  <2>1. \A d \in Calls : Waits(d)' <=> Waits(d)
    BY <1>0, <1>4 DEF Store, BuildRow, StoreRow, CallPrecedesRun, Waits, TypeOK
  <2>2. \A d \in Calls : run'[d] = run[d] \/ Waits(d)'
    BY <1>0, <1>4 DEF Store, BuildRow, StoreRow, Waits, TypeOK
  <2>3. \A d \in Calls : PhaseOf(d)' = PhaseOf(d)
    <3> TAKE d \in Calls
    <3>1. CASE Waits(d)
      <4>1. PhaseOf(d) = "waiting"
        BY <3>1 DEF PhaseOf, Waits
      <4>2. PhaseOf(d)' = "waiting"
        BY <2>1, <3>1 DEF PhaseOf, Waits
      <4> QED  BY <4>1, <4>2
    <3>2. CASE ~ Waits(d)
      <4>1. run'[d] = run[d] /\ ~ Waits(d)'
        BY <2>1, <2>2, <3>2
      <4> QED  BY <3>2, <4>1 DEF PhaseOf
    <3> QED  BY <3>1, <3>2
  <2> QED  BY <2>3 DEF Phase
<1>5. ASSUME NEW c \in Calls, NEW s \in RunSteps, call' = call,
             run[c] # "none", s # "none", run' = [run EXCEPT ![c] = s]
      PROVE  LET P(r) == CASE r \in {"queued", "dropping", "locking", "global", "guild", "type"}
                                    -> "waiting"
                           [] r \in {"marking", "executing"} -> "executing"
                           [] r \in {"recording", "done"} -> "over"
                           [] OTHER -> "lost"
             IN  Phase[c] = P(run[c]) /\ Phase' = [Phase EXCEPT ![c] = P(s)]
  <2>1. \A d \in Calls \ {c} : run'[d] = run[d] /\ (Waits(d)' <=> Waits(d))
    BY <1>0, <1>5 DEF Waits, TypeOK
  <2>2. run'[c] = s /\ run[c] \in RunSteps
    BY <1>0, <1>5 DEF TypeOK
  <2> DEFINE P(r) == CASE r \in {"queued", "dropping", "locking", "global", "guild", "type"}
                                    -> "waiting"
                       [] r \in {"marking", "executing"} -> "executing"
                       [] r \in {"recording", "done"} -> "over"
                       [] OTHER -> "lost"
  <2>3. PhaseOf(c) = P(run[c])
    BY <1>5, <2>2 DEF PhaseOf, Waits, RunSteps
  <2>4. PhaseOf(c)' = P(s)
    BY <1>5, <2>2 DEF PhaseOf, Waits, RunSteps
  <2>5. \A d \in Calls \ {c} : PhaseOf(d)' = PhaseOf(d)
    <3> TAKE d \in Calls \ {c}
    <3> QED  BY <2>1 DEF PhaseOf
  <2>6. Phase[c] = P(run[c])
    BY <2>3 DEF Phase
  <2>7. Phase' = [Phase EXCEPT ![c] = P(s)]
    <3> HIDE DEF P
    <3> QED  BY <2>4, <2>5 DEF Phase
  <2> QED  BY <2>6, <2>7
<1>6. ASSUME NEW c \in Calls, WorkerTakes(c) PROVE Goal
  <2>1. PICK s \in {"dropping", "done", "locking"} : run' = [run EXCEPT ![c] = s]
    BY <1>6 DEF WorkerTakes
  <2>2. Phase[c] = "waiting"
        /\ Phase' = [Phase EXCEPT ![c] = IF s = "done" THEN "over" ELSE "waiting"]
    BY <1>5, <1>6, <2>1 DEF WorkerTakes, RunSteps
  <2>3. CASE s = "done"
    BY <2>2, <2>3 DEF Promise!Withdraw, Promise!Step
  <2>4. CASE s # "done"
    BY <2>2, <2>4 DEF Phase, PhaseOf
  <2> QED  BY <2>3, <2>4
<1>7. ASSUME NEW c \in Calls, RecordDropped(c) PROVE Goal
  <2>1. Phase[c] = "waiting" /\ Phase' = [Phase EXCEPT ![c] = "over"]
    BY <1>5, <1>7 DEF RecordDropped, RunSteps
  <2> QED  BY <2>1 DEF Promise!Withdraw, Promise!Step
<1>8. ASSUME NEW c \in Calls, TakeLock(c) \/ TakeGlobal(c) \/ TakePool(c) PROVE Goal
  <2>1. Phase[c] = "waiting" /\ Phase' = [Phase EXCEPT ![c] = "waiting"]
    BY <1>5, <1>8 DEF TakeLock, TakeGlobal, TakePool, RunSteps
  <2>2. Phase = [d \in Calls |-> Phase[d]]
    BY DEF Phase
  <2> QED  BY <2>1, <2>2
<1>9. ASSUME NEW c \in Calls, Drop(c) PROVE Goal
  <2>1. PICK s \in {"recording", "done"} : run' = [run EXCEPT ![c] = s]
    BY <1>9, RecordMoves DEF Drop
  <2>2. Phase[c] = "waiting" /\ Phase' = [Phase EXCEPT ![c] = "over"]
    BY <1>5, <1>9, <2>1 DEF Drop, RunSteps
  <2> QED  BY <2>2 DEF Promise!Withdraw, Promise!Step
<1>10. ASSUME NEW c \in Calls, Begin(c) PROVE Goal
  <2>1. PICK s \in {"marking", "executing"} : run' = [run EXCEPT ![c] = s]
    BY <1>10 DEF Begin
  <2>2. Phase[c] = "waiting" /\ Phase' = [Phase EXCEPT ![c] = "executing"]
    BY <1>5, <1>10, <2>1 DEF Begin, RunSteps
  <2>3. Promise!Begin(c)
    <3>1. /\ \A d \in Promise!Executing : LaneOf[d] # LaneOf[c]
          /\ Cardinality(Promise!Executing) < MaxGlobal
          /\ Cardinality({d \in Promise!Executing : PoolOf[d] = PoolOf[c]}) < PoolCap[PoolOf[c]]
          /\ Cardinality({d \in Promise!Executing : TypeOf[d] = TypeOf[c]}) < MaxPerType
      BY <1>10, RoomToBegin
    <3>2. \A S : Promise!Cardinality(S) = Cardinality(S)
      BY DEF Promise!Cardinality, Cardinality
    <3> QED  BY <2>2, <3>1, <3>2 DEF Promise!Begin
  <2> QED  BY <2>3 DEF Promise!Step
<1>11. ASSUME NEW c \in Calls, MarkRunning(c) PROVE Goal
  <2>1. Phase[c] = "executing" /\ Phase' = [Phase EXCEPT ![c] = "executing"]
    BY <1>5, <1>11 DEF MarkRunning, RunSteps
  <2>2. Phase = [d \in Calls |-> Phase[d]]
    BY DEF Phase
  <2> QED  BY <2>1, <2>2
<1>12. ASSUME NEW c \in Calls, End(c) PROVE Goal
  <2>1. PICK s \in {"recording", "done"} : run' = [run EXCEPT ![c] = s]
    BY <1>12, RecordMoves DEF End
  <2>2. Phase[c] = "executing" /\ Phase' = [Phase EXCEPT ![c] = "over"]
    BY <1>5, <1>12, <2>1 DEF End, RunSteps
  <2> QED  BY <2>2 DEF Promise!End, Promise!Step
<1>13. ASSUME NEW c \in Calls, Record(c) PROVE Goal
  <2>1. Phase[c] = "over" /\ Phase' = [Phase EXCEPT ![c] = "over"]
    BY <1>5, <1>13 DEF Record, Leave, RunSteps
  <2>2. Phase = [d \in Calls |-> Phase[d]]
    BY DEF Phase
  <2> QED  BY <2>1, <2>2
<1>14. ASSUME UNCHANGED <<call, run>> PROVE Goal
  BY <1>14 DEF Phase, PhaseOf, Waits
<1>15. ASSUME NEW c \in Calls, Cancel(c) \/ CancelLands(c) \/ Reattach(c) \/ ReconcileWrite(c)
       PROVE  Goal
  BY <1>14, <1>15 DEF Cancel, CancelLands, Reattach, ReconcileWrite
<1>16. ASSUME NEW l \in Lanes, WorkerRetires(l) PROVE Goal
  BY <1>14, <1>16 DEF WorkerRetires
<1>17. ASSUME NEW k \in Keys, DedupeExpires(k) \/ LeaseLapses(k) PROVE Goal
  BY <1>14, <1>17 DEF DedupeExpires, LeaseLapses
<1>18. ASSUME ReconcileStart \/ ReconcileRead \/ ReconcileEnd \/ StoreRetried \/ UNCHANGED vars
       PROVE  Goal
  BY <1>14, <1>18 DEF ReconcileStart, ReconcileRead, ReconcileEnd, StoreRetried, vars
<1>19. ASSUME Crash PROVE Goal
  <2>1. \A d \in Calls :
          Phase'[d] = IF Promise!UnderWay(d) THEN "lost" ELSE Phase[d]
    <3> TAKE d \in Calls
    <3>1. CASE JobUnderWay(d)
      <4>0. run[d] # "recording"
        BY <3>1 DEF JobUnderWay, Waits
      <4>1. run'[d] = "lost"
        BY <1>19, <3>1, <4>0 DEF Crash
      <4> QED  BY <1>0, <3>1, <4>1, PhaseIsJob DEF Phase, PhaseOf, Waits
    <3>2. CASE ~ JobUnderWay(d)
      <4>1. /\ run'[d] = IF run[d] = "recording" THEN "done" ELSE run[d]
            /\ ~ Waits(d)'
        BY <1>19, <3>2 DEF Crash, JobUnderWay, Waits
      <4> QED  BY <1>0, <3>2, <4>1, PhaseIsJob DEF Phase, PhaseOf, JobUnderWay
    <3> QED  BY <3>1, <3>2
  <2>2. Promise!Crash
    BY <2>1 DEF Promise!Crash, Phase, PhaseOf
  <2> QED  BY <2>2 DEF Promise!Step
<1>20. Goal
  BY <1>1, <1>2, <1>3, <1>4, <1>6, <1>7, <1>8, <1>9, <1>10, <1>11, <1>12, <1>13,
     <1>15, <1>16, <1>17, <1>18, <1>19
     DEF Next, Decide, Execute, Reconcile
<1>21. Degraded => Degraded'
  BY <1>0, FaultsStay
<1> QED  BY <1>20, <1>21 DEF Promise!Next

(* The operation queue implements the promise: one operation per idempotency key under
   way until a call of the database fails, and, whatever fails, crashes and is cancelled,
   one execution per concurrency key, no more than the caps, and nothing begun twice
   (submit, run_exclusive, _run_job_now). *)
THEOREM PromiseImplemented == Spec => PromiseKept
<1>1. Init => (~ Degraded => KeysRemembered)
  BY DEF Init, KeysRemembered, JobUnderWay, Waits
<1>2. RunInv /\ RunInv' /\ (~ Degraded => KeysRemembered) /\ [Next]_vars
        => (~ Degraded => KeysRemembered)'
  BY KeysStep, FaultsStay DEF RunInv
<1>3. Init => Promise!Init
  BY DEF Init, Promise!Init, Phase, PhaseOf, Waits, Degraded
<1>4. RunInv /\ (~ Degraded => KeysRemembered) /\ [Next]_vars => Promise!Next
  BY PromiseStep
<1> QED
  BY <1>1, <1>2, <1>3, <1>4, RunInvAlways, PTL DEF Spec, PromiseKept, Promise!Spec

-----------------------------------------------------------------------------
(* What was cancelled is not executed. *)

(* What a call was told, in the order of its steps. *)
AnswersInOrder ==
    \A c \in Calls :
        /\ call[c] \in {"new", "reconciling", "fetching", "fetched"} => answer[c] = "none"
        /\ call[c] \in {"storing", "upserting"} => answer[c] = "admitted"

Admitted(c) == answer[c] = "admitted"

(* Another call was answered with the row of the call's job, and _jobs has a
   copy of the row where the job object was. *)
Hidden(c) == \E d \in Calls : answer[d] = "duplicate" /\ seen[d] # None /\ seen[d].id = c

RowsAdmitted(table) ==
    \A k \in Keys : table[k] # None =>
        Admitted(table[k].id) /\ KeyOf[table[k].id] = k

SeenAdmitted ==
    \A d \in Calls : seen[d] # None =>
        Admitted(seen[d].id) /\ KeyOf[seen[d].id] = KeyOf[d]

ExpiredAdmitted == \A c \in doomed \cup buried : Admitted(c)

(* The entry of a job of this process is its object, unless its row was
   expired or answered to another call. *)
EntriesTrue ==
    \A c \in Calls :
        /\ tracked[c] # None => Admitted(c)
        /\ Admitted(c) /\ call[c] # "lost" => tracked[c] # None
        /\ tracked[c] \notin {None, Live} /\ tracked[c].status \in Active =>
              call[c] = "lost" \/ Hidden(c)

RunsOfThisProcess ==
    \A c \in Calls :
        /\ run[c] \in {"marking", "executing"} => status[c] = "running"
        /\ call[c] = "lost" => run[c] \in {"none", "done", "lost"}

(* A job that was told to be cancelled is marked so, unless it was not the job
   that was marked but a copy of its row. *)
ToldIsMarked ==
    \A c \in told :
        /\ Admitted(c) /\ c \in CancelTargets
        /\ c \in cancelReq \/ call[c] = "lost" \/ Hidden(c)
        /\ run[c] \in {"marking", "executing"} => Hidden(c)

CancelInv ==
    /\ AnswersInOrder
    /\ RowsAdmitted(db) /\ SeenAdmitted /\ ExpiredAdmitted
    /\ EntriesTrue
    /\ RunsOfThisProcess
    /\ ToldIsMarked

(* A crash is counted, and leaves no job waiting or executing. *)
LEMMA CrashEnds ==
    ASSUME TypeOK, Crash
    PROVE  /\ crashes' # crashes
           /\ \A c \in Calls : run'[c] \in {"none", "done", "lost"}
<1>1. crashes' # crashes
  <2>1. crashes \in 0..MaxCrashes /\ crashes' = crashes + 1
    BY DEF Crash, TypeOK
  <2> QED  BY <2>1, OperationAssumptions
<1>2. ASSUME NEW c \in Calls PROVE run'[c] \in {"none", "done", "lost"}
  <2>1. run'[c] = CASE JobUnderWay(c) -> "lost" [] run[c] = "recording" -> "done" [] OTHER -> run[c]
    BY DEF Crash
  <2>2. CASE JobUnderWay(c)
    <3>1. run[c] # "recording"
      BY <2>2 DEF JobUnderWay, Waits
    <3> QED  BY <2>1, <2>2, <3>1
  <2>3. CASE ~ JobUnderWay(c) /\ run[c] = "recording"
    BY <2>1, <2>3
  <2>4. CASE ~ JobUnderWay(c) /\ run[c] # "recording"
    <3>1. run'[c] = run[c]
      BY <2>1, <2>4
    <3> QED  BY <3>1, <2>4 DEF JobUnderWay, Waits, TypeOK, RunSteps
  <2> QED  BY <2>2, <2>3, <2>4
<1> QED  BY <1>1, <1>2

(* An answer is final, and only a crash loses calls or what they have seen. *)
LEMMA AnswersStep ==
    ASSUME TypeOK, AnswersInOrder, [Next]_vars
    PROVE  /\ AnswersInOrder'
           /\ \A c \in Calls : answer[c] # "none" => answer'[c] = answer[c]
           /\ Crash \/ \A c \in Calls : answer[c] # "none" => seen'[c] = seen[c]
           /\ Crash \/ \A c \in Calls : call'[c] = "lost" <=> call[c] = "lost"
<1> DEFINE Goal == /\ AnswersInOrder'
                   /\ \A c \in Calls : answer[c] # "none" => answer'[c] = answer[c]
                   /\ Crash \/ \A c \in Calls : answer[c] # "none" => seen'[c] = seen[c]
                   /\ Crash \/ \A c \in Calls : call'[c] = "lost" <=> call[c] = "lost"
<1> USE DEF callers, Set, CallSteps, TypeOK, Answered, AnswersInOrder
<1>1. ASSUME NEW c \in Calls, Start(c) PROVE Goal
  BY <1>1 DEF Start, CallBegins, CallReconciled, Fetch
<1>2. ASSUME NEW c \in Calls, Decide(c) PROVE Goal
  BY <1>2 DEF Decide, DuplicateOfRow, DuplicateInMemory, Refuse, Admit
<1>3. ASSUME NEW c \in Calls, Store(c) PROVE Goal
  BY <1>3 DEF Store, BuildRow, StoreRow
<1>4. ASSUME UNCHANGED callers PROVE Goal
  BY <1>4
<1>5. ASSUME NEW c \in Calls, Execute(c) PROVE UNCHANGED callers
  BY <1>5 DEF Execute, WorkerTakes, RecordDropped, TakeLock, TakeGlobal, TakePool, Drop,
     Begin, MarkRunning, End, Record
<1>6. ASSUME NEW c \in Calls, Cancel(c) \/ CancelLands(c) \/ Reattach(c)
      PROVE  UNCHANGED callers
  BY <1>6 DEF Cancel, CancelLands, Reattach
<1>7. ASSUME (\E l \in Lanes : WorkerRetires(l))
             \/ (\E k \in Keys : DedupeExpires(k) \/ LeaseLapses(k))
             \/ ReconcileStart \/ Reconcile \/ StoreRetried \/ UNCHANGED vars
      PROVE  UNCHANGED callers
  BY <1>7 DEF WorkerRetires, DedupeExpires, LeaseLapses, ReconcileStart, Reconcile,
     ReconcileRead, ReconcileEnd, ReconcileWrite, StoreRetried, vars
<1>8. CASE Crash
  BY <1>8 DEF Crash
<1> QED
  BY <1>1, <1>2, <1>3, <1>4, <1>5, <1>6, <1>7, <1>8 DEF Next

(* Until a crash, a row that was answered to another call stays so. *)
LEMMA HiddenStays ==
    ASSUME TypeOK, AnswersInOrder, [Next]_vars, ~ Crash, NEW c \in Calls, Hidden(c)
    PROVE  Hidden(c)'
  BY AnswersStep DEF Hidden

(* The row an operation writes keeps its key's rows admitted. *)
LEMMA RowsStay ==
    ASSUME TypeOK, RowsAdmitted(db), NEW c \in Calls, NEW image \in Images
    PROVE  /\ RowsAdmitted(Updated(c, image))
           /\ Admitted(c) => RowsAdmitted(Upserted(c, image))
<1>1. KeyOf[c] \in Keys /\ db \in [Keys -> Rows \cup {None}]
  BY DEF Keys, TypeOK
<1>2. Admitted(c) => RowsAdmitted(Upserted(c, image))
  BY <1>1 DEF RowsAdmitted, Upserted, Set, Row
<1>3. RowsAdmitted(Updated(c, image))
  BY <1>1, <1>2 DEF Updated, Owns, RowsAdmitted
<1> QED  BY <1>2, <1>3

(* A write keeps the rows those of admitted operations, whether it fails or not. *)
LEMMA PutStays ==
    ASSUME RowsAdmitted(db), NEW after, RowsAdmitted(after), Put(after)
    PROVE  RowsAdmitted(db')
  BY DEF Put

(* Every row is of an admitted operation of its key. *)
LEMMA RowsAdmittedStep ==
    ASSUME TypeOK, UpsertHasImage, AnswersInOrder, RowsAdmitted(db), [Next]_vars
    PROVE  RowsAdmitted(db')
<1> USE DEF storage, sched
<1>1. ASSUME NEW c \in Calls, StoreRow(c) PROVE RowsAdmitted(db')
  <2>1. pending[c] \in Images /\ Admitted(c)
    BY <1>1 DEF StoreRow, UpsertHasImage, AnswersInOrder, Admitted
  <2> QED  BY <1>1, <2>1, RowsStay, PutStays DEF StoreRow
<1>2. ASSUME NEW c \in Calls, RecordDropped(c) \/ MarkRunning(c) \/ Record(c)
      PROVE  RowsAdmitted(db')
  <2>1. Snapshot(status[c]) \in Images /\ Snapshot("running") \in Images
    BY RowTypes DEF TypeOK, Statuses
  <2> QED  BY <1>2, <2>1, RowsStay, PutStays DEF RecordDropped, MarkRunning, Record
<1>3. ASSUME NEW c \in Calls, CancelLands(c) PROVE RowsAdmitted(db')
  <2>1. cancelling[c] \in Images
    BY <1>3 DEF CancelLands, TypeOK
  <2> QED  BY <1>3, <2>1, RowsStay, PutStays DEF CancelLands
<1>4. ASSUME NEW c \in Calls, ReconcileWrite(c) PROVE RowsAdmitted(db')
  <2>1. Snapshot("expired") \in Images
    BY RowTypes DEF TypeOK, Statuses
  <2> QED  BY <1>4, <2>1, RowsStay DEF ReconcileWrite
<1>5. ASSUME NEW k \in Keys, LeaseLapses(k) PROVE RowsAdmitted(db')
  <2>1. db[k] \in Rows
    BY <1>5 DEF LeaseLapses, TypeOK
  <2>2. [db[k] EXCEPT !.lease = "past"].id = db[k].id
    BY <2>1 DEF Rows
  <2>3. db' = [db EXCEPT ![k] = [db[k] EXCEPT !.lease = "past"]]
    BY <1>5 DEF LeaseLapses
  <2>4. \A q \in Keys : db'[q] # None => db[q] # None /\ db'[q].id = db[q].id
    BY <1>5, <2>2, <2>3 DEF LeaseLapses, TypeOK
  <2> QED  BY <2>4 DEF RowsAdmitted
<1>6. ASSUME UNCHANGED db PROVE RowsAdmitted(db')
  BY <1>6
<1>7. ASSUME NEW c \in Calls, Start(c) \/ Decide(c) \/ BuildRow(c) PROVE UNCHANGED db
  BY <1>7 DEF Start, CallBegins, CallReconciled, Fetch, ReadFails, Decide, DuplicateOfRow,
     DuplicateInMemory, Refuse, Admit, BuildRow
<1>8. ASSUME NEW c \in Calls, WorkerTakes(c) \/ TakeLock(c) \/ TakeGlobal(c) \/ TakePool(c)
                              \/ Drop(c) \/ Begin(c) \/ End(c)
      PROVE  UNCHANGED db
  BY <1>8 DEF WorkerTakes, TakeLock, TakeGlobal, TakePool, Drop, Begin, End
<1>9. ASSUME NEW c \in Calls, Cancel(c) \/ Reattach(c) PROVE UNCHANGED db
  BY <1>9 DEF Cancel, Reattach, ReadFails
<1>10. ASSUME (\E l \in Lanes : WorkerRetires(l)) \/ (\E k \in Keys : DedupeExpires(k))
              \/ ReconcileStart \/ ReconcileRead \/ ReconcileEnd \/ StoreRetried
              \/ Crash \/ UNCHANGED vars
       PROVE  UNCHANGED db
  BY <1>10 DEF WorkerRetires, DedupeExpires, ReconcileStart, ReconcileRead, ReadFails,
     ReconcileEnd, StoreRetried, Crash, vars
<1> QED
  BY <1>1, <1>2, <1>3, <1>4, <1>5, <1>6, <1>7, <1>8, <1>9, <1>10
     DEF Next, Store, Execute, Reconcile

(* So is every row a call has read, *)
LEMMA SeenStep ==
    ASSUME TypeOK, AnswersInOrder, RowsAdmitted(db), SeenAdmitted, [Next]_vars
    PROVE  SeenAdmitted'
<1>1. ASSUME NEW c \in Calls, Fetch(c) PROVE SeenAdmitted'
  <2>1. seen' = seen \/ seen' = [seen EXCEPT ![c] = db[KeyOf[c]]]
    BY <1>1 DEF Fetch, Set
  <2>2. answer' = answer /\ KeyOf[c] \in Keys
    BY <1>1 DEF Fetch, Keys
  <2> QED  BY <2>1, <2>2 DEF SeenAdmitted, RowsAdmitted, Admitted, TypeOK
<1>2. CASE Crash
  BY <1>2 DEF Crash, SeenAdmitted
<1>3. ASSUME UNCHANGED seen PROVE SeenAdmitted'
  <2>1. \A d \in Calls : seen[d] # None => seen[d].id \in Calls
    BY DEF TypeOK, Rows
  <2> QED  BY <1>3, <2>1, AnswersStep DEF SeenAdmitted, Admitted
<1>4. ASSUME [Next]_vars, ~ Crash, \A c \in Calls : ~ Fetch(c) PROVE UNCHANGED seen
  <2> USE DEF callers
  <2>1. ASSUME NEW c \in Calls, CallBegins(c) \/ CallReconciled(c) \/ Decide(c) \/ Store(c)
        PROVE  UNCHANGED seen
    BY <2>1 DEF CallBegins, CallReconciled, Decide, DuplicateOfRow, DuplicateInMemory,
       Refuse, Admit, Store, BuildRow, StoreRow
  <2>2. ASSUME NEW c \in Calls, Execute(c) PROVE UNCHANGED seen
    BY <2>2 DEF Execute, WorkerTakes, RecordDropped, TakeLock, TakeGlobal, TakePool, Drop,
       Begin, MarkRunning, End, Record
  <2>3. ASSUME NEW c \in Calls, Cancel(c) \/ CancelLands(c) \/ Reattach(c)
        PROVE  UNCHANGED seen
    BY <2>3 DEF Cancel, CancelLands, Reattach
  <2>4. ASSUME (\E l \in Lanes : WorkerRetires(l))
               \/ (\E k \in Keys : DedupeExpires(k) \/ LeaseLapses(k))
               \/ ReconcileStart \/ Reconcile \/ StoreRetried \/ UNCHANGED vars
        PROVE  UNCHANGED seen
    BY <2>4 DEF WorkerRetires, DedupeExpires, LeaseLapses, ReconcileStart, Reconcile,
       ReconcileRead, ReconcileEnd, ReconcileWrite, StoreRetried, vars
  <2> QED  BY <1>4, <2>1, <2>2, <2>3, <2>4 DEF Next, Start
<1> QED  BY <1>1, <1>2, <1>3, <1>4

(* and every row that the reconciliation is about to expire. *)
LEMMA ExpiredStep ==
    ASSUME TypeOK, AnswersInOrder, RowsAdmitted(db), ExpiredAdmitted, [Next]_vars
    PROVE  ExpiredAdmitted'
<1>a. \A c \in Calls : Admitted(c) => Admitted(c)'
  BY AnswersStep DEF Admitted
<1>1. CASE ReconcileRead
  <2>1. UNCHANGED <<answer, buried>>
    BY <1>1 DEF ReconcileRead, callers
  <2>2. doomed' = doomed \/ \A c \in doomed' : \E k \in Keys : db[k] # None /\ c = db[k].id
    BY <1>1 DEF ReconcileRead
  <2> QED  BY <2>1, <2>2 DEF ExpiredAdmitted, RowsAdmitted, Admitted
<1>2. ASSUME NEW c \in Calls, ReconcileWrite(c) PROVE ExpiredAdmitted'
  BY <1>2 DEF ReconcileWrite, ExpiredAdmitted, Admitted, callers
<1>3. CASE ReconcileEnd \/ Crash
  BY <1>3, <1>a DEF ReconcileEnd, Crash, ExpiredAdmitted, callers, Admitted
<1>4. ASSUME UNCHANGED <<doomed, buried>> PROVE ExpiredAdmitted'
  BY <1>4, <1>a DEF ExpiredAdmitted, TypeOK
<1>5. ASSUME [Next]_vars, ~ ReconcileRead, ~ ReconcileEnd, ~ Crash,
             \A c \in Calls : ~ ReconcileWrite(c)
      PROVE  UNCHANGED <<doomed, buried>>
  <2> USE DEF others, starting
  <2>1. ASSUME NEW c \in Calls, Start(c) \/ Decide(c) \/ Store(c)
        PROVE  UNCHANGED <<doomed, buried>>
    BY <2>1 DEF Start, CallBegins, CallReconciled, Fetch, Decide, DuplicateOfRow,
       DuplicateInMemory, Refuse, Admit, Store, BuildRow, StoreRow
  <2>2. ASSUME NEW c \in Calls, Execute(c) PROVE UNCHANGED <<doomed, buried>>
    BY <2>2 DEF Execute, WorkerTakes, RecordDropped, TakeLock, TakeGlobal, TakePool, Drop,
       Begin, MarkRunning, End, Record
  <2>3. ASSUME NEW c \in Calls, Cancel(c) \/ CancelLands(c) \/ Reattach(c)
        PROVE  UNCHANGED <<doomed, buried>>
    BY <2>3 DEF Cancel, CancelLands, Reattach
  <2>4. ASSUME (\E l \in Lanes : WorkerRetires(l))
               \/ (\E k \in Keys : DedupeExpires(k) \/ LeaseLapses(k))
               \/ ReconcileStart \/ StoreRetried \/ UNCHANGED vars
        PROVE  UNCHANGED <<doomed, buried>>
    BY <2>4 DEF WorkerRetires, DedupeExpires, LeaseLapses, ReconcileStart, StoreRetried, vars
  <2> QED  BY <1>5, <2>1, <2>2, <2>3, <2>4 DEF Next, Reconcile
<1> QED  BY <1>1, <1>2, <1>3, <1>4, <1>5

(* _jobs keeps the job object until the row takes its place. *)
LEMMA EntriesStep ==
    ASSUME TypeOK, AnswersInOrder, RowsAdmitted(db), SeenAdmitted, ExpiredAdmitted,
           EntriesTrue, [Next]_vars
    PROVE  EntriesTrue'
<1> USE OperationAssumptions
<1> USE DEF callers, memory, Set, Admitted
<1>a. /\ \A c \in Calls : Admitted(c) => Admitted(c)'
      /\ Crash \/ \A c \in Calls : call'[c] = "lost" <=> call[c] = "lost"
      /\ Crash \/ \A c \in Calls : Hidden(c) => Hidden(c)'
  BY AnswersStep, HiddenStays
<1>1. ASSUME NEW c \in Calls, DuplicateOfRow(c) PROVE EntriesTrue'
  <2>0. PICK e \in Calls : e = seen[c].id
    BY <1>1 DEF DuplicateOfRow, TypeOK, Rows
  <2>1. Admitted(e) /\ seen[c] # None /\ Image(seen[c]) \in Images
    BY <1>1, <2>0, RowTypes DEF DuplicateOfRow, SeenAdmitted, TypeOK, Rows
  <2>2. tracked' = [tracked EXCEPT ![e] = Image(seen[c])]
    BY <1>1, <2>0 DEF DuplicateOfRow
  <2>3. Hidden(e)'
    BY <1>1, <2>0, <2>1 DEF DuplicateOfRow, Hidden, Answered, TypeOK
  <2>4. /\ ~ Crash
        /\ \A d \in Calls : Admitted(d)' => Admitted(d)
    BY <1>1 DEF DuplicateOfRow, Crash, Answered, TypeOK
  <2>5. tracked'[e] = Image(seen[c]) /\ \A d \in Calls \ {e} : tracked'[d] = tracked[d]
    BY <2>1, <2>2 DEF TypeOK
  <2>6. None \notin Images
    BY DEF OperationAssumptions
  <2> QED  BY <2>1, <2>3, <2>4, <2>5, <2>6, <1>a DEF EntriesTrue
<1>2. ASSUME NEW c \in Calls, Admit(c) PROVE EntriesTrue'
  <2>1. /\ tracked' = [tracked EXCEPT ![c] = Live] /\ answer' = [answer EXCEPT ![c] = "admitted"]
        /\ ~ Crash
    BY <1>2, CrashEnds DEF Admit, others
  <2> QED  BY <2>1, <1>a DEF EntriesTrue, TypeOK
<1>3. ASSUME NEW c \in Calls, Cancel(c), CancelCopy(c) PROVE EntriesTrue'
  <2>1. tracked[c] \in Images /\ tracked[c].status \in Active
    BY <1>3 DEF CancelCopy, TypeOK
  <2>2. [tracked[c] EXCEPT !.status = "cancelled"] \in Images
    BY <2>1 DEF Images, Statuses
  <2>3. PICK image \in Images : tracked' = [tracked EXCEPT ![c] = image]
    BY <1>3, <2>1, <2>2 DEF CancelCopy
  <2>4. UNCHANGED callers /\ ~ Crash
    BY <1>3, CrashEnds DEF Cancel
  <2> QED  BY <2>1, <2>3, <2>4, <1>a DEF EntriesTrue, TypeOK
<1>4. ASSUME NEW c \in Calls, Reattach(c) PROVE EntriesTrue'
  <2> SUFFICES ASSUME ~ UNCHANGED tracked PROVE EntriesTrue'
    <3>1. ASSUME UNCHANGED tracked PROVE EntriesTrue'
      <4>1. UNCHANGED <<tracked, answer>> /\ ~ Crash
        BY <1>4, <3>1, CrashEnds DEF Reattach, others
      <4> QED  BY <4>1, <1>a DEF EntriesTrue
    <3> QED  BY <3>1
  <2>0. Owns(c)
    BY <1>4 DEF Reattach
  <2>1. /\ tracked[c] = None /\ Admitted(c) /\ KeyOf[c] \in Keys
        /\ tracked' = [tracked EXCEPT ![c] = Image(db[KeyOf[c]])]
        /\ UNCHANGED callers
    BY <1>4, <2>0 DEF Reattach, Owns, RowsAdmitted, Keys
  <2>2. Image(db[KeyOf[c]]) \in Images
    BY <2>0, <2>1, RowTypes DEF Owns, TypeOK
  <2>3. call[c] = "lost"
    BY <2>1 DEF EntriesTrue
  <2> QED  BY <2>1, <2>2, <2>3, <1>a DEF EntriesTrue, Hidden, TypeOK
<1>5. CASE ReconcileEnd
  <2>1. Snapshot("expired") \in Images /\ Snapshot("expired").status \notin Active
    BY RowTypes DEF TypeOK, Statuses, Snapshot, Active
  <2>2. /\ \A c \in Calls : tracked'[c] = IF c \in buried THEN Snapshot("expired") ELSE tracked[c]
        /\ UNCHANGED callers
    BY <1>5 DEF ReconcileEnd
  <2> QED  BY <2>1, <2>2 DEF EntriesTrue, ExpiredAdmitted, Hidden, TypeOK
<1>6. CASE Crash
  <2>1. \A c \in Calls : /\ tracked'[c] = None
                         /\ call'[c] = IF call[c] = "new" THEN "new" ELSE "lost"
                         /\ answer'[c] = answer[c]
    BY <1>6 DEF Crash
  <2> QED  BY <2>1 DEF EntriesTrue, AnswersInOrder
<1>7. ASSUME UNCHANGED <<tracked, answer>>, ~ Crash PROVE EntriesTrue'
  BY <1>7, <1>a DEF EntriesTrue
<1>8. ASSUME NEW c \in Calls, Answered(c, "duplicate") \/ Answered(c, "full") \/ Answered(c, "busy"),
             call[c] = "fetched", UNCHANGED tracked, ~ Crash
      PROVE  EntriesTrue'
  <2>1. \A d \in Calls : Admitted(d)' => Admitted(d)
    BY <1>8 DEF Answered, TypeOK
  <2> QED  BY <1>8, <2>1, <1>a DEF EntriesTrue
<1>9. ASSUME NEW c \in Calls, DuplicateInMemory(c) \/ Refuse(c) PROVE EntriesTrue'
  BY <1>9, <1>8, CrashEnds DEF DuplicateInMemory, Refuse, others
<1>10. ASSUME NEW c \in Calls, Start(c) \/ Store(c) \/ Execute(c) \/ CancelLands(c)
       PROVE  UNCHANGED <<tracked, answer>> /\ ~ Crash
  <2>1. ASSUME Start(c) \/ Store(c) \/ CancelLands(c)
        PROVE  UNCHANGED <<tracked, answer>> /\ ~ Crash
    BY <2>1, CrashEnds DEF Start, CallBegins, CallReconciled, Fetch, Store, BuildRow,
       StoreRow, CancelLands, others
  <2>2. ASSUME Execute(c) PROVE UNCHANGED <<tracked, answer>> /\ ~ Crash
    BY <2>2, CrashEnds DEF Execute, WorkerTakes, RecordDropped, TakeLock, TakeGlobal,
       TakePool, Drop, Begin, MarkRunning, End, Record, others
  <2> QED  BY <1>10, <2>1, <2>2
<1>11. ASSUME NEW c \in Calls, Cancel(c), ~ CancelCopy(c) PROVE EntriesTrue'
  BY <1>11, <1>7 DEF Cancel, CancelQueued, CancelRunning, Crash
<1>12. ASSUME (\E l \in Lanes : WorkerRetires(l))
              \/ (\E k \in Keys : DedupeExpires(k) \/ LeaseLapses(k))
              \/ ReconcileStart \/ ReconcileRead \/ (\E c \in Calls : ReconcileWrite(c))
              \/ StoreRetried \/ UNCHANGED vars
       PROVE  EntriesTrue'
  <2>1. UNCHANGED <<tracked, answer>>
    BY <1>12 DEF WorkerRetires, DedupeExpires, LeaseLapses, ReconcileStart, ReconcileRead,
       ReconcileWrite, StoreRetried, vars
  <2> QED  BY <2>1, <1>6, <1>7
<1> QED
  BY <1>1, <1>2, <1>3, <1>4, <1>5, <1>6, <1>7, <1>9, <1>10, <1>11, <1>12
     DEF Next, Decide, Reconcile

(* A job object that executes is marked running, and none executes after a crash. *)
LEMMA RunsStep ==
    ASSUME TypeOK, CallPrecedesRun, AnswersInOrder, RunsOfThisProcess, [Next]_vars
    PROVE  RunsOfThisProcess'
<1> USE DEF callers, jobs, marks, Set, CallSteps, RunSteps, TypeOK, Answered, RunsOfThisProcess
<1>1. ASSUME NEW c \in Calls, Start(c) PROVE RunsOfThisProcess'
  BY <1>1 DEF Start, CallBegins, CallReconciled, Fetch
<1>2. ASSUME NEW c \in Calls, Decide(c) PROVE RunsOfThisProcess'
  BY <1>2 DEF Decide, DuplicateOfRow, DuplicateInMemory, Refuse, Admit, CallPrecedesRun
<1>3. ASSUME NEW c \in Calls, Store(c) PROVE RunsOfThisProcess'
  BY <1>3 DEF Store, BuildRow, StoreRow, CallPrecedesRun
<1>4. ASSUME NEW c \in Calls, WorkerTakes(c) \/ RecordDropped(c) PROVE RunsOfThisProcess'
  BY <1>4 DEF WorkerTakes, RecordDropped
<1>5. ASSUME NEW c \in Calls, TakeLock(c) \/ TakeGlobal(c) \/ TakePool(c)
      PROVE  RunsOfThisProcess'
  BY <1>5 DEF TakeLock, TakeGlobal, TakePool
<1>6. ASSUME NEW c \in Calls, Drop(c) \/ End(c) PROVE RunsOfThisProcess'
  BY <1>6, RecordMoves DEF Drop, End
<1>7. ASSUME NEW c \in Calls, Begin(c) \/ MarkRunning(c) PROVE RunsOfThisProcess'
  BY <1>7 DEF Begin, MarkRunning
<1>8. ASSUME NEW c \in Calls, Record(c) PROVE RunsOfThisProcess'
  BY <1>8 DEF Record, Leave
<1>9. ASSUME NEW c \in Calls, Cancel(c) PROVE RunsOfThisProcess'
  BY <1>9 DEF Cancel, CancelQueued, CancelRunning, CancelCopy
<1>10. ASSUME NEW c \in Calls, CancelLands(c) \/ Reattach(c) PROVE RunsOfThisProcess'
  BY <1>10 DEF CancelLands, Reattach
<1>11. ASSUME (\E l \in Lanes : WorkerRetires(l))
              \/ (\E k \in Keys : DedupeExpires(k) \/ LeaseLapses(k))
              \/ ReconcileStart \/ Reconcile \/ StoreRetried \/ UNCHANGED vars
       PROVE  RunsOfThisProcess'
  BY <1>11 DEF WorkerRetires, DedupeExpires, LeaseLapses, ReconcileStart, Reconcile,
     ReconcileRead, ReconcileEnd, ReconcileWrite, StoreRetried, vars
<1>12. CASE Crash
  BY <1>12, CrashEnds
<1> QED
  BY <1>1, <1>2, <1>3, <1>4, <1>5, <1>6, <1>7, <1>8, <1>9, <1>10, <1>11, <1>12
     DEF Next, Execute

(* A told job begins only if the mark was put on a copy of its row. *)
LEMMA ToldStep ==
    ASSUME TypeOK, CallPrecedesRun, CancelInv, [Next]_vars
    PROVE  ToldIsMarked'
<1> USE DEF ToldIsMarked, CancelInv
<1>a. /\ \A c \in Calls : Admitted(c) => Admitted(c)'
      /\ Crash \/ \A c \in Calls : call'[c] = "lost" <=> call[c] = "lost"
      /\ Crash \/ \A c \in Calls : Hidden(c) => Hidden(c)'
  BY AnswersStep, HiddenStays DEF Admitted
<1>b. told \subseteq Calls
  BY DEF TypeOK
<1>1. CASE Crash
  <2>1. \A c \in Calls : Admitted(c) => call'[c] = "lost"
    BY <1>1 DEF Crash, Admitted, AnswersInOrder
  <2>3. \A c \in Calls : run'[c] \notin {"marking", "executing"}
    BY <1>1, CrashEnds
  <2>4. told' = told
    BY <1>1 DEF Crash, clients
  <2> QED  BY <2>1, <2>3, <2>4, <1>a, <1>b
<1>2. ASSUME NEW c \in Calls, Cancel(c), CancelQueued(c) PROVE ToldIsMarked'
  <2>1. Admitted(c) /\ run[c] \notin {"marking", "executing"} /\ c \in CancelTargets
    BY <1>2, OperationAssumptions DEF Cancel, CancelQueued, EntriesTrue, RunsOfThisProcess
  <2>2. /\ told' = told \cup {c} /\ cancelReq' = cancelReq \cup {c}
        /\ UNCHANGED <<run, callers>> /\ ~ Crash
    BY <1>2, CrashEnds DEF Cancel, CancelQueued
  <2> QED  BY <2>1, <2>2, <1>a, <1>b DEF callers
<1>3. ASSUME NEW c \in Calls, Cancel(c), CancelRunning(c) PROVE ToldIsMarked'
  <2>1. told' = told /\ cancelReq \subseteq cancelReq' /\ UNCHANGED run /\ ~ Crash
    BY <1>3, CrashEnds DEF Cancel, CancelRunning
  <2> QED  BY <2>1, <1>a, <1>b
<1>4. ASSUME NEW c \in Calls, Cancel(c), CancelCopy(c) PROVE ToldIsMarked'
  <2>1. Admitted(c) /\ (call[c] = "lost" \/ Hidden(c)) /\ c \in CancelTargets
    BY <1>4 DEF Cancel, CancelCopy, EntriesTrue
  <2>2. call[c] = "lost" => run[c] \notin {"marking", "executing"}
    BY DEF RunsOfThisProcess
  <2>3. told' \in {told, told \cup {c}} /\ cancelReq' = cancelReq /\ UNCHANGED run /\ ~ Crash
    BY <1>4, CrashEnds DEF Cancel, CancelCopy
  <2> QED  BY <2>1, <2>2, <2>3, <1>a, <1>b
<1>5. ASSUME NEW c \in Calls, Begin(c) PROVE ToldIsMarked'
  <2>1. /\ run[c] = "type" /\ c \notin cancelReq
        /\ \A d \in Calls : d # c => run'[d] = run[d]
        /\ told' = told /\ cancelReq' = cancelReq /\ ~ Crash
    BY <1>5, CrashEnds DEF Begin, Set, marks, others, clients, TypeOK
  <2>2. c \in told => Hidden(c)
    BY <2>1 DEF RunsOfThisProcess
  <2> QED  BY <2>1, <2>2, <1>a, <1>b
<1>6. ASSUME UNCHANGED <<told, cancelReq>>, ~ Crash,
             \A c \in Calls : run'[c] \in {"marking", "executing"} =>
                                  run[c] \in {"marking", "executing"}
      PROVE  ToldIsMarked'
  BY <1>6, <1>a, <1>b
<1>7. ASSUME [Next]_vars, ~ Crash, \A c \in Calls : ~ Begin(c) /\ ~ Cancel(c)
      PROVE  /\ UNCHANGED <<told, cancelReq>>
             /\ \A c \in Calls : run'[c] \in {"marking", "executing"} =>
                                    run[c] \in {"marking", "executing"}
  <2> DEFINE Goal == /\ UNCHANGED <<told, cancelReq>>
                     /\ \A c \in Calls : run'[c] \in {"marking", "executing"} =>
                                            run[c] \in {"marking", "executing"}
  <2> USE DEF jobs, marks, others, clients, Set, TypeOK
  <2>1. ASSUME NEW c \in Calls, Start(c) \/ Decide(c) \/ Store(c) PROVE Goal
    BY <2>1 DEF Start, CallBegins, CallReconciled, Fetch, Decide, DuplicateOfRow,
       DuplicateInMemory, Refuse, Admit, Store, BuildRow, StoreRow
  <2>2. ASSUME NEW c \in Calls, Execute(c), ~ Begin(c) PROVE Goal
    <3>1. CASE Drop(c) \/ End(c)
      BY <3>1, RecordMoves DEF Drop, End
    <3>2. CASE ~ Drop(c) /\ ~ End(c)
      BY <2>2, <3>2 DEF Execute, WorkerTakes, RecordDropped, TakeLock, TakeGlobal,
         TakePool, MarkRunning, Record, Leave
    <3> QED  BY <3>1, <3>2
  <2>3. ASSUME NEW c \in Calls, CancelLands(c) \/ Reattach(c) PROVE Goal
    BY <2>3 DEF CancelLands, Reattach
  <2>4. ASSUME (\E l \in Lanes : WorkerRetires(l))
               \/ (\E k \in Keys : DedupeExpires(k) \/ LeaseLapses(k))
               \/ ReconcileStart \/ Reconcile \/ StoreRetried \/ UNCHANGED vars
        PROVE  Goal
    BY <2>4 DEF WorkerRetires, DedupeExpires, LeaseLapses, ReconcileStart, Reconcile,
       ReconcileRead, ReconcileEnd, ReconcileWrite, StoreRetried, vars
  <2> QED  BY <1>7, <2>1, <2>2, <2>3, <2>4 DEF Next
<1>8. \A c \in Calls : Cancel(c) => CancelQueued(c) \/ CancelRunning(c) \/ CancelCopy(c)
  BY DEF Cancel
<1> QED  BY <1>1, <1>2, <1>3, <1>4, <1>5, <1>6, <1>7, <1>8

LEMMA CancelInvAlways == Spec => []CancelInv
<1>1. Init => CancelInv
  BY OperationAssumptions
     DEF Init, CancelInv, AnswersInOrder, RowsAdmitted, SeenAdmitted, ExpiredAdmitted, EntriesTrue,
     RunsOfThisProcess, ToldIsMarked, Admitted
<1>2. RunInv /\ CancelInv /\ [Next]_vars => CancelInv'
  <2> SUFFICES ASSUME RunInv, CancelInv, [Next]_vars PROVE CancelInv'
    OBVIOUS
  <2> USE DEF RunInv, CancelInv
  <2>1. AnswersInOrder'
    BY AnswersStep
  <2>2. RowsAdmitted(db)'
    <3>1. RowsAdmitted(db')
      BY RowsAdmittedStep
    <3>2. \A k \in Keys : db'[k] # None => db'[k].id \in Calls
      BY TypeStep DEF TypeOK, Rows
    <3> QED  BY <3>1, <3>2, AnswersStep DEF RowsAdmitted, Admitted
  <2>3. SeenAdmitted' /\ ExpiredAdmitted'
    BY SeenStep, ExpiredStep
  <2>4. EntriesTrue'
    BY EntriesStep
  <2>5. RunsOfThisProcess'
    BY RunsStep
  <2>6. ToldIsMarked'
    BY ToldStep
  <2> QED  BY <2>1, <2>2, <2>3, <2>4, <2>5, <2>6
<1> QED  BY <1>1, <1>2, RunInvAlways, PTL DEF Spec

(* cancel's "Cancelled." is true of a job unless submit answered another call with
   the job's row: only then may the copy in _jobs have been cancelled instead of the
   job, and only such a job may execute afterwards (submit, cancel, _run_job_now). *)
THEOREM CancelledRunsOnlyIfHidden ==
    Spec => [](\A c \in told : run[c] \in {"marking", "executing"} => Hidden(c))
<1>1. CancelInv => \A c \in told : run[c] \in {"marking", "executing"} => Hidden(c)
  BY DEF CancelInv, ToldIsMarked
<1> QED  BY <1>1, CancelInvAlways, PTL

(* Nobody submits the idempotency key of an operation to be cancelled again.  The run
   operation_queue_resubmit shows that the code needs it. *)
TargetsSubmittedOnce ==
    \A c \in CancelTargets, d \in Calls : KeyOf[d] = KeyOf[c] => d = c

(* An operation whose cancellation was confirmed while it was queued is never
   executed (cancel, _run_job_now), whatever crashes, fails and is reconciled. *)
THEOREM CancelledStaysOut ==
    ASSUME TargetsSubmittedOnce
    PROVE  Spec => []CancelledNeverRuns
<1>1. CancelInv => CancelledNeverRuns
  <2> SUFFICES ASSUME CancelInv, NEW c \in told, Hidden(c) PROVE FALSE
    BY DEF CancelInv, ToldIsMarked, CancelledNeverRuns
  <2>1. PICK d \in Calls : answer[d] = "duplicate" /\ seen[d] # None /\ seen[d].id = c
    BY DEF Hidden
  <2>2. Admitted(c) /\ c \in CancelTargets /\ KeyOf[c] = KeyOf[d]
    BY <2>1 DEF CancelInv, ToldIsMarked, SeenAdmitted
  <2>3. d = c
    BY <2>2, TargetsSubmittedOnce DEF TargetsSubmittedOnce
  <2> QED  BY <2>1, <2>2, <2>3 DEF Admitted
<1> QED  BY <1>1, CancelInvAlways, PTL
=============================================================================
