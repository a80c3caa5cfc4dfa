--------------------------- MODULE OperationQueue ---------------------------
(***************************************************************************)
(* The bot-wide operation queue (stoney_verify/operation_queue.py): every  *)
(* mutating operation of the Discord commands and of the dashboard API     *)
(* passes through submit (queued, one worker per concurrency key) or       *)
(* run_exclusive (run by its caller), with idempotency keys, permits, a    *)
(* row per operation in bot_operation_jobs, cancellation and a             *)
(* reconciliation of the rows a dead process left.                         *)
(*                                                                         *)
(* The event loop runs one callback at a time, from one await to the next: *)
(* such a stretch is one action.  A database call runs in a thread and is  *)
(* an action of its own, so everything else can happen between the moment  *)
(* a call is made and the moment it lands.  A crash loses all but the      *)
(* table; the next process starts at once.                                 *)
(***************************************************************************)
EXTENDS Naturals, FiniteSets

CONSTANTS
    Calls,          \* calls of submit and run_exclusive; a call's job has its name
    Exclusive,      \* the calls of run_exclusive
    RejectBusy,     \* those with reject_if_busy
    Cancellable,    \* supports_cancellation
    CancelTargets,  \* bound: the jobs a client asks to cancel, once each
    KeyOf,          \* [Calls -> idempotency keys], the guild included
    LaneOf,         \* [Calls -> concurrency keys]
    PoolOf,         \* [Calls -> guild semaphores], "<guild>:<cap>"
    TypeOf,         \* [Calls -> operation types]
    MaxGlobal,      \* _max_global
    PoolCap,        \* [guild semaphores -> _max_per_guild or 1]
    MaxPerType,     \* _max_per_type
    MaxQueue,       \* _max_queue_per_key
    MaxCrashes,     \* bound on crashes
    MaxFaults,      \* bound on failed database calls
    None, Live      \* "nothing", and "the job object itself"

Keys  == {KeyOf[c]  : c \in Calls}
Lanes == {LaneOf[c] : c \in Calls}
Pools == {PoolOf[c] : c \in Calls}
Types == {TypeOf[c] : c \in Calls}

(* "finished" stands for succeeded, partial and failed, and for whatever
   terminal status a factory reports. *)
Statuses == {"queued", "running", "finished", "cancelled", "expired"}
Active   == {"queued", "running"}
Leases   == {"none", "valid", "past"}      \* lock_expires_at

Images == [status : Statuses, lease : Leases]
Rows   == [id : Calls, status : Statuses, lease : Leases]

ASSUME OperationAssumptions ==
    /\ Exclusive \subseteq Calls /\ RejectBusy \subseteq Exclusive
    /\ Cancellable \subseteq Calls /\ CancelTargets \subseteq Calls
    /\ IsFiniteSet(Calls)
    /\ KeyOf \in [Calls -> Keys] /\ LaneOf \in [Calls -> Lanes]
    /\ PoolOf \in [Calls -> Pools] /\ TypeOf \in [Calls -> Types]
    /\ MaxGlobal \in Nat \ {0} /\ PoolCap \in [Pools -> Nat \ {0}]
    /\ MaxPerType \in Nat \ {0} /\ MaxQueue \in Nat
    /\ MaxCrashes \in Nat /\ MaxFaults \in Nat
    /\ None \notin Calls /\ None \notin Rows /\ None \notin Images
    /\ Live \notin Images /\ Live # None

VARIABLES
    call,       \* [Calls -> where the call is, up to the storing of its job]
    seen,       \* [Calls -> the row fetch_duplicate returned]
    answer,     \* [Calls -> what the call was told]
    run,        \* [Calls -> where the execution of the call's job is]
    status,     \* [Calls -> job.status]
    cancelReq,  \* jobs with cancellation_requested
    killed,     \* jobs whose task.cancel() was called
    ahead,      \* [Calls -> jobs before it in its lane's queue when it was put]
    tracked,    \* _jobs: [Calls -> the job object, a copy of its row, or none]
    dedupe,     \* _dedupe: [Keys -> job id]
    worker,     \* _workers: [Lanes -> none, idle or busy]
    lock,       \* _locks: [Lanes -> the job that holds it]
    globalFree, poolFree, typeFree,     \* semaphore values
    store,      \* _OperationPersistence: up, off for good, or lagging for 90s
    db,         \* bot_operation_jobs: [Keys -> row], (guild_id, idempotency_key) unique
    pending,    \* [Calls -> the row image an upsert thread has built]
    cancelling, \* [Calls -> the image a cancel() is writing]
    recon,      \* reconcile_startup
    doomed,     \* ids of the rows it is about to expire
    buried,     \* ids of those it has expired
    asked,      \* jobs a client has asked to cancel (once each)
    told,       \* jobs it was told were "cancelled before execution"
    crashes, faults

callers  == <<call, seen, answer>>
marks    == <<cancelReq, killed, ahead>>
jobs     == <<run, status, marks>>
memory   == <<tracked, dedupe>>
permits  == <<globalFree, poolFree, typeFree>>
sched    == <<worker, lock, permits>>
storage  == <<store, db, faults>>
starting == <<recon, doomed, buried>>
clients  == <<asked, told>>
writes   == <<pending, cancelling>>
others   == <<writes, starting, clients, crashes>>
vars     == <<callers, jobs, memory, sched, storage, others>>

CallSteps == {"new", "reconciling", "fetching", "fetched", "storing",
              "upserting", "answered", "lost"}
Answers   == {"none", "admitted", "duplicate", "busy", "full"}
RunSteps  == {"none", "queued", "dropping", "locking", "global", "guild", "type",
              "marking", "executing", "recording", "done", "lost"}

(* A job holds its lane's lock, and its permits, at these steps. *)
Holding   == {"global", "guild", "type", "marking", "executing", "recording"}
HasGlobal == {"guild", "type", "marking", "executing"}
HasPool   == {"type", "marking", "executing"}
HasType   == {"marking", "executing"}

TypeOK ==
    /\ call \in [Calls -> CallSteps]
    /\ seen \in [Calls -> Rows \cup {None}]
    /\ answer \in [Calls -> Answers]
    /\ run \in [Calls -> RunSteps]
    /\ status \in [Calls -> Statuses]
    /\ cancelReq \in SUBSET Calls /\ killed \in SUBSET Calls
    /\ ahead \in [Calls -> SUBSET Calls]
    /\ tracked \in [Calls -> Images \cup {None, Live}]
    /\ dedupe \in [Keys -> Calls \cup {None}]
    /\ worker \in [Lanes -> {"none", "idle", "busy"}]
    /\ lock \in [Lanes -> Calls \cup {None}]
    /\ globalFree \in Nat
    /\ poolFree \in [Pools -> Nat]
    /\ typeFree \in [Types -> Nat]
    /\ store \in {"up", "off", "lagging"}
    /\ db \in [Keys -> Rows \cup {None}]
    /\ pending \in [Calls -> Images \cup {None}]
    /\ cancelling \in [Calls -> Images \cup {None}]
    /\ recon \in {"idle", "reading", "writing", "done"}
    /\ doomed \in SUBSET Calls /\ buried \in SUBSET Calls
    /\ asked \in SUBSET Calls /\ told \in SUBSET Calls
    /\ crashes \in 0..MaxCrashes
    /\ faults \in 0..MaxFaults

Init ==
    /\ call = [c \in Calls |-> "new"]
    /\ seen = [c \in Calls |-> None]
    /\ answer = [c \in Calls |-> "none"]
    /\ run = [c \in Calls |-> "none"]
    /\ status = [c \in Calls |-> "queued"]
    /\ cancelReq = {} /\ killed = {}
    /\ ahead = [c \in Calls |-> {}]
    /\ tracked = [c \in Calls |-> None]
    /\ dedupe = [k \in Keys |-> None]
    /\ worker = [l \in Lanes |-> "none"]
    /\ lock = [l \in Lanes |-> None]
    /\ globalFree = MaxGlobal
    /\ poolFree = PoolCap
    /\ typeFree = [t \in Types |-> MaxPerType]
    /\ store = "up"
    /\ db = [k \in Keys |-> None]
    /\ pending = [c \in Calls |-> None]
    /\ cancelling = [c \in Calls |-> None]
    /\ recon = "idle"
    /\ doomed = {} /\ buried = {}
    /\ asked = {} /\ told = {}
    /\ crashes = 0
    /\ faults = 0

Set(f, x, v) == [f EXCEPT ![x] = v]

----------------------------------------------------------------------------
(* _OperationPersistence *)

Row(c, image) == [id |-> c, status |-> image.status, lease |-> image.lease]
Image(row)    == [status |-> row.status, lease |-> row.lease]

(* _row of the job object: only a running job has a lease. *)
Snapshot(s) == [status |-> s, lease |-> IF s = "running" THEN "valid" ELSE "none"]

(* _disable: a schema-cache error is retried after 90 seconds, any other
   error turns persistence off (unless a retry was already due). *)
Disable == store' \in {"lagging", IF store = "lagging" THEN "lagging" ELSE "off"}

(* A write reaches the table; or its call fails, reaching it or not. *)
Put(after) ==
    \/ db' = after /\ UNCHANGED <<store, faults>>
    \/ /\ faults < MaxFaults
       /\ faults' = faults + 1
       /\ Disable
       /\ db' \in {db, after}

ReadFails ==
    /\ faults < MaxFaults
    /\ faults' = faults + 1
    /\ Disable
    /\ UNCHANGED db

(* upsert(..., on_conflict = guild_id, idempotency_key): the id is replaced, too. *)
Upserted(c, image) == Set(db, KeyOf[c], Row(c, image))

(* update(...).eq("id", ...): no row, no effect. *)
Owns(c) == db[KeyOf[c]] # None /\ db[KeyOf[c]].id = c
Updated(c, image) == IF Owns(c) THEN Upserted(c, image) ELSE db

(* _ready after the 90 seconds. *)
StoreRetried ==
    /\ store = "lagging"
    /\ store' = "up"
    /\ UNCHANGED <<callers, jobs, memory, sched, db, faults, others>>

(* A row's lock_expires_at passes.  It is at least a minute beyond the timeout
   of the execution it was written for, and fifteen minutes for most. *)
LeaseLapses(k) ==
    /\ db[k] # None
    /\ db[k].lease = "valid"
    /\ run[db[k].id] \notin {"marking", "executing"}
    /\ db' = [db EXCEPT ![k].lease = "past"]
    /\ UNCHANGED <<callers, jobs, memory, sched, store, faults, others>>

----------------------------------------------------------------------------
(* reconcile_startup: the flag is set first; later callers do not wait.    *)

ReconcileStart ==
    /\ recon = "idle"
    /\ recon' = IF store = "up" THEN "reading" ELSE "done"
    /\ UNCHANGED <<callers, jobs, memory, sched, storage, writes, doomed, buried,
                   clients, crashes>>

ShouldExpire(r) == r.status \in Active /\ r.lease # "valid"

(* SELECT ... status in (active) *)
ReconcileRead ==
    /\ recon = "reading"
    /\ \/ /\ doomed' = {db[k].id : k \in {q \in Keys : db[q] # None /\ ShouldExpire(db[q])}}
          /\ recon' = "writing"
          /\ UNCHANGED storage
       \/ /\ ReadFails
          /\ recon' = "done"
          /\ UNCHANGED doomed
    /\ UNCHANGED <<callers, jobs, memory, sched, writes, buried, clients, crashes>>

(* One UPDATE per row, by id, whatever the row says by now. *)
ReconcileWrite(c) ==
    /\ recon = "writing"
    /\ c \in doomed
    /\ \/ /\ db' = Updated(c, Snapshot("expired"))
          /\ doomed' = doomed \ {c}
          /\ buried' = buried \cup {c}
          /\ UNCHANGED <<store, faults, recon>>
       \/ /\ faults < MaxFaults
          /\ faults' = faults + 1
          /\ Disable
          /\ db' \in {db, Updated(c, Snapshot("expired"))}
          /\ recon' = "done"
          /\ doomed' = {} /\ buried' = {}
    /\ UNCHANGED <<callers, jobs, memory, sched, writes, clients, crashes>>

(* Back on the event loop: copies of the expired rows enter _jobs. *)
ReconcileEnd ==
    /\ recon = "writing"
    /\ doomed = {}
    /\ recon' = "done"
    /\ buried' = {}
    /\ tracked' = [c \in Calls |->
                     IF c \in buried THEN Snapshot("expired") ELSE tracked[c]]
    /\ UNCHANGED <<callers, jobs, dedupe, sched, storage, writes, doomed, clients,
                   crashes>>

----------------------------------------------------------------------------
(* submit and run_exclusive, up to the storing of the new job's row        *)

(* The first call of the process reconciles and waits; the others do not. *)
CallBegins(c) ==
    /\ call[c] = "new"
    /\ IF recon = "idle" /\ store = "up"
       THEN /\ recon' = "reading"
            /\ call' = Set(call, c, "reconciling")
       ELSE /\ recon' = IF recon = "idle" THEN "done" ELSE recon
            /\ call' = Set(call, c, IF store = "up" THEN "fetching" ELSE "fetched")
    /\ UNCHANGED <<seen, answer, jobs, memory, sched, storage, writes, doomed,
                   buried, clients, crashes>>

CallReconciled(c) ==
    /\ call[c] = "reconciling"
    /\ recon = "done"
    /\ call' = Set(call, c, IF store = "up" THEN "fetching" ELSE "fetched")
    /\ UNCHANGED <<seen, answer, jobs, memory, sched, storage, others>>

(* fetch_duplicate, in its thread *)
Fetch(c) ==
    /\ call[c] = "fetching"
    /\ \/ /\ seen' = Set(seen, c, db[KeyOf[c]])
          /\ UNCHANGED storage
       \/ /\ ReadFails
          /\ UNCHANGED seen
    /\ call' = Set(call, c, "fetched")
    /\ UNCHANGED <<answer, jobs, memory, sched, others>>

Answered(c, reply) ==
    /\ call' = Set(call, c, "answered")
    /\ answer' = Set(answer, c, reply)

(* A row of any status is a duplicate: a copy of it becomes the object _jobs
   has under its id, in place of the job object if the job is of this process. *)
DuplicateOfRow(c) ==
    /\ call[c] = "fetched"
    /\ seen[c] # None
    /\ tracked' = Set(tracked, seen[c].id, Image(seen[c]))
    /\ dedupe' = Set(dedupe, KeyOf[c], seen[c].id)
    /\ Answered(c, "duplicate")
    /\ UNCHANGED <<seen, jobs, sched, storage, others>>

(* Mutant: only the table is asked for duplicates. *)
Remembered_TableOnly(k) == FALSE

Remembered(k) == dedupe[k] # None /\ tracked[dedupe[k]] # None

DuplicateInMemory(c) ==
    /\ call[c] = "fetched"
    /\ seen[c] = None
    /\ Remembered(KeyOf[c])
    /\ Answered(c, "duplicate")
    /\ UNCHANGED <<seen, jobs, memory, sched, storage, others>>

Waiting(l) == {c \in Calls : run[c] = "queued" /\ LaneOf[c] = l}

QueueFull(c) ==
    c \notin Exclusive /\ Cardinality(Waiting(LaneOf[c])) >= MaxQueue

LaneBusy(c) ==
    c \in RejectBusy /\ lock[LaneOf[c]] # None

Refuse(c) ==
    /\ call[c] = "fetched"
    /\ seen[c] = None
    /\ ~ Remembered(KeyOf[c])
    /\ \/ QueueFull(c) /\ Answered(c, "full")
       \/ LaneBusy(c) /\ Answered(c, "busy")
    /\ UNCHANGED <<seen, jobs, memory, sched, storage, others>>

(* The job is created and remembered; submit also queues it and starts the
   lane's worker.  Without a store, upsert_job returns at once. *)
Admit(c) ==
    /\ call[c] = "fetched"
    /\ seen[c] = None
    /\ ~ Remembered(KeyOf[c])
    /\ ~ QueueFull(c) /\ ~ LaneBusy(c)
    /\ tracked' = Set(tracked, c, Live)
    /\ dedupe' = Set(dedupe, KeyOf[c], c)
    /\ answer' = Set(answer, c, "admitted")
    /\ call' = Set(call, c, IF store = "up" THEN "storing" ELSE "answered")
    /\ IF c \in Exclusive
       THEN /\ run' = Set(run, c, IF store = "up" THEN "none" ELSE "locking")
            /\ UNCHANGED <<ahead, worker>>
       ELSE /\ run' = Set(run, c, "queued")
            /\ ahead' = Set(ahead, c, Waiting(LaneOf[c]))
            /\ worker' = IF worker[LaneOf[c]] = "none"
                         THEN Set(worker, LaneOf[c], "idle") ELSE worker
    /\ UNCHANGED <<seen, status, cancelReq, killed, lock, permits, storage, others>>

(* _prune_dedupe, a minute after _remember.  The database calls of the same
   key that were under way then are taken to be over. *)
DedupeExpires(k) ==
    /\ dedupe[k] # None
    /\ \A c \in Calls : KeyOf[c] = k =>
           call[c] \notin {"fetching", "fetched", "storing", "upserting"}
    /\ dedupe' = Set(dedupe, k, None)
    /\ UNCHANGED <<callers, jobs, tracked, sched, storage, others>>

(* upsert_job: the thread builds the row from the job object, then sends it. *)
BuildRow(c) ==
    /\ call[c] = "storing"
    /\ pending' = Set(pending, c, Snapshot(status[c]))
    /\ call' = Set(call, c, "upserting")
    /\ UNCHANGED <<seen, answer, jobs, memory, sched, storage, cancelling,
                   starting, clients, crashes>>

(* Upsert lands; run_exclusive goes on to the lane's lock. *)
StoreRow(c) ==
    /\ call[c] = "upserting"
    /\ Put(Upserted(c, pending[c]))
    /\ pending' = Set(pending, c, None)
    /\ call' = Set(call, c, "answered")
    /\ run' = IF c \in Exclusive THEN Set(run, c, "locking") ELSE run
    /\ UNCHANGED <<seen, answer, status, marks, memory, sched, cancelling,
                   starting, clients, crashes>>

----------------------------------------------------------------------------
(* _worker *)

WorkerIdle(c) ==
    worker' = IF c \in Exclusive THEN worker ELSE Set(worker, LaneOf[c], "idle")

(* queue.get(), in order.  A job cancelled in the queue is only recorded. *)
WorkerTakes(c) ==
    /\ worker[LaneOf[c]] = "idle"
    /\ run[c] = "queued"
    /\ ahead[c] \cap Waiting(LaneOf[c]) = {}
    /\ IF c \in cancelReq
       THEN IF store = "up"
            THEN run' = Set(run, c, "dropping") /\ worker' = Set(worker, LaneOf[c], "busy")
            ELSE run' = Set(run, c, "done") /\ UNCHANGED worker
       ELSE run' = Set(run, c, "locking") /\ worker' = Set(worker, LaneOf[c], "busy")
    /\ UNCHANGED <<callers, status, marks, memory, lock, permits, storage, others>>

RecordDropped(c) ==
    /\ run[c] = "dropping"
    /\ Put(Updated(c, Snapshot(status[c])))
    /\ run' = Set(run, c, "done")
    /\ WorkerIdle(c)
    /\ UNCHANGED <<callers, status, marks, memory, lock, permits, others>>

(* Five minutes with an empty queue: the worker ends. *)
WorkerRetires(l) ==
    /\ worker[l] = "idle"
    /\ Waiting(l) = {}
    /\ worker' = Set(worker, l, "none")
    /\ UNCHANGED <<callers, jobs, memory, lock, permits, storage, others>>

----------------------------------------------------------------------------
(* _run_job_now, under the lane's lock *)

(* Mutant: the job runs outside "async with lock". *)
TakeLock_Unlocked(c) ==
    /\ run[c] = "locking"
    /\ lock' = Set(lock, LaneOf[c], c)
    /\ run' = Set(run, c, "global")
    /\ UNCHANGED <<callers, status, marks, memory, worker, permits, storage, others>>

TakeLock(c) ==
    /\ run[c] = "locking"
    /\ lock[LaneOf[c]] = None
    /\ lock' = Set(lock, LaneOf[c], c)
    /\ run' = Set(run, c, "global")
    /\ UNCHANGED <<callers, status, marks, memory, worker, permits, storage, others>>

(* Mutant: the semaphore is counted but not waited for. *)
TakeGlobal_NoWait(c) ==
    /\ run[c] = "global"
    /\ globalFree' = globalFree - 1
    /\ run' = Set(run, c, "guild")
    /\ UNCHANGED <<callers, status, marks, memory, worker, lock, poolFree,
                   typeFree, storage, others>>

TakeGlobal(c) ==
    /\ run[c] = "global"
    /\ globalFree > 0
    /\ globalFree' = globalFree - 1
    /\ run' = Set(run, c, "guild")
    /\ UNCHANGED <<callers, status, marks, memory, worker, lock, poolFree,
                   typeFree, storage, others>>

TakePool(c) ==
    /\ run[c] = "guild"
    /\ poolFree[PoolOf[c]] > 0
    /\ poolFree' = [poolFree EXCEPT ![PoolOf[c]] = @ - 1]
    /\ run' = Set(run, c, "type")
    /\ UNCHANGED <<callers, status, marks, memory, worker, lock, globalFree,
                   typeFree, storage, others>>

(* Mutant: the lock is left locked. *)
Leave_KeepsLock(c) ==
    /\ run' = Set(run, c, "done")
    /\ WorkerIdle(c)
    /\ UNCHANGED lock

(* The lane's next job may take the lock. *)
Leave(c) ==
    /\ run' = Set(run, c, "done")
    /\ lock' = Set(lock, LaneOf[c], None)
    /\ WorkerIdle(c)

(* Permits are back before the last update_job is awaited. *)
RecordThenLeave(c) ==
    IF store = "up"
    THEN run' = Set(run, c, "recording") /\ UNCHANGED <<lock, worker>>
    ELSE Leave(c)

(* Mutant: a job cancelled while it waited keeps its guild permit. *)
Drop_KeepsPool(c) ==
    /\ run[c] = "type"
    /\ typeFree[TypeOf[c]] > 0
    /\ c \in cancelReq
    /\ status' = Set(status, c, "cancelled")
    /\ globalFree' = globalFree + 1
    /\ RecordThenLeave(c)
    /\ UNCHANGED <<callers, marks, memory, poolFree, typeFree, storage, others>>

(* Mutant: a cancelled job gives two of its three permits back. *)
Drop_KeepsType(c) ==
    /\ run[c] = "type"
    /\ typeFree[TypeOf[c]] > 0
    /\ c \in cancelReq
    /\ status' = Set(status, c, "cancelled")
    /\ globalFree' = globalFree + 1
    /\ poolFree' = [poolFree EXCEPT ![PoolOf[c]] = @ + 1]
    /\ typeFree' = [typeFree EXCEPT ![TypeOf[c]] = @ - 1]
    /\ RecordThenLeave(c)
    /\ UNCHANGED <<callers, marks, memory, storage, others>>

(* The type permit, and what follows it without an await: a cancelled job gives
   its permits back, any other starts (update_job, then the factory's task). *)
Drop(c) ==
    /\ run[c] = "type"
    /\ typeFree[TypeOf[c]] > 0
    /\ c \in cancelReq
    /\ status' = Set(status, c, "cancelled")
    /\ globalFree' = globalFree + 1
    /\ poolFree' = [poolFree EXCEPT ![PoolOf[c]] = @ + 1]
    /\ RecordThenLeave(c)
    /\ UNCHANGED <<callers, marks, memory, typeFree, storage, others>>

(* Mutant: cancellation is checked when the job leaves the queue, and not again. *)
Begin_Unchecked(c) ==
    /\ run[c] = "type"
    /\ typeFree[TypeOf[c]] > 0
    /\ typeFree' = [typeFree EXCEPT ![TypeOf[c]] = @ - 1]
    /\ status' = Set(status, c, "running")
    /\ run' = Set(run, c, IF store = "up" THEN "marking" ELSE "executing")
    /\ UNCHANGED <<callers, marks, memory, worker, lock, globalFree, poolFree,
                   storage, others>>

Begin(c) ==
    /\ run[c] = "type"
    /\ typeFree[TypeOf[c]] > 0
    /\ c \notin cancelReq
    /\ typeFree' = [typeFree EXCEPT ![TypeOf[c]] = @ - 1]
    /\ status' = Set(status, c, "running")
    /\ run' = Set(run, c, IF store = "up" THEN "marking" ELSE "executing")
    /\ UNCHANGED <<callers, marks, memory, worker, lock, globalFree, poolFree,
                   storage, others>>

(* The update lands and the factory's task is created. *)
(* Mutant: a job whose mark could not be written is queued again. *)
MarkRunning_Requeued(c) ==
    /\ run[c] = "marking"
    /\ Put(Updated(c, Snapshot("running")))
    /\ run' = Set(run, c, IF faults' = faults THEN "executing" ELSE "queued")
    /\ UNCHANGED <<callers, status, marks, memory, sched, others>>

MarkRunning(c) ==
    /\ run[c] = "marking"
    /\ Put(Updated(c, Snapshot("running")))
    /\ run' = Set(run, c, "executing")
    /\ UNCHANGED <<callers, status, marks, memory, sched, others>>

(* The factory returns, raises or times out; a killed one may end cancelled. *)
End(c) ==
    /\ run[c] = "executing"
    /\ \E s \in {"finished"} \cup (IF c \in killed THEN {"cancelled"} ELSE {}) :
          status' = Set(status, c, s)
    /\ globalFree' = globalFree + 1
    /\ poolFree' = [poolFree EXCEPT ![PoolOf[c]] = @ + 1]
    /\ typeFree' = [typeFree EXCEPT ![TypeOf[c]] = @ + 1]
    /\ RecordThenLeave(c)
    /\ UNCHANGED <<callers, marks, memory, storage, others>>

Record(c) ==
    /\ run[c] = "recording"
    /\ Put(Updated(c, Snapshot(status[c])))
    /\ Leave(c)
    /\ UNCHANGED <<callers, status, marks, memory, permits, others>>

----------------------------------------------------------------------------
(* cancel and get_job_persistent *)

(* The write of a cancel() is under way, or there is nothing to write to. *)
Writes(c, image) ==
    /\ cancelling[c] = None
    /\ cancelling' = IF store = "up" THEN Set(cancelling, c, image) ELSE cancelling

(* A queued job: it will not run, says the answer. *)
CancelQueued(c) ==
    /\ tracked[c] = Live
    /\ status[c] = "queued"
    /\ status' = Set(status, c, "cancelled")
    /\ cancelReq' = cancelReq \cup {c}
    /\ told' = told \cup {c}
    /\ Writes(c, Snapshot("cancelled"))
    /\ UNCHANGED <<killed, tracked>>

(* A running one: its task, if there is one yet, is cancelled; a job that does
   not support cancellation is only annotated. *)
CancelRunning(c) ==
    /\ tracked[c] = Live
    /\ status[c] = "running"
    /\ cancelReq' = cancelReq \cup (Cancellable \cap {c})
    /\ killed' = killed \cup (IF run[c] = "executing" THEN Cancellable \cap {c} ELSE {})
    /\ Writes(c, Snapshot("running"))
    /\ UNCHANGED <<status, told, tracked>>

(* A copy of a row has no task and no part in the queue. *)
CancelCopy(c) ==
    /\ tracked[c] \notin {None, Live}
    /\ tracked[c].status \in Active
    /\ LET image == IF tracked[c].status = "queued"
                    THEN [tracked[c] EXCEPT !.status = "cancelled"] ELSE tracked[c]
       IN  /\ tracked' = Set(tracked, c, image)
           /\ told' = IF tracked[c].status = "queued" THEN told \cup {c} ELSE told
           /\ Writes(c, image)
    /\ UNCHANGED <<status, cancelReq, killed>>

Cancel(c) ==
    /\ c \in CancelTargets \ asked
    /\ asked' = asked \cup {c}
    /\ CancelQueued(c) \/ CancelRunning(c) \/ CancelCopy(c)
    /\ UNCHANGED <<callers, run, ahead, dedupe, sched, storage, pending, starting,
                   crashes>>

CancelLands(c) ==
    /\ cancelling[c] # None
    /\ Put(Updated(c, cancelling[c]))
    /\ cancelling' = Set(cancelling, c, None)
    /\ UNCHANGED <<callers, jobs, memory, sched, pending, starting, clients, crashes>>

(* get_job_persistent, and the first half of cancel, of an id not in _jobs. *)
Reattach(c) ==
    /\ tracked[c] = None
    /\ store = "up"
    /\ \/ /\ Owns(c)
          /\ tracked' = Set(tracked, c, Image(db[KeyOf[c]]))
          /\ UNCHANGED storage
       \/ /\ ReadFails
          /\ UNCHANGED tracked
    /\ UNCHANGED <<callers, jobs, dedupe, sched, others>>

----------------------------------------------------------------------------
(* The call's job exists in this process and its factory has not begun ... *)
Waits(c) ==
    \/ run[c] \in {"queued", "dropping", "locking", "global", "guild", "type"}
    \/ run[c] = "none" /\ c \in Exclusive /\ call[c] \in {"storing", "upserting"}

(* ... or not ended. *)
JobUnderWay(c) == Waits(c) \/ run[c] \in {"marking", "executing"}

(* The process dies and another starts: only the table, and what clients were
   told, outlive it. *)

Crash ==
    /\ crashes < MaxCrashes
    /\ crashes' = crashes + 1
    /\ call' = [c \in Calls |-> IF call[c] = "new" THEN "new" ELSE "lost"]
    /\ run' = [c \in Calls |-> CASE JobUnderWay(c) -> "lost"
                                [] run[c] = "recording" -> "done"
                                [] OTHER -> run[c]]
    /\ seen' = [c \in Calls |-> None]
    /\ cancelReq' = {} /\ killed' = {}
    /\ ahead' = [c \in Calls |-> {}]
    /\ tracked' = [c \in Calls |-> None]
    /\ dedupe' = [k \in Keys |-> None]
    /\ worker' = [l \in Lanes |-> "none"]
    /\ lock' = [l \in Lanes |-> None]
    /\ globalFree' = MaxGlobal
    /\ poolFree' = PoolCap
    /\ typeFree' = [t \in Types |-> MaxPerType]
    /\ store' = "up"
    /\ pending' = [c \in Calls |-> None]
    /\ cancelling' = [c \in Calls |-> None]
    /\ recon' = "idle"
    /\ doomed' = {} /\ buried' = {}
    /\ UNCHANGED <<answer, status, db, faults, clients>>

Start(c) == CallBegins(c) \/ CallReconciled(c) \/ Fetch(c)

Decide(c) ==
    DuplicateOfRow(c) \/ DuplicateInMemory(c) \/ Refuse(c) \/ Admit(c)

Store(c) == BuildRow(c) \/ StoreRow(c)

Execute(c) ==
    \/ WorkerTakes(c) \/ RecordDropped(c)
    \/ TakeLock(c) \/ TakeGlobal(c) \/ TakePool(c) \/ Drop(c) \/ Begin(c)
    \/ MarkRunning(c) \/ End(c) \/ Record(c)

Reconcile ==
    ReconcileRead \/ ReconcileEnd \/ \E c \in Calls : ReconcileWrite(c)

Next ==
    \/ \E c \in Calls : Start(c) \/ Decide(c) \/ Store(c) \/ Execute(c)
    \/ \E c \in Calls : Cancel(c) \/ CancelLands(c) \/ Reattach(c)
    \/ \E l \in Lanes : WorkerRetires(l)
    \/ \E k \in Keys : DedupeExpires(k) \/ LeaseLapses(k)
    \/ ReconcileStart \/ Reconcile
    \/ StoreRetried
    \/ Crash

Spec == Init /\ [][Next]_vars

(* Ready callbacks and threads run; a factory ends, if need be by its timeout;
   a waiter of a lock or of a semaphore is not passed over for ever (asyncio
   wakes them in order).  Clients need not call or cancel, nothing need expire
   and no database call need fail. *)
Fairness ==
    /\ WF_vars(Reconcile)
    /\ \A c \in Calls :
          /\ WF_vars(CallReconciled(c) \/ Fetch(c) \/ Decide(c) \/ Store(c))
          /\ SF_vars(Execute(c))
          /\ WF_vars(CancelLands(c))

FairSpec == Spec /\ Fairness

----------------------------------------------------------------------------
(* Properties *)

OfPool(p) == {c \in Calls : PoolOf[c] = p}
OfType(t) == {c \in Calls : TypeOf[c] = t}
Holders(members, steps) == {c \in members : run[c] \in steps}

(* Every permit taken is given back on every path: returned, failed, timed out,
   cancelled in the queue, cancelled while waiting.  A leak would starve the
   pool silently, long after its cause. *)
PermitsBalanced ==
    /\ globalFree + Cardinality(Holders(Calls, HasGlobal)) = MaxGlobal
    /\ \A p \in Pools : poolFree[p] + Cardinality(Holders(OfPool(p), HasPool)) = PoolCap[p]
    /\ \A t \in Types : typeFree[t] + Cardinality(Holders(OfType(t), HasType)) = MaxPerType

(* The abstract promise: once per key as long as the database answers, one per
   lane, within the caps, whatever fails. *)
PhaseOf(c) ==
    CASE Waits(c) -> "waiting"
      [] run[c] \in {"marking", "executing"} -> "executing"
      [] run[c] \in {"recording", "done"} -> "over"
      [] run[c] = "lost" -> "lost"
      [] OTHER -> "none"

Phase == [c \in Calls |-> PhaseOf(c)]

Degraded == faults > 0

Promise == INSTANCE OperationPromise WITH phase <- Phase, degraded <- Degraded

PromiseKept == Promise!Spec

(* "Operation was cancelled before execution.": a job whose cancel() got this
   answer never runs, wherever it was when it was cancelled: in the queue, at
   the lane's lock or at a semaphore. *)
CancelledNeverRuns ==
    \A c \in told : run[c] \notin {"marking", "executing"}

(* Every admitted job gets its lock and its permits in the end, and is over: no
   order of arrivals, cancellations and ends blocks a lane.  A call admits one
   job, so all have ended when again and again none is under way. *)
AdmittedJobsEnd == []<>(\A c \in Calls : ~ JobUnderWay(c))

(* Jobs of this process. *)
Ours(c) == call[c] \notin {"new", "lost"}

(* "Expire jobs a previous process left active ... instead of showing a
   forever-running job": once the process has reconciled, which it does once,
   no row of a dead process is active with its lease in the past or without one. *)
NoForeverRunning ==
    recon = "done" =>
        \A k \in Keys : (db[k] # None /\ ShouldExpire(db[k])) => Ours(db[k].id)

(* "Operation was left active by a previous bot process": no row is marked so
   that is not of a previous process. *)
OnlyDeadJobsExpire ==
    \A k \in Keys : (db[k] # None /\ db[k].status = "expired") => ~ Ours(db[k].id)

(* "lets the dashboard submit a fresh, idempotent operation": a call is not
   answered "duplicate" for a job of a dead process that a restart has expired. *)
ExpiredMayBeResubmitted ==
    \A c \in Calls :
        (answer[c] = "duplicate" /\ seen[c] # None /\ seen[c].status = "expired")
            => Ours(seen[c].id)

(* "persistent job status": the row of a job that is over ends up saying so. *)
RowsSettle ==
    \A c \in Calls :
        (run[c] = "done" /\ Owns(c)) ~>
            (Owns(c) => db[KeyOf[c]].status \notin Active)
=============================================================================
