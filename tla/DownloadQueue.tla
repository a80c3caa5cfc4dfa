---------------------------- MODULE DownloadQueue ----------------------------
(***************************************************************************)
(* The durable intake queue of the Share Router download channels          *)
(* (stoney_verify/share_router_download_queue.py): one SQLite table of     *)
(* message IDs, written by the gateway listener, and a pool of asyncio     *)
(* workers that claim rows, deliver the media and delete the row.          *)
(*                                                                         *)
(* Every SQLite transaction (BEGIN IMMEDIATE ... commit, in a thread) is   *)
(* one step; the event-loop code before and after an await is a step of    *)
(* its own, so another worker, the gateway, a second on_ready or a crash   *)
(* can come between any two of them.                                       *)
(***************************************************************************)
EXTENDS Naturals, FiniteSets

CONSTANTS
    Messages,       \* Discord messages posted in a download channel
    GuildOf,        \* [Messages -> Guilds]
    MemberOf,       \* [Messages -> authors]
    NoGuild,        \* _LAST_GUILD_ID = ""
    NoMessage,      \* no job
    Starters,       \* calls of start_download_workers (one per READY event)
    NoStarter,      \* _WORKERS empty or finished
    MaxWorkers,     \* MAX_WORKERS
    MaxPendingTotal,    \* MAX_PENDING_TOTAL
    MaxPendingPerGuild, \* MAX_PENDING_PER_GUILD
    MaxCrashes,     \* bound on process crashes
    MaxFaults       \* bound on SQLite errors

Guilds  == {GuildOf[m] : m \in Messages}
Workers == Starters \X (1..MaxWorkers)

ASSUME QueueAssumptions ==
    /\ GuildOf \in [Messages -> Guilds]
    /\ NoMessage \notin Messages
    /\ NoStarter \notin Starters
    /\ NoGuild \notin Guilds
    /\ MaxWorkers \in Nat
    /\ MaxPendingTotal \in Nat /\ MaxPendingPerGuild \in Nat
    /\ MaxCrashes \in Nat /\ MaxFaults \in Nat

VARIABLES
    row,        \* [Messages -> Rows]: status column, "absent" when there is no row
    older,      \* [Messages -> SUBSET Messages]: rows created before this one
    stale,      \* queued rows past MAX_QUEUED_AGE_SECONDS
    up,         \* the bot process is running
    last,       \* _LAST_GUILD_ID
    pool,       \* the starter whose workers are in _WORKERS
    starter,    \* [Starters -> where its start_download_workers call is]
    pc,         \* [Workers -> where the worker's loop is]
    job,        \* [Workers -> the DownloadJob it holds]
    prev,       \* [Workers -> the _LAST_GUILD_ID it passed to _claim_next]
    orphans,    \* workers whose row a later start's recovery has deleted
    sends,      \* [Messages -> Nat]: deliveries of the message's latest row (history)
    crashes, faults

table   == <<row, older, stale>>
workers == <<pc, job, prev, orphans>>
bounds  == <<crashes, faults>>
vars    == <<row, older, stale, up, last, pool, starter, pc, job, prev, orphans,
             sends, crashes, faults>>

Rows         == {"absent", "queued", "running"}
StarterSteps == {"new", "recovering", "recovered", "done", "failed"}
BusySteps    == {"claimed", "checking", "delivering", "completing"}
WorkerSteps  == BusySteps \cup {"absent", "idle", "claiming", "backoff"}

TypeOK ==
    /\ row \in [Messages -> Rows]
    /\ older \in [Messages -> SUBSET Messages]
    /\ stale \in SUBSET Messages
    /\ up \in BOOLEAN
    /\ last \in Guilds \cup {NoGuild}
    /\ pool \in Starters \cup {NoStarter}
    /\ starter \in [Starters -> StarterSteps]
    /\ pc \in [Workers -> WorkerSteps]
    /\ job \in [Workers -> Messages \cup {NoMessage}]
    /\ prev \in [Workers -> Guilds \cup {NoGuild}]
    /\ orphans \in SUBSET Workers
    /\ sends \in [Messages -> Nat]
    /\ crashes \in 0..MaxCrashes
    /\ faults \in 0..MaxFaults

Init ==
    /\ row = [m \in Messages |-> "absent"]
    /\ older = [m \in Messages |-> {}]
    /\ stale = {}
    /\ up = TRUE
    /\ last = NoGuild
    /\ pool = NoStarter
    /\ starter = [s \in Starters |-> "new"]
    /\ pc = [w \in Workers |-> "absent"]
    /\ job = [w \in Workers |-> NoMessage]
    /\ prev = [w \in Workers |-> NoGuild]
    /\ orphans = {}
    /\ sends = [m \in Messages |-> 0]
    /\ crashes = 0
    /\ faults = 0

----------------------------------------------------------------------------
(* The table *)

Outstanding == {m \in Messages : row[m] # "absent"}

RowWithout(gone) == [m \in Messages |-> IF m \in gone THEN "absent" ELSE row[m]]
OlderWithout(gone) ==
    [m \in Messages |-> IF m \in gone THEN {} ELSE older[m] \ gone]

(* DELETE ... WHERE: the row set loses "gone". *)
Delete(gone) ==
    /\ row' = RowWithout(gone)
    /\ older' = OlderWithout(gone)
    /\ stale' = stale \ gone

----------------------------------------------------------------------------
(* _submit: stale rows go, then the admission checks over what is left.    *)

Admissible(m) ==
    LET live == Outstanding \ stale
        sameGuild == {n \in live : GuildOf[n] = GuildOf[m]}
    IN  /\ m \notin live                                       \* "duplicate"
        /\ \A n \in sameGuild : MemberOf[n] # MemberOf[m]      \* "member_busy"
        /\ Cardinality(live) < MaxPendingTotal                 \* "full"
        /\ Cardinality(sameGuild) < MaxPendingPerGuild         \* "guild_full"

SubmitQueued(m) ==
    /\ up
    /\ Admissible(m)
    /\ row' = [RowWithout(stale) EXCEPT ![m] = "queued"]
    /\ older' = [OlderWithout(stale) EXCEPT ![m] = Outstanding \ stale]
    /\ stale' = {}
    /\ sends' = [sends EXCEPT ![m] = 0]
    /\ UNCHANGED <<up, last, pool, starter, workers, bounds>>

SubmitRejected(m) ==
    /\ up
    /\ ~ Admissible(m)
    /\ Delete(stale)
    /\ UNCHANGED <<up, last, pool, starter, workers, sends, bounds>>

(* A queued row passes six hours; every row created before it has, too.    *)
Age(m) ==
    /\ row[m] = "queued"
    /\ stale' = stale \cup {n \in {m} \cup older[m] : row[n] = "queued"}
    /\ UNCHANGED <<row, older, up, last, pool, starter, workers, sends, bounds>>

----------------------------------------------------------------------------
(* start_download_workers: two guards on _WORKERS, then an await on the    *)
(* recovery transaction, then the spawn, with the guards not repeated.     *)

StartCalled(s) ==
    /\ up
    /\ starter[s] \in {"new", "failed"}
    /\ pool = NoStarter
    /\ starter' = [starter EXCEPT ![s] = "recovering"]
    /\ UNCHANGED <<table, up, last, pool, workers, sends, bounds>>

(* Mutant: interrupted rows are queued again instead of dropped. *)
Recover_Requeues(s) ==
    /\ starter[s] = "recovering"
    /\ row' = [m \in Messages |-> IF row[m] = "running" THEN "queued" ELSE row[m]]
    /\ starter' = [starter EXCEPT ![s] = "recovered"]
    /\ UNCHANGED <<older, stale, up, last, pool, workers, sends, bounds>>

(* _recover_interrupted.  Were workers of another start already busy, their
   rows would go, too. *)
Recover(s) ==
    /\ starter[s] = "recovering"
    /\ Delete({m \in Messages : row[m] = "running"} \cup stale)
    /\ orphans' = {w \in Workers : pc[w] \in BusySteps}
    /\ starter' = [starter EXCEPT ![s] = "recovered"]
    /\ UNCHANGED <<up, last, pool, pc, job, prev, sends, bounds>>

(* SQLite refuses: the call returns.  Nothing retries it; only another READY,
   which need not come, calls start_download_workers again. *)
RecoverFails(s) ==
    /\ starter[s] = "recovering"
    /\ faults < MaxFaults
    /\ faults' = faults + 1
    /\ starter' = [starter EXCEPT ![s] = "failed"]
    /\ UNCHANGED <<table, up, last, pool, workers, sends, crashes>>

Spawn(s) ==
    /\ starter[s] = "recovered"
    /\ starter' = [starter EXCEPT ![s] = "done"]
    /\ last' = NoGuild
    /\ pool' = s
    /\ pc' = [w \in Workers |-> IF w[1] = s THEN "idle" ELSE pc[w]]
    /\ UNCHANGED <<table, up, job, prev, orphans, sends, bounds>>

----------------------------------------------------------------------------
(* _worker *)

Goto(w, step) == pc' = [pc EXCEPT ![w] = step]

(* asyncio.to_thread(_claim_next, _LAST_GUILD_ID): the argument is read here. *)
CallClaim(w) ==
    /\ pc[w] = "idle"
    /\ prev' = [prev EXCEPT ![w] = last]
    /\ Goto(w, "claiming")
    /\ UNCHANGED <<table, up, last, pool, starter, job, orphans, sends, bounds>>

(* Mutant: the NOT EXISTS subquery on running rows is dropped. *)
Eligible_AnyGuild == {m \in Messages : row[m] = "queued" /\ m \notin stale}

(* Queued, not stale, and no running row in the guild. *)
Eligible ==
    {m \in Messages :
        /\ row[m] = "queued"
        /\ m \notin stale
        /\ \A n \in Messages : GuildOf[n] = GuildOf[m] => row[n] # "running"}

(* Mutant: THEN 0 ELSE 1, the previous guild first. *)
Precedes_SameGuildFirst(m, n, previous) ==
    \/ GuildOf[m] = previous /\ GuildOf[n] # previous
    \/ /\ (GuildOf[m] = previous) <=> (GuildOf[n] = previous)
       /\ m \in older[n]

(* ORDER BY CASE WHEN guild_id = previous THEN 1 ELSE 0 END, created_at, id *)
Precedes(m, n, previous) ==
    \/ GuildOf[m] # previous /\ GuildOf[n] = previous
    \/ /\ (GuildOf[m] = previous) <=> (GuildOf[n] = previous)
       /\ m \in older[n]

(* _claim_next found a row and committed status='running'. *)
Claim(w) ==
    /\ pc[w] = "claiming"
    /\ \E m \in Eligible :
          /\ \A n \in Eligible \ {m} : Precedes(m, n, prev[w])
          /\ row' = [RowWithout(stale) EXCEPT ![m] = "running"]
          /\ job' = [job EXCEPT ![w] = m]
    /\ older' = OlderWithout(stale)
    /\ stale' = {}
    /\ Goto(w, "claimed")
    /\ UNCHANGED <<up, last, pool, starter, prev, orphans, sends, bounds>>

(* _claim_next returned None: the worker sleeps and asks again. *)
ClaimNothing(w) ==
    /\ pc[w] = "claiming"
    /\ Eligible = {}
    /\ Delete(stale)
    /\ Goto(w, "idle")
    /\ UNCHANGED <<up, last, pool, starter, job, prev, orphans, sends, bounds>>

(* SQLite refuses the claim: outer except, sleep(10). *)
ClaimFails(w) ==
    /\ pc[w] = "claiming"
    /\ faults < MaxFaults
    /\ faults' = faults + 1
    /\ Goto(w, "backoff")
    /\ UNCHANGED <<table, up, last, pool, starter, job, prev, orphans, sends, crashes>>

(* Mutant: the message's ID is kept instead of its guild's. *)
TakeJob_MessageId(w) ==
    /\ pc[w] = "claimed"
    /\ last' = job[w]
    /\ Goto(w, "checking")
    /\ UNCHANGED <<table, up, pool, starter, job, prev, orphans, sends, bounds>>

(* Back on the event loop: _LAST_GUILD_ID = job.guild_id. *)
TakeJob(w) ==
    /\ pc[w] = "claimed"
    /\ last' = GuildOf[job[w]]
    /\ Goto(w, "checking")
    /\ UNCHANGED <<table, up, pool, starter, job, prev, orphans, sends, bounds>>

(* _process_job: the saved channel, the message and the member are looked up
   again; any of them missing or changed, or any exception, ends it. *)
CheckPasses(w) ==
    /\ pc[w] = "checking"
    /\ Goto(w, "delivering")
    /\ UNCHANGED <<table, up, last, pool, starter, job, prev, orphans, sends, bounds>>

CheckStops(w) ==
    /\ pc[w] = "checking"
    /\ Goto(w, "completing")
    /\ UNCHANGED <<table, up, last, pool, starter, job, prev, orphans, sends, bounds>>

(* handle_download_message delivers, or gives up or raises without delivering. *)
Deliver(w) ==
    /\ pc[w] = "delivering"
    /\ sends' = [sends EXCEPT ![job[w]] = @ + 1]
    /\ Goto(w, "completing")
    /\ UNCHANGED <<table, up, last, pool, starter, job, prev, orphans, bounds>>

DeliverNothing(w) ==
    /\ pc[w] = "delivering"
    /\ Goto(w, "completing")
    /\ UNCHANGED <<table, up, last, pool, starter, job, prev, orphans, sends, bounds>>

(* finally: shield(to_thread(_complete, job.id)).  The DELETE names the row id,
   which AUTOINCREMENT never reuses: an orphan's finds nothing. *)
Complete(w) ==
    /\ pc[w] = "completing"
    /\ Delete(IF w \in orphans THEN {} ELSE {job[w]})
    /\ orphans' = orphans \ {w}
    /\ job' = [job EXCEPT ![w] = NoMessage]
    /\ Goto(w, "idle")
    /\ UNCHANGED <<up, last, pool, starter, prev, sends, bounds>>

(* SQLite refuses the delete: the row keeps status 'running'. *)
CompleteFails(w) ==
    /\ pc[w] = "completing"
    /\ faults < MaxFaults
    /\ faults' = faults + 1
    /\ orphans' = orphans \ {w}
    /\ job' = [job EXCEPT ![w] = NoMessage]
    /\ Goto(w, "backoff")
    /\ UNCHANGED <<table, up, last, pool, starter, prev, sends, crashes>>

WakeUp(w) ==
    /\ pc[w] = "backoff"
    /\ Goto(w, "idle")
    /\ UNCHANGED <<table, up, last, pool, starter, job, prev, orphans, sends, bounds>>

----------------------------------------------------------------------------
(* The process dies between any two steps; only the table survives.        *)

Crash ==
    /\ up
    /\ crashes < MaxCrashes
    /\ crashes' = crashes + 1
    /\ up' = FALSE
    /\ last' = NoGuild
    /\ pool' = NoStarter
    /\ starter' = [s \in Starters |-> "new"]
    /\ pc' = [w \in Workers |-> "absent"]
    /\ job' = [w \in Workers |-> NoMessage]
    /\ prev' = [w \in Workers |-> NoGuild]
    /\ orphans' = {}
    /\ UNCHANGED <<table, sends, faults>>

Boot ==
    /\ ~ up
    /\ up' = TRUE
    /\ UNCHANGED <<table, last, pool, starter, workers, sends, bounds>>

Gateway == \E m \in Messages : SubmitQueued(m) \/ SubmitRejected(m)

Start(s) == StartCalled(s) \/ Recover(s) \/ RecoverFails(s) \/ Spawn(s)

Worker(w) ==
    \/ CallClaim(w) \/ Claim(w) \/ ClaimNothing(w) \/ ClaimFails(w)
    \/ TakeJob(w) \/ CheckPasses(w) \/ CheckStops(w)
    \/ Deliver(w) \/ DeliverNothing(w)
    \/ Complete(w) \/ CompleteFails(w) \/ WakeUp(w)

Next ==
    \/ Gateway
    \/ \E m \in Messages : Age(m)
    \/ \E s \in Starters : Start(s)
    \/ \E w \in Workers : Worker(w)
    \/ Crash
    \/ Boot

Spec == Init /\ [][Next]_vars

(* Tasks and threads that can run do run (asyncio schedules every ready
   callback, _process_job is bounded by the downloader's time limits), the host
   restarts a dead bot and Discord sends READY to a bot that connects.  A READY
   after a failed recovery may come or not, and nobody is forced to post, to
   wait six hours, or to fail. *)
Fairness ==
    /\ WF_vars(Boot)
    /\ \A s \in Starters : WF_vars(starter[s] # "failed" /\ Start(s))
    /\ \A w \in Workers : WF_vars(Worker(w))

FairSpec == Spec /\ Fairness

----------------------------------------------------------------------------
(* Properties *)

Busy(w) == pc[w] \in BusySteps

(* Two workers never hold requests of the same guild: "Each guild runs at most
   one active download, so one server cannot occupy both available workers"
   (docs/share-router-download-scaling.md).  The table alone does not give it:
   a worker between its claim and its delete must still own a running row. *)
OneActivePerGuild ==
    \A v, w \in Workers :
        (v # w /\ Busy(v) /\ Busy(w)) => GuildOf[job[v]] # GuildOf[job[w]]

(* A running row nobody works on: its delete failed, or its process died. *)
Stuck(m) ==
    /\ row[m] = "running"
    /\ \A w \in Workers : job[w] # m

(* Every recovery tried since the process started failed: it has no workers,
   and none are due. *)
Unserved == pool = NoStarter /\ \A s \in Starters : starter[s] = "failed"

(* A queued request is eventually claimed, however the other guilds keep
   posting, unless it grows too old first, a row of its own guild is stuck, or
   the process has no workers because its recovery failed; and one that has
   grown too old is eventually dropped even beside a stuck row.  This is the
   fairness across guilds of _claim_next's ORDER BY, and the purge every
   transaction of the queue begins with. *)
RequestsAreResolved ==
    \A m \in Messages :
        /\ (row[m] = "queued" /\ m \notin stale) ~>
              \/ row[m] # "queued" \/ m \in stale \/ Unserved
              \/ \E n \in Messages : GuildOf[n] = GuildOf[m] /\ Stuck(n)
        /\ (m \in stale) ~> (m \notin stale \/ Unserved)

(* The abstract promise, read off the table: what the requester may rely on. *)
Promise ==
    INSTANCE DownloadPromise WITH
        phase <- [m \in Messages |->
                    CASE row[m] = "absent" -> "none"
                      [] row[m] = "running" -> "started"
                      [] row[m] = "queued" /\ m \in stale -> "late"
                      [] OTHER -> "waiting"],
        sent  <- sends

PromiseKept == Promise!Spec
==============================================================================
