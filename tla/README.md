# A TLA+ verification of Dank Shield

Dank Shield is a multi-guild Discord bot: one asyncio process (sharded, with
worker threads for blocking calls), a Supabase/Postgres database reached over
HTTP, a few local SQLite files, and a dashboard API served by the same process.
This directory holds TLA+ models of the parts whose correctness depends on
order, failure and restart, TLC configurations that check them, and proofs
that TLAPS checks. `PROJECT.json` ties every definition to the source lines it
models.

## 1. Inventory

Paths are relative to `stoney_verify/` unless they say otherwise.

| Component | State it keeps | Operations | Interacts through |
|---|---|---|---|
| Download queue (`share_router_download_queue.py`) | SQLite table of message IDs with a status; `_WORKERS`, `_LAST_GUILD_ID` | admit, claim, process, complete, recover, start workers | gateway listener, `on_ready`, media pipeline, threads |
| Operation queue (`operation_queue.py`) | jobs, idempotency keys, queues, workers, locks, semaphores; table `bot_operation_jobs` | `submit`, `run_exclusive`, workers, `cancel`, `reconcile_startup`, persistence | every mutating command, dashboard API, channel builder |
| Runtime jobs (`runtime_jobs.py`) | a bounded queue, a worker and active deduplication keys per key | enqueue, worker loop, shutdown | global semaphore |
| Startup recovery (`startup_recovery_coordinator.py`) | reference-counted slot per guild | `run` under a guild lock and a global semaphore | recovery routines at `on_ready` |
| Embed schedules (`embed_studio_schedules.py`, `..._runtime.py`, SQL `202610200030`) | a row per one-shot post, with status and time | enqueue, cancel, claim due, dispatch, finish | a polling task per process, a claiming SQL function, Discord |
| Recurring campaigns (`embed_studio_campaigns.py`, SQL `202611050001`) | a row per campaign: next time, number of claims, last claim and status | enqueue (behind a quota trigger), cancel, claim, finish | the posts' polling task and dispatch |
| Birthdays (`birthday_runtime.py`, SQL `202611040001`) | delivery rows per guild, member, year | claim, announce, finish | hourly task |
| Ticket numbers (`tickets_new/counter_allocator.py`, SQL `202610200004`) | a counter row per guild | seed, RPC, compare-and-swap fallback | ticket creation |
| Tickets (`tickets_new/`, `ticket_events.py`) | ticket rows and channels, a mutation lock per channel, the override's lock | create, claim, unclaim, transfer, annotate, close, reopen, delete, emergency override, synchronise, sweep | allocator, claim policy, transcripts, gateway events |
| Verification reminders, Action Center | due rows, delivery reservations (Postgres) | select, reserve, send, record | periodic tasks |
| Database-queue workers (`workers/`) | command rows | poll, claim, run, finish | dashboard |
| Guild configuration (`guild_config.py`, SQL `202610280003`) | a JSON row and a cache per guild, its history | load, patch, undo | almost everything |
| Community Hub sessions (SQL `202610200016`, `community_hub_service.py`) | session rows with state, host and privacy; member rows with role and ready mark | create, restart, quick match, join, leave, ready check, transitions, roles, finalise, prune | one stored function each, called from buttons and from the maintenance loop |
| Community Hub rooms (`community_hub_runtime.py`, `commands_ext/public_community_hub.py`) | a resource row per room, `_cleanup_tasks`, `_voice_sessions`, locks per session | provision, publish, schedule and cancel the cleanup, clean up, recover at startup, expire | operation queue, Discord channels, audit log, `on_ready` |
| Protection (`anti_nuke*.py`, `raidguard.py`, `spam_guard*.py`) | sliding windows, incidents | observe, contain, release | gateway events |
| Presentation, cards, setup dialogues, commands, tools | none beyond a message | render, ask | the services above |

What is hard here, and hard to test:

* the event loop interleaves handlers at every `await`, and state read before
  one is used after it (`start_download_workers`, `reconcile_startup`, `submit`);
* database calls run in threads, so a write can land after a later one, and
  what a read returned may be old;
* the process may die between an external effect (a DM, a channel edit) and
  its record, and its successor has only the tables;
* permits and locks must come back on the cancelled, failed and timed-out path;
* one guild must not starve another, and one job must not block a lane.

`PROJECT.json` lists these hazards at their lines, with the properties that
cover them, and says for each of the others why none does.

## 2. Plan

1. `DownloadQueue` with its abstract specification `DownloadPromise`, runs and
   proofs (done).
2. `OperationQueue` with `OperationPromise`, runs and proofs (done).
3. `RuntimeJobs`: no loss of a permit or a deduplication key when a worker is
   cancelled at its semaphore; keys make progress. Abstract specification: one
   job per deduplication key.
4. `StartupRecovery`: slots are removed only when unused, one recovery per guild.
5. `EmbedStudio` with `StudioPromise`, run and proofs (done): one-shot posts and campaigns published at most
   once by several processes across timeouts and restarts, nothing overdue for ever.
6. `TicketCounter`: unique numbers of concurrent allocations by the RPC and by the
   compare-and-swap fallback, runs and proofs (done).
7. `HubRoster` and `HubResources`, runs and proofs (done): who is in a session, and
   what becomes of its rooms.
8. `TicketLifecycle`, run and proofs (done): who may change a ticket's row, and what
   becomes of it when its channel is gone.
9. `GuildConfigStore`, `BirthdayDeliveries`, reminders and delivery reservations.

Every module takes its sets and limits as constants with a named assumption, has
one action per stretch between two awaits, and uses no recursive operator, so
the same text is checked by TLC and reasoned about by TLAPS.

## 3. Modules

### DownloadPromise, DownloadQueue, DownloadQueueProofs

The Share Router copies media posted in a download channel to the poster's DMs.
The gateway listener puts the message's ID into a SQLite queue; two worker tasks
claim rows, take turns between guilds, re-check the message and its author,
deliver, and delete the row.

Each SQLite transaction is one action (`SubmitQueued`, `SubmitRejected`, `Claim`,
`ClaimNothing`, `Complete`, `Recover`), because each runs in one `BEGIN
IMMEDIATE` transaction in a thread; the code between two awaits is another
(`CallClaim` reads `_LAST_GUILD_ID`, `TakeJob` writes it). `created_at` and the
autoincremented ID are abstracted to the order of rows (`older`), six hours of
age to a set (`stale`) that grows from the oldest row. The delivery itself is one
step that sends or does not. A crash keeps the table only.

`DownloadPromise` is what the requester may rely on: a request waits, is started
at most once, is sent at most once, and no two requests of one guild are
started at a time. `PromiseKept` says that the queue implements it, with the phase
of a request read off its row.

### OperationPromise, OperationQueue, OperationQueueProofs

Operations enter by `submit`, which queues them for the worker of their
concurrency key, or by `run_exclusive`, whose caller runs them; both take the
key's lock, then a global, a guild and a type permit. A row per operation,
unique per guild and idempotency key, makes repeated requests duplicates.

A call and its job have one name. `call` follows `submit`/`run_exclusive` from the
reconciliation through `fetch_duplicate` to the row's upsert, and `run` follows the
job from the queue to its last update; for a queued job the two run concurrently.
A database call made at one step lands at a later one (`Fetch`, `StoreRow`,
`MarkRunning`, `Record`, `CancelLands`, `ReconcileWrite`), with the row image that
was built when the call was made, so older images may overwrite newer ones.
`tracked` distinguishes the job object from a copy made from its row, since
`cancel` acts on whichever `_jobs` holds. A failed database call may or may not
have reached the table, and turns persistence off for good or for 90 seconds.

Two details are wider in the model than in asyncio: a free lock or semaphore may be
taken by a newcomer before a woken waiter, and acquiring without waiting is still
a step. Both add behaviours only. Payloads, results, statistics and the audit insert
do not influence control and are left out; `succeeded`, `partial` and `failed` are
one status, and a result that names another terminal status is, too.

`OperationPromise` states the outcome: per idempotency key at most one operation
under way until a call of the database has failed (`degraded`), per concurrency key at most one executing, and no more executing
than the bot, the guild's pool and the type allow, whatever fails.

### TicketCounter, TicketCounterProofs

`reserve_next_ticket_number` gives a guild's next ticket its number. Under the
guild's asyncio lock (`Begin`) it scans the channels, then a thread runs
`_reserve_number_sync`: seed the counter to what rows and channels show
(`ReadHistory`, `ReadCounter`, `SeedInsert`, `SeedRaise`, `SeedReread`), call the
`reserve_ticket_number` function (`RpcReads`, `RpcCommits`: in Postgres it reads the
history before it locks the counter's row), and when that raises, compare and swap
(`TryRead`, `TrySwap`, `GiveUp`). `pc` is the next database statement of a call,
one action each, since statements of two threads or processes interleave between them.

A read that fails gives the default with which the code swallows the error: zero for
the history, "no row" for the counter. A write that fails may have happened. The
retries of `_execute_db_op` do not appear: everything under them catches its own
errors but for `GiveUp`, whose message is not one it retries. `Abandon` is the
caller's cancellation or its process's restart: the lock is free, the thread goes
on, and its number goes to nobody.

`history` and `channels` are what the allocator reads of the rest of the bot: a
number's channel is opened, its row is stored, its channel is deleted
(`create_ticket_channel` in `tickets_new/service.py`, and any deletion later), and each
may fail, so that a number may leave no trace but the counter. Rows stay:
`delete_ticket_row` has no caller. Channel names are abstracted to their number.
An update's returned rows are modelled as the code uses them: those it changed.

### HubRoster, HubRosterProofs

A Community Hub session is a row with a state, a host and a privacy, and a row per
member with a role and a ready mark. All of it is changed by stored functions, each
one transaction under the session's row lock (and the guild's, where it counts
sessions; `clear_stale_ready`, one statement, takes members' rows first): each is one action, with its refusals as guards. `role` is `"none"` when
there is no member row or `left_at` is set. `Found` is the insertion that `Create`,
`Restart` ("Play Again") and `QuickMatchClaim` share. `Leave` does what
`community_hub_leave_session` does in one go: the successor of a leaving host, the
promotion from the waitlist, the ready marks, the state. `Moves` is the transition
table of `community_hub_transition_session`. `joined_at`, which only orders
candidates, is left out: any candidate may be the first. So are the cooldowns,
hourly limits and maintenance mode, which only refuse. `StaffOverride` is the
authority the bot and moderators have over every session.

### HubResources, HubResourcesProofs

The life of one session in the bot's process. `prov` is where `provision_session`
is: panel, then for each room plan the row (`Plan`), make the channel (`Make`), record
its ID (`Keep`), then `Publish`. `calls` are handlers that have changed the session in
the database and have yet to schedule or cancel its cleanup (`FollowUp`); `task` is the
one task per session of `_cleanup_tasks`, with the grace period, the second look at the
members and the state (`CheckMembers`, `CheckState`, `CommitEnd`), the listing of the
rows, the removal of each room and its record, and `Finalize`. `boot` is
`_reconcile_startup`: recover rooms from their rows and from the audit log, then
resume ending sessions and end orphans. Discord's cache does not hold archived threads, so
`FindKnown` tells a cached room from a fetched one.

Every call may fail once it is made, with its effect or without, the operation
queue's timeout may stop `provision_session` anywhere, and a crash keeps only the
rows and what is on Discord. `state` is that of `HubRoster` with everything from open to
paused as `"live"`, and `present` says whether it has participants. A failing
database write during provisioning counts as one that did not happen; when its answer
is lost instead it is a `Keep` that worked. The failing mark of an unproven row, cards,
captions and metrics are left out. `lost` is a ghost: the session is ending and
the last one at work on it is gone (`Abandons`).

### TicketLifecycle, TicketLifecycleProofs

One ticket: its row, of which `status` and the claimant matter, its channel, and everybody
who writes the row. `tickets_new/service.py` holds the ticket's mutation lock (`mutex`) while
it claims, unclaims, transfers, annotates (a priority or a note), closes, reopens or marks
deleted. Without that lock write the channel synchroniser (`sync`), the updates of names and panel
messages (`touch`), the guild owner's emergency override, which has a lock of its own
(`etransfer`, `eunclaim`, `edelete`; its close is the service's), the cleanup after a departed
member (`departed`) and `ticket_events.py` when the channel is gone (`external` for the
event, `Sweep` for the periodic search).

A call reads the row and decides (`Decide`: the checks of `service.py` and
`claim_policy.py`, `Proceeds` and `Allowed`), enters a function of `repository.py`, which reads it
again and may find nothing to do (`Guard`, `Needed`), and then `update_ticket_by_channel_id`, which
reads it a third time, fits the patch to what it read (`Prepare`: `Rejected`, `Prepared`) and
sends it by id (`Write`). `NextOps` is what follows: the name and activity updates after a close,
the deletion after an external close, the override's further attempts. Each update
carries a status, the one its reader saw if it asks for none, and the claimant it saw;
that is how `_prepare_ticket_update` builds it. The synchroniser's patch (`Synced`) is the row it read, closed if
its channel looks closed, with a claimant guessed from recent messages where the row has none; the guess is any of the staff, and the
functions that ask "who is assigned" see it. `mark_ticket_closed` and `mark_ticket_deleted` being
two writes, a vanished channel needs both.

The sweep covers a ticket (`Swept`) unless it is a ghost or its row has no channel's ID
(`ticket_events.py:604-612`): `GoneIsDeleted` is about the covered ones. Any other whose channel goes while a write fails
stays open or claimed. With `Swept` false the module is the ticket without a sweep, for which the safety theorems hold too.

A failed read is taken as a missing row; a failed write may have happened; the deletion
flow may stop waiting for its write (`Abandon`), which may then land later (`LateWrite`), and so
may whatever was sent before a restart. `disturbed` is a history variable: the row has
changed, by a writer without the lock, since the lock's holder decided. Left out: names,
permissions and the move to the archive, transcripts (a close or a deletion goes on
without one), the requester's identity checks, and creation, whose number `TicketCounter`
is about.

### StudioPromise, EmbedStudio, EmbedStudioProofs

What Embed Studio publishes without anybody at the keyboard: posts scheduled once and recurring
campaigns of one guild. Both live in a table, and each process runs one loop that claims
due posts (`dank_embed_studio_claim_due`), sends them, claims due campaigns
(`dank_embed_studio_claim_campaigns`) and sends those. A row that may still be claimed is `waiting`: a
post that is 'pending', a campaign that is enabled. A post is a campaign of one send.

A claim is a transaction: `ClaimBegins` selects the rows that are too late and the rows that are due
and locks them (`for update skip locked`, the oldest first, up to a limit), `ClaimCommits` stores what
becomes of them. Between the two another process may claim what is not locked, staff cannot
cancel what is. `claimed_count` numbers a campaign's claims, so the pair of row and number
(`Occurrences`) stands for `last_claim_id`. `AtLeisure` is the `gather` at the end of each batch: a
process claims again when it has nothing in hand.

Every call in this code has a timeout after which its caller goes on while the call may still take
effect. So an insert (`Ask`, then `InsertPost`, or `QuotaCounts` and `InsertCampaign`), a claim
(`AnswerIsLost`), a send (`wire`, `Deliver`) and the write of a result (`writes`, `Written`) are
each a request and, later, an effect; a request that is lost never leaves its set. `_dispatch` refuses
(`Refuse`), sends (`Send`) and is answered, rejected or times out. A process that dies (`Crash`)
loses what it has in hand, and the transaction it waited for commits without it or is rolled back (`RollsBack`).

The semaphore of two only delays a send and is left out, like the draft's content and what
discord.py does inside one `send`. Civil time is the set of instants at which a campaign's clock
strikes (`Fires`), `NextFire` the first of them after a given one. The claim of an occurrence uses the
time its transaction began (Postgres's `now()`), which is `t.time`.

`StudioPromise` is what staff may rely on, a row at a time: a row is asked for, open from its
insert on, and over for good once it was cancelled, given up or granted its last send; a send is
granted only to an open row whose time has come; a row that stays open moves to a later time, and
skips one only when that is too late by the row's window; a message is posted once, of a send that
was granted. A row that is over is granted no more sends, but a send granted before its cancellation may still be posted
("an in-flight claim may still complete", `docs/EMBED_STUDIO_SCHEDULED_POSTS.md:78`). A row's stage is read off `waiting` and `place`, `due` and `count` are its time and
grants; transactions, hands and the wire do not appear.

## 4. Runs

Every bound is a constant of the module, named in its CONSTANTS.

| Run | Shows | Instance |
|---|---|---|
| `download_queue` | `TypeOK`, `OneActivePerGuild`, `PromiseKept`, and `RequestsAreResolved` under `FairSpec` | two guilds, three messages (two of one guild), two workers, a queue of two, one crash, one SQLite error, one start per process |
| `operation_queue_shared` | `PromiseKept`, and `AdmittedJobsEnd` under `FairSpec` | a submit `a` and a run_exclusive `x` of one idempotency key on two lanes, a run_exclusive `b` that shares the lane of `a` (and is turned away when it is busy) and the type of `x`, one permit for that type, two for the bot and the guild, `x` may be cancelled |
| `operation_queue_faults` | `TypeOK`, `PermitsBalanced`, `CancelledNeverRuns`, `PromiseKept` | a submit and a run_exclusive, one permit of each kind, a crash, a failed call, a cancellation |
| `operation_queue_resubmit`, `_startup` | the code's words against the code, see 6 | the smallest instance that shows each |
| `ticket_counter_overlap` | `TypeOK`, `AboveLegacy`, `NumbersOnlyGrow`, `CounterNeverLowered`, and `CallsEnd` under `FairSpec` | two calls, each may be cancelled, a counter below the rows and the rows below an old channel, a failed read, three failed writes, two attempts |
| `ticket_counter_reused` | a docstring against the code, see 6 | two calls, no counter row, a failed read |
| `hub_roster` | `TypeOK`, `ReadyArePresent`, `OneHost`, `NobodyWaitsForNothing`, `EmptyIsOpen`, `OverStaysOver` | three users, two sessions of two seats of one game, staff authority, no ready requirement, no blocks |
| `hub_resources` | `TypeOK`, `CleanedLeavesNothing`, `RoomsAreFound`, `DeletedIsGone` | a thread and a voice room, one handler at a time, one failure, one crash |
| `hub_resources_live` | `EndingIsResolved`, `CreatingEnds` under `FairSpec` | a voice room, two handlers at a time, one failure, one crash |
| `ticket_lifecycle` | `TypeOK`, `DecisionStillHolds`, `ClaimedHasClaimant`, `ClaimantKept`, and `GoneIsDeleted` under `FairSpec` | an unclaimed, a claimed or a closed ticket, two staff members, two calls of any kinds and the sweep, two attempts of the override, one fault (a failed read or write, a timeout or a restart) |
| `embed_studio` | `TypeOK`, `AtMostOnce`, `SentIsPosted`, `StoppedNeverPosts`, `NoBurst`, `QuotaHolds`, `PromiseKept`, and `DueIsResolved` under `FairSpec` | a post and two campaigns of up to two sends, a quota of one, two processes that both own the guild, batches of one, times 0 to 2, a window of one instant (a row is claimed when it is due or given up), one fault (a claim that fails, whose answer is lost, or a crash); sends may time out at will |

Why these bounds are enough to be worth having: exclusion and fairness between guilds
need two requests of one guild and one of another; the queue's limit of two is
reached with a request that is refused; every pair of steps of two workers, a start and a crash
is interleaved. In the operation queue two calls of one key give every pair of database calls on a row. In `operation_queue_shared`
the third contends with one of them for a lane and with the other for a permit: a lane is held by a job that waits for
a permit of another lane's job, a third job waits for the lane, and the one that waits for the permit may be cancelled.
What does not happen in it is a full queue (`Refuse`) and two queued jobs of one lane. `operation_queue_faults` has one permit of each kind.
Larger instances repeat these
situations; the theorems of section 5 cover them for every size. In the allocator
two calls give a thread that overlaps another, a number lost with its call
and one lost with its channel; `MaxTries`, 20 in the code, is lowered to reach
the last attempt, and three failed writes let the RPC and then a swap fail, in one call
or in two. `MCTicketCounterThree.cfg`, not a run, has a third call. In the hub
three users fill a session of two seats and leave one on its waitlist, and two
sessions reach a member's limit of one; blocks and further limits only remove
behaviours of the invariants checked. One session is enough for its rooms, since
`HubResources` shares nothing between sessions but locks the database takes; two rooms
give every order of a row that is planned and one that is recorded. `hub_roster` and
`hub_resources` cover failures one at a time: the theorems cover any number. Two calls on a
ticket give every pair of a reader and a writer, with and without the lock, and the
sweep is a third; each kind of request is made by the people between whom the policy
distinguishes (`SomeRequests`). The override's three attempts are lowered to two. In Embed Studio
two processes and three rows give every pair of overlapping claims, a claim that leaves a row
to the other, a result that arrives after the next claim, and two inserts that compete for the
last place of the quota; with these times a row is early, due or late, and a campaign is claimed twice; the campaigns'
clocks differ. `MCEmbedStudioBatch.cfg`, not a run, has two posts, more than a batch, and a process
that does not own the guild; it may give up its late posts and send none.

TLC must be told that some runs may stop (`CHECK_DEADLOCK FALSE`) in the operation
queue, in the allocator, in the hub, in the ticket's life and in Embed Studio: when all calls are answered, all
jobs are over, the session is finished, the ticket deleted or the clock at its end, and no failure is left,
nothing remains to be done.

Fairness. `DownloadQueue` assumes weak fairness of each worker, of each start that was called and
of the reboot: asyncio runs every ready callback, threads return, and the host
restarts the bot. A start whose recovery failed just returns (`share_router_download_queue.py:350-352`) and only another
`on_ready`, which need not come, calls it again: that retry may happen in the model but is not fair, and `RequestsAreResolved` asks nothing of a
queue whose process stays without workers for that reason (`Unserved`). `OperationQueue` assumes weak fairness of a call's continuation
and of the reconciliation, and strong fairness of a job's execution: its steps wait
for a lock or a semaphore that can be taken and freed by others in between,
and asyncio wakes waiters in order, so none is passed over for ever. A factory ends
because `wait_for` bounds it. `TicketCounter` assumes weak fairness of the thread of
a call that somebody awaits, and strong fairness of `Begin`, for the same reason as
a job's. `HubResources` assumes weak fairness of provisioning, of the cleanup
task, of the startup pass and of each handler's follow-up, which the event loop
runs and whose timers fire; of `Boot`, since the host restarts the bot; and of
`Expire`, since the maintenance loop ends a session at its hard lifetime at the latest; it does so only while the hub is enabled for the guild
(`community_hub_runtime.py:1492`), so `CreatingEnds` is about such guilds.
Nobody has to press a button. `TicketLifecycle` assumes weak fairness of the steps of each call
that started and of the sweep. The sweep (`reconcile_missing_ticket_channels_for_guild`) is
called from the statistics worker of `security_stats.py`, every ten minutes and only for guilds with
an active statistics display: `GoneIsDeleted` is about those guilds, and about the tickets it covers (`Swept`, section 3). In another the event
handler makes its one attempt, and a failed write leaves the row open. `EmbedStudio` assumes weak fairness of the clock, of what each
process does of itself (its loop has no exit, each of its calls a timeout, and the host restarts it)
and of the end of a claim nobody waits for any more, since the database ends every transaction. Staff,
inserts, Discord's deliveries and the writes of results are not fair: any of them may never
happen. No run assumes that a client acts, that a timer
fires early or that a call fails.

Each property has a mutant of the code that breaks it (listed in `PROJECT.json`): a
claim without the per-guild subquery, a recovery that re-queues, a rotation that
prefers the same guild, a guild's or a type's permit kept by a cancelled job, a lock not taken or not
released, a semaphore not waited for, a duplicate check that asks only the
table, a cancellation checked only at the queue, a counter raised without comparing, an
RPC that follows the rows alone, attempts that are not counted, a ready
mark that outlives its member, a waitlist nobody is taken from, a session left before
publication that stays unpublished, a ready check in an ending session, a cleanup that
passes over rows without an ID, a room not cached taken to be gone, a restart that does
not resume ending sessions, an override that tries once too often, a mutation lock per
call, a status written without the claimant that was read, a policy that lets any member act, a
vanished ticket marked deleted before it is closed, a send retried after its timeout, a claim that
selects locked rows, a result written without comparing the claim, a cancellation of a row that is
not pending, one that does not wait for a claim, an occurrence that is never too late, a quota counted without its lock, late rows left alone, a campaign that ends one send too late.

## 5. Proofs

TLAPS proves the following for every set of guilds, messages, calls, keys and
lanes, every limit, and any number of crashes and failed calls. The constants are only assumed to
have their types (`QueueAssumptions`, `OperationAssumptions`, `CounterAssumptions`, `RosterAssumptions`,
`ResourceAssumptions`, `LifecycleAssumptions`, `StudioAssumptions` and `FiresAssumption`, that a campaign's clock strikes again: finite sets of actors, positive capacities, `None` outside the data).

`DownloadQueueProofs`

* `TypeCorrect`: `Spec => []TypeOK`, overlapping starts included.
* `OneActive` and `PromiseImplemented`: `[]OneActivePerGuild` and the refinement of
  `DownloadPromise`, under `[]StartsApart`, an assumption on the behaviour: no
  `start_download_workers` begins while another is at one of its awaits. A process may
  see any number of READY events as long as they do not overlap; when they do, both
  are false (section 6). The inductive invariant `IInv` joins what makes the
  claim's subquery enough: a worker's job is a `running` row nobody else holds
  (`JobHeld`, `BusyOwnsRow`), a guild has one `running` row (`OneRunningRow`), no
  worker holds a row while a recovery runs (`RecoveryIsAlone`), a stale row is
  still queued (`StaleAreQueued`), and what was sent was started before
  (`SentAfterStart`). `OneActivePerGuild` alone is not inductive: it says nothing of
  a row whose worker is between two awaits.

`OperationQueueProofs`

* `TypeCorrect`: `Spec => []TypeOK`. It needs `UpsertHasImage` (a call at its upsert has
  built a row), because the row it writes is taken from `pending`.
* `PermitsAlwaysBalanced`: `Spec => []PermitsBalanced`. Free permits and their holders
  add up for the bot, each pool and each type through every failed write, cancellation,
  timeout and crash. The invariant is `RunInv`: `TypeOK`, `UpsertHasImage`,
  `CallPrecedesRun` (a job that runs was admitted, and one that its caller runs is
  stored first), `LockHeld` (a job past its lane's lock holds it) and
  `PermitsBalanced`. `StepKinds` sorts the actions into a crash and steps that move
  one job or none, and `HoldersMove` counts the holders after such a step, so that
  the counting is done once and not per action.
* `PromiseImplemented`: `Spec => PromiseKept`, with any number of failed calls. `RunInv` gives exclusion and capacity (`RoomToBegin`: who is about to take
  its last permit already holds the others, so those executing are fewer than each
  cap). One operation per key, which the promise asks for until the first failure, needs `KeysRemembered`: a job under way has its row stored
  or its key in `_dedupe`, and while it is, a call of its key that found no row
  finds the key in `_dedupe`. After a failed call the table may have neither: persistence
  is then off, and the code accepts that two operations of one key run after each other. `FaultsStay`
  says that a failure is not forgotten, so `~ Degraded => KeysRemembered` is inductive.
* `CancelledRunsOnlyIfHidden`: without any assumption, a job that was told it is cancelled executes only if
  another call was answered with its row (`Hidden`), which is when `_jobs` has a copy of the row where
  the job object was. `CancelInv` follows the object: every row, every row that was read and every row that is
  about to be expired is of an admitted operation of its key (`RowsAdmitted`, `SeenAdmitted`,
  `ExpiredAdmitted`), the entry of a job of this process is its object unless the row was expired or
  answered to another call (`EntriesTrue`), a job that executes is marked running and none does after a crash
  (`RunsOfThisProcess`), and a told job is marked cancelled unless a copy was (`ToldIsMarked`).
* `CancelledStaysOut`: `[]CancelledNeverRuns` follows under `TargetsSubmittedOnce`: the key of an operation
  to be cancelled is submitted once. The run `operation_queue_resubmit` shows that it is false otherwise.

`TicketCounterProofs`

* `TypeCorrect`: `Spec => []TypeOK`, with `TriesLeft` (a call about to swap has an attempt
  left) for the bound on `tries`.
* `CounterOnlyGrows` and `NumbersNeverReused`: `CounterNeverLowered` and `NumbersOnlyGrow` for any
  calls and failed writes, under `CounterExists \/ Serialised`: the counter has a row at the start,
  or no call is cancelled or outlived, so that the guild's lock makes calls take turns. Both properties speak of the time
  before the first failed read. Neither half of the assumption can be spared: without a row, cancelled calls violate both
  properties (section 6); and the run `ticket_counter_reused` shows what a failed read does to
  `NeverReused`, the unconditional form. `CounterInv` says that
  a call that believes the row missing is right, that every number given is at most the counter, and
  that who will raise the counter has a floor above what it compares with; `Alone` is the lock. An insert is then the step
  of the only call under way. `SafeInv` joins them to the types for as long as no read has failed. `Grows`
  says what each step may do: leave the numbers alone and not lower the counter, or
  raise it and give its new value. Both theorems read their property off `Grows`.
* `LegacyKept`: `[]AboveLegacy`, with or without a counter and whatever is cancelled. The property itself says "as
  long as nothing has failed", since a seed whose write fails is swallowed and the RPC
  sees only the rows. `LegacyInv` follows the old channel's number from the scan
  through the floor into the counter (`Reached`); the old channel is never deleted in the model.

`HubRosterProofs`

* `TypesOK`, `ReadyPresent`, `OneHostEach`, `NobodyWaits`, `EmptySessionsAreOpen`: the
  type invariant and the other state invariants of `hub_roster` for any users, sessions, limits and blocks. The last says that an empty session is open or over, not
  that it can be joined: it may have been locked (section 6). They are
  inductive together (`Good`), session by session (`OneSession`), and not apart: a
  leaving host has an heir because somebody on the waitlist means that at least two
  are seated (`TwoSeated`), which is `NobodyWaitsForNothing`. This is where the assumption
  that a session has at least two seats (the column's check) is used.
* `OverIsOver`: `OverStaysOver`, from `TypeOK` and the functions' state checks.

`HubResourcesProofs`

* `TypesOK`, `CleanedIsClean`, `NothingIsForgotten`, `DeletedRoomsAreGone`: the
  invariants of `hub_resources` for any number of failures, restarts and handlers. `Inv`
  says for each room what its row and the room tell of each other (`RowInv`), what
  provisioning still owes it (`ProvInv`), that what the cleanup and the startup pass have
  copied still holds of the rows (`TaskInv`, `BootInv`), and that a cleanup without a
  failure has dealt with the room or still has it before it (`CleanInv`). A step that
  leaves rooms alone keeps all of it (`Quiet`); the others have a lemma each.

`TicketLifecycleProofs`

* `TypeCorrect` and `DecisionsHold`: `[]TypeOK` and `[]DecisionStillHolds` for any staff, calls,
  requests, attempts and faults. The inductive invariant `LInv` is the types (`Typed`) and,
  for each call (`Good`), that the attempts are counted (`TriesCounted`), that only the locks'
  holders are where the locks are held (`Exclusive`), that a call in a repository function wants
  what that function writes (`Work`), and that a lock's holder that has not written has a
  decision the undisturbed row still supports (`Founded`). Two lemmas carry the argument:
  a step of another call changes the row under a lock's holder only by disturbing it
  (`OthersGood`), and what a call does after a repository function is over or a new,
  typed patch (`ContinueEffect`).
* `ClaimantsKept`: `ClaimantKept` follows from `Founded` at the write: the policy let the actor act
  on the claimant that is still there, and patches of functions that do not assign keep it.
* `ClaimantsExist`: `[]ClaimedHasClaimant`. A failed read lets a patch through as it was asked for, and
  writes arrive in any order; `ClaimInv` says that every patch on its way to the
  table is `Complete`: it has a status, and a claimant if that is `claimed`.

`EmbedStudioProofs`

* `TypeCorrect`, `PostedAtMostOnce`, `ResultsAreTrue`, `StoppedStaysOut`, `QuotaKept`: `[]TypeOK` and four
  more invariants of `embed_studio`, for any processes, rows, windows, limits, clocks and faults. `Inv` follows the right to
  send an occurrence, which is one token: it is in a waiting row with a send left (`RowInv`), in the one
  transaction that locked the row (`LockInv`), in one process's hand, on the wire or in the channel, and
  never in two of these (`TokenInv`); a result on its way tells of a message that is there
  (`ResultInv`). For the quota, the one insert that has counted is counted with the rows it counted
  (`QuotaInv`), which is what the advisory lock is for.

* `NeverABurst`: `Spec => NoBurst`, strike by strike: a campaign's time moves only by the commit of a claim, always on to a
  later strike, and the strike it leaves was either claimed, by a claim that began within its window, or skipped, to a
  strike after the claim that found it too late. So no strike is claimed twice and none that was missed is claimed at all.
  `ClockInv` adds that a campaign's next time is a strike of its clock and that what a transaction selected was within
  its window, or too late, when it began (`Timely`); `CommitOnTime` is the commit, before which nobody else moves a row it locked.
* `PromiseImplemented`: the refinement of `StudioPromise`, from `Inv` and `ClockInv` (`PromiseStep`, one lemma for each
  action a row can see). The step that needs them is the commit of a claim (`MovesCommit`): the rows it
  decided on before are still open because `Cancel` waits for their locks (`LockInv`), and their
  times, which had come when it began, are still theirs.

Liveness (`RequestsAreResolved`, `AdmittedJobsEnd`, `CallsEnd`, `EndingIsResolved`,
`CreatingEnds`, `GoneIsDeleted`, `DueIsResolved`) is model-checked only: the prover does not handle ENABLED.

## 6. Where the code and its words disagree

Each is a run expected to end in a violation, of a property that states the quoted
sentence.

* `operation_queue_resubmit`: a repeated submit replaces the live object in `_jobs`
  by a copy made from the row; `cancel` then answers "Operation was cancelled
  before execution." and the job executes.
* `operation_queue_startup`: calls that arrive while the first one reconciles do
  not wait; their fresh rows are expired as "left active by a previous bot process".
* `ticket_counter_reused`: a failed read of the counter looks like a missing row, and the
  seed's upsert overwrites the counter with a lower floor. The docstring: "Reserve the
  next never-reused ticket number for one guild."

Further disagreements that the models show. They have a configuration or a change
of one, but are not among the runs of `PROJECT.json`:

* `MCDownloadQueueTwoReady.cfg` (`OneActivePerGuild`): `start_download_workers` tests `_WORKERS`
  before it awaits the recovery and not after. Two READY events whose calls overlap
  both recover and both spawn, and the second recovery deletes a row in work.
  `docs/share-router-download-scaling.md`: "Each guild runs at most one active
  download".
* `MCOperationQueueRestart.cfg` (`NoForeverRunning`): the only reconciliation of a process
  skips rows whose lease has not passed, which after a quick restart is every
  running one. The docstring: "instead of showing a forever-running job".
* `MCOperationQueueExpired.cfg` (`ExpiredMayBeResubmitted`): an expired row still makes its key a
  duplicate, though the docstring says that expiring "lets the dashboard submit a
  fresh, idempotent operation". It bites where the key is fixed, as in the channel
  builder's rollback.
* `MCOperationQueueRows.cfg` (`RowsSettle`): an upsert or a cancellation's update built before
  the end of the job may land last, and the row then says `queued` or `running` for
  good.
* `MCTicketCounterOverlap.cfg` with `StartCounter = None` (`CounterNeverLowered`): in a guild
  without a counter row, the upsert of a cancelled call may land after the next call
  has reserved. The docstring: "Never lower the counter." With three calls and no failure at all
  `NumbersOnlyGrow` is violated too: the third gets the number of the second, whose ticket row is not stored yet.
* `MCHubRosterWithinCapacity.cfg` (`WithinCapacity`): leaving promotes a waitlisted member whoever
  leaves, also when it is another waitlisted one, and a full session then has a player
  more than seats. The comment at line 753 of the migration: "Promote one waitlisted
  member if a capacity slot opened."
* `MCHubRosterNoBlockedPair.cfg` (`NoBlockedPair`): blocks are checked when a member joins the
  waitlist, not against those who were seated before his promotion.
* `MCHubRosterWithinMemberLimit.cfg` (`WithinMemberLimit`): a promotion is not counted against
  `max_active_sessions_per_member`, and Quick Match checks the claimed member's sessions of
  the one game only, though its comment (line 2062) says "If they filled their
  active-session quota concurrently, abort".
* `MCHubResourcesEndingIsCleanedUp.cfg` (`EndingIsCleanedUp`, without failures or restarts):
  `schedule_cleanup` does nothing while the task of an empty session is pending; when that one
  then finds a member it leaves, and nobody cleans up the session that was ended
  meanwhile. A join's late cancellation does the same to a task scheduled since. The
  message to the host: "Session is ending. New joins are stopped and temporary spaces
  will clean up after the server's grace period." (`public_community_hub.py:3683`)
* `MCHubResourcesNoRoomIsLeft.cfg` (`NoRoomIsLeft`): a room planned while the session is
  already being cleaned up is not among the rows listed, and is open when the session is
  "cleaned". `CleanedLeavesNothing`, which does hold, is about the rooms planned before.

* `MCTicketLifecycleUnclaimFrees.cfg` (`UnclaimFrees`, without faults):
  `_finalize_claim_fields` puts the claimant that was read back into a patch that has none, the
  one of an unclaim included. The row is then open with a claimant, and reads as claimed:
  neither the service's nor the override's unclaim frees a ticket. The menu: "Remove the current
  assignment" (`commands_ext/public_ticket_command_center.py:265`).
* `MCTicketLifecycleDeletedIsImmutable.cfg` (`DeletedIsImmutable`): a touch that read the row before a
  deletion writes "closed" over it. The docstring of `evaluate_ticket_action`: "deleted tickets
  are immutable, permanent delete requires a closed ticket".
* `MCTicketLifecycleOnlyClosedAreRemoved.cfg` (`OnlyClosedAreRemoved`): the override deletes the channel of
  a ticket that was reopened after it looked, since it does not take the mutation
  lock; so does the deletion flow, which removes the channel whatever became of its mark.

Seen while reading, without a run: the answers "Nothing was queued." (`embed_studio_campaigns.py:120`) and
"No automatic post was queued." (`commands_ext/embed_studio_ui.py`) are given after the caller's 12 seconds,
when the insert may still arrive (`Ask` and then `InsertCampaign` in `EmbedStudio`); `_repair_stale_open_ticket_row` (`tickets_new/service.py:430`)
announces a repaired row although `mark_ticket_deleted` refuses an open one and its answer is not
read;  `reopen_ticket_channel` (`tickets_new/service.py:3265`) uses
the name `guild`, which it does not define, when no staff roles are passed, after the row
was already reopened; `unlock` makes any locked session public, whatever it was before; a session
that its last participant left locked is open and refuses every join (migration `202610200016`, line 526), and nobody but staff is left
who may unlock it; a session
whose cleanup had a failure ends as "ended" and is not tried again.

## 7. Not modelled

`PROJECT.json` lists every component with its status. Rendering, dialogues, wire
formats and command handlers have no state of their own worth a model; the
network and ffmpeg parts of the media pipeline are one step of `DownloadQueue`; the
other stateful components are in the plan above. In the operation queue, the
sleeps of `with_retry`, the statistics, the audit insert and the shutdown of the
event loop (which cancels every task) are left out. So is a caller of `run_exclusive` that is cancelled while it
waits for its second or third permit: `_run_job_now` would keep those it has (`operation_queue.py:717-725`: the `finally` only
lowers counters); no code that cancels such a caller was found. A check of `_jobs` and the entry made from a row fetched for a job that is not there
(`Reattach`) are one step, and a key leaves `_dedupe` after its minute only when no call of that key is at the
database (`DedupeExpires`): a database call is taken to end within that minute. In Embed Studio a campaign whose next time cannot be computed
makes the whole claim raise, each time it is due (`202611050001`, lines 52, 60 and 68): `FiresAssumption` excludes
it, so `DueIsResolved` is about campaigns with a valid clock. In the hub, the `clear_stale_ready` sweep
takes members' rows before sessions' and `set_ready` the other way round: Postgres breaks such
a deadlock by failing one call, which is a call that does not happen in the model.
Reminders, profiles, availability and moderation records of the hub are not modelled. Of tickets,
creation and reuse of an existing ticket, permissions, names, transcripts and the panel are not; nor is the row the
synchroniser inserts for a channel without one (`tickets_new/sync_service.py:1098`), since the ticket modelled has its row, nor the claimant it
may find who is not on the staff. A write that `_execute_db_op` (`tickets_new/repository.py:814`) retries
after a lost answer may land twice; here it lands once. Of Embed
Studio, the editor, drafts, forms and live posts are not: they act while somebody watches.

## 8. Running

    tlc -config MCOperationQueueShared.cfg MCOperationQueue.tla
    tlapm DownloadQueueProofs.tla
    tlapm OperationQueueProofs.tla
    tlc -config MCTicketCounterOverlap.cfg MCTicketCounter.tla
    tlapm TicketCounterProofs.tla
    tlc -config MCHubRoster.cfg MCHubRoster.tla
    tlapm HubRosterProofs.tla
    tlc -config MCHubResources.cfg MCHubResources.tla
    tlapm HubResourcesProofs.tla
    tlc -config MCTicketLifecycle.cfg MCTicketLifecycle.tla
    tlapm TicketLifecycleProofs.tla
    tlc -config MCEmbedStudio.cfg MCEmbedStudio.tla
    tlapm EmbedStudioProofs.tla

Configurations that are not runs: `MCTicketCounterThree.cfg` and `MCEmbedStudioBatch.cfg` are the larger and the other instance
named in section 4, and those of section 6 show the violations named there.
