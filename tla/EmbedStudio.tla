---------------------------- MODULE EmbedStudio ----------------------------
(***************************************************************************)
(* Embed Studio's unattended posts of one guild: embed_studio_schedules.py, *)
(* embed_studio_campaigns.py, the worker that sends both                    *)
(* (embed_studio_schedule_runtime.py) and the SQL of their two tables.      *)
(*                                                                         *)
(* A post is sent once at its time; a campaign is sent every time the      *)
(* guild's clock strikes, up to max_occurrences.  Each process claims the  *)
(* rows that are due, in a transaction that locks them, and then sends     *)
(* what it was answered.  Every call has a timeout after which the caller  *)
(* goes on while the call may still take effect: an insert, a claim, a     *)
(* send and the write of a result are each a request and, later, an effect.*)
(*                                                                         *)
(* A post whose status is 'pending' and a campaign that is enabled are both *)
(* "waiting"; a post counts as a campaign of one send.                      *)
(***************************************************************************)
EXTENDS Naturals, FiniteSets

CONSTANTS
    Procs,              \* processes that run the worker
    Owners,             \* those whose Discord shards include the guild
    Posts, Campaigns,   \* rows of the two tables
    Fires,              \* the times at which each campaign's local clock strikes
    PostWindow,         \* how late a post may be claimed (10 minutes)
    CampaignWindow,     \* how late a campaign may be claimed (5 minutes)
    Lead,               \* how far ahead a post may be scheduled (90 days)
    Batch, MissBatch,   \* limits of one claim
    MaxSends,           \* max_occurrences of the campaigns
    Quota,              \* campaigns a guild may have enabled, 20
    MaxTime, MaxFaults, \* bounds: the clock; failed or lost claims and crashes
    None

Rows == Posts \cup Campaigns
Sends(r) == IF r \in Posts THEN 1 ELSE MaxSends

(* An occurrence: a row and the number of its claim, which stands for the
   claim's uuid. *)
Occurrences == Rows \X (1..MaxSends)

ASSUME StudioAssumptions ==
    /\ Owners \subseteq Procs /\ None \notin Procs
    /\ Posts \cap Campaigns = {}
    /\ IsFiniteSet(Campaigns)
    /\ {PostWindow, CampaignWindow, Lead, Batch, MissBatch, Quota,
        MaxTime, MaxFaults} \subseteq Nat
    /\ MaxSends \in Nat \ {0}
    /\ Fires \in [Campaigns -> SUBSET Nat]

(* The claim would raise without a next occurrence. *)
ASSUME FiresAssumption ==
    \A c \in Campaigns, t \in 0..MaxTime : \E u \in Fires[c] :
        u > t /\ \A v \in Fires[c] : v > t => u <= v

VARIABLES
    now,
    place,      \* where the insert of each row is
    waiting,    \* posts that are pending, campaigns that are enabled
    due,        \* execute_at, next_fire_at
    count,      \* claims of the row (claimed_count)
    status,     \* the row's status or last_status, but for 'pending'
    message,    \* the claim whose message the row names, 0: none
    open,       \* transactions of claims: rows they locked, and who waits
    down,       \* processes that died
    table,      \* the table each process claims from next
    hand,       \* occurrences a process has in hand
    wire,       \* sends Discord may still carry out
    posted,     \* messages of each occurrence in its channel
    writes,     \* results on their way to the database
    faults

rowVars == <<waiting, due, count, status, message>>
worker  == <<down, table, hand>>
discord == <<wire, posted>>
vars    == <<now, place, rowVars, open, worker, discord, writes, faults>>

Occ(r) == <<r, count[r]>>
Tables == {"posts", "campaigns"}
TableOf(p) == IF table[p] = "posts" THEN Posts ELSE Campaigns

(* Mutant: no occurrence is ever too late to be claimed. *)
Window_None(r) == MaxTime

Window(r) == IF r \in Posts THEN PostWindow ELSE CampaignWindow

Init ==
    /\ now = 0
    /\ place = [r \in Rows |-> "new"]
    /\ waiting = {}
    /\ due = [r \in Rows |-> 0] /\ count = [r \in Rows |-> 0]
    /\ status = [r \in Rows |-> "none"] /\ message = [r \in Rows |-> 0]
    /\ open = {}
    /\ down = {} /\ table = [p \in Procs |-> "posts"]
    /\ hand = {} /\ wire = {} /\ writes = {}
    /\ posted = [o \in Occurrences |-> 0]
    /\ faults = 0

Tick ==
    /\ now < MaxTime
    /\ now' = now + 1
    /\ UNCHANGED <<place, rowVars, open, worker, discord, writes, faults>>

(* dank_embed_studio_next_campaign_fire: the next time the clock strikes; a
   local time that daylight saving skips is not among them. *)
NextFire(c, after) ==
    CHOOSE u \in Fires[c] : u > after /\ \A v \in Fires[c] : v > after => u <= v

-----------------------------------------------------------------------------
(* enqueue: one insert, which may arrive after the 12 seconds its caller waits
   for it.  The insert of a campaign passes the quota trigger. *)

Still == UNCHANGED <<now, open, worker, discord, writes, faults>>

Ask(r) ==
    /\ place[r] = "new"
    /\ place' = [place EXCEPT ![r] = "asked"]
    /\ \E t \in IF r \in Posts THEN {u \in now + 1 .. now + Lead : u <= MaxTime}
                               ELSE {NextFire(r, now)} :
        due' = [due EXCEPT ![r] = t]
    /\ UNCHANGED <<waiting, count, status, message>> /\ Still

Arrives(r) ==
    /\ place' = [place EXCEPT ![r] = "made"]
    /\ waiting' = waiting \cup {r}
    /\ UNCHANGED <<due, count, status, message>> /\ Still

InsertPost(r) == r \in Posts /\ place[r] = "asked" /\ Arrives(r)

(* Mutant: the trigger counts without its advisory lock. *)
QuotaCounts_Unlocked(r) ==
    /\ r \in Campaigns /\ place[r] = "asked"
    /\ Cardinality(waiting \cap Campaigns) < Quota
    /\ place' = [place EXCEPT ![r] = "counted"]
    /\ UNCHANGED rowVars /\ Still

(* The advisory lock of the guild is held from the count to the commit. *)
QuotaCounts(r) ==
    /\ r \in Campaigns /\ place[r] = "asked"
    /\ \A s \in Campaigns : place[s] # "counted"
    /\ place' = [place EXCEPT ![r] =
            IF Cardinality(waiting \cap Campaigns) < Quota THEN "counted" ELSE "refused"]
    /\ UNCHANGED rowVars /\ Still

InsertCampaign(r) == place[r] = "counted" /\ Arrives(r)

InsertFails(r) ==
    /\ place[r] \in {"asked", "counted"}
    /\ place' = [place EXCEPT ![r] = "refused"]
    /\ UNCHANGED rowVars /\ Still

-----------------------------------------------------------------------------
(* cancel: an update of a waiting row, which waits for the lock of a claim. *)

Locked(r) == \E t \in open : r \in t.missed \cup t.ready

(* Mutant: the update does not ask for a pending row. *)
Cancel_AnyStatus(r) ==
    /\ place[r] = "made" /\ status[r] # "cancelled" /\ ~Locked(r)
    /\ waiting' = waiting \ {r}
    /\ status' = [status EXCEPT ![r] = "cancelled"]
    /\ UNCHANGED <<place, due, count, message>> /\ Still

(* Mutant: the update does not wait for the transaction of a claim. *)
Cancel_NoWait(r) ==
    /\ r \in waiting
    /\ waiting' = waiting \ {r}
    /\ status' = [status EXCEPT ![r] = "cancelled"]
    /\ UNCHANGED <<place, due, count, message>> /\ Still

Cancel(r) ==
    /\ r \in waiting /\ ~Locked(r)
    /\ waiting' = waiting \ {r}
    /\ status' = [status EXCEPT ![r] = "cancelled"]
    /\ UNCHANGED <<place, due, count, message>> /\ Still

-----------------------------------------------------------------------------
(* dank_embed_studio_claim_due and dank_embed_studio_claim_campaigns: rows that
   are too late are given up, rows that are due are claimed; both are selected
   "for update skip locked", the oldest first. *)

Idle == UNCHANGED <<now, place, discord, writes>>

(* Sets of up to n rows of S, the oldest of them. *)
Oldest(S, n) ==
    {T \in SUBSET S :
        /\ Cardinality(T) = IF Cardinality(S) < n THEN Cardinality(S) ELSE n
        /\ \A r \in T, s \in S \ T : due[r] <= due[s]}

(* Mutant: the rows another transaction locked are selected, too. *)
Free_NoLocks(p) == waiting \cap TableOf(p)

Free(p) == {r \in waiting \cap TableOf(p) : ~Locked(r)}

(* Mutant: rows that are too late stay as they are. *)
Late_Ignored(p) == {}

(* Late posts are not limited to the shards of the process. *)
Late(p) ==
    {r \in Free(p) : due[r] + Window(r) < now /\ (r \in Posts \/ p \in Owners)}

Ready(p) ==
    {r \in Free(p) : due[r] <= now /\ now <= due[r] + Window(r) /\ p \in Owners}

(* A process claims when it has sent everything it was answered before. *)
AtLeisure(p) ==
    /\ p \notin down
    /\ \A t \in open : t.by # p
    /\ \A x \in hand : x.by # p

Advance(p) ==
    table' = [table EXCEPT ![p] = IF table[p] = "posts" THEN "campaigns" ELSE "posts"]

ClaimBegins(p) ==
    /\ AtLeisure(p) /\ Late(p) \cup Ready(p) # {}
    /\ \E late \in Oldest(Late(p), MissBatch), ready \in Oldest(Ready(p), Batch) :
        open' = open \cup {[by |-> p, time |-> now, missed |-> late, ready |-> ready]}
    /\ Advance(p)
    /\ UNCHANGED <<rowVars, down, hand, faults>> /\ Idle

ClaimFindsNothing(p) ==
    /\ AtLeisure(p) /\ Late(p) \cup Ready(p) = {}
    /\ Advance(p)
    /\ UNCHANGED <<rowVars, open, down, hand, faults>> /\ Idle

(* A campaign moves on from now when it was too late, from its time otherwise. *)
NextDue(t, r) ==
    IF r \in Posts \/ r \notin t.missed \cup t.ready THEN due[r]
    ELSE NextFire(r, IF r \in t.missed THEN t.time ELSE due[r])

(* Mutant: a campaign ends one send too late. *)
IsLast_OffByOne(r) == count[r] + 1 > Sends(r)

(* Whether the row's next send is its last. *)
IsLast(r) == count[r] + 1 >= Sends(r)

(* The transaction commits, and a process that still waits for it gets its rows. *)
ClaimCommits(t) ==
    /\ open' = open \ {t}
    /\ waiting' = waiting \ ((t.missed \cap Posts) \cup {r \in t.ready : IsLast(r)})
    /\ due' = [r \in Rows |-> NextDue(t, r)]
    /\ count' = [r \in Rows |-> IF r \in t.ready THEN count[r] + 1 ELSE count[r]]
    /\ status' = [r \in Rows |-> IF r \in t.ready THEN "claimed"
                            ELSE IF r \in t.missed THEN "missed" ELSE status[r]]
    /\ hand' = hand \cup {[by |-> t.by, occ |-> <<r, count[r] + 1>>, step |-> "check"]
                            : r \in IF t.by = None THEN {} ELSE t.ready}
    /\ UNCHANGED <<message, down, table, faults>> /\ Idle

Faulty == faults < MaxFaults /\ faults' = faults + 1

(* The error path of the loop: back to the one-shot posts after two minutes. *)
Again(p) ==
    /\ table' = [table EXCEPT ![p] = "posts"]
    /\ UNCHANGED <<rowVars, down, hand>> /\ Idle

ClaimFails(t) ==
    /\ t.by # None /\ Faulty
    /\ open' = open \ {t}
    /\ Again(t.by)

Forsaken(p) == {IF t.by = p THEN [t EXCEPT !.by = None] ELSE t : t \in open}

(* The answer does not come within 12 seconds. *)
AnswerIsLost(t) ==
    /\ t.by # None /\ Faulty
    /\ open' = Forsaken(t.by)
    /\ Again(t.by)

(* A transaction nobody waits for is rolled back. *)
RollsBack(t) ==
    /\ t.by = None
    /\ open' = open \ {t}
    /\ UNCHANGED <<rowVars, worker, faults>> /\ Idle

-----------------------------------------------------------------------------
(* _dispatch, and the finish that follows it *)

Rest == UNCHANGED <<now, place, rowVars, open, down, table, faults>>

Finish(x, result) ==
    /\ hand' = hand \ {x}
    /\ writes' = writes \cup {[occ |-> x.occ, result |-> result]}

(* The guild, the channel, the author or a permission is gone. *)
Refuse(x) ==
    /\ x.step = "check" /\ Finish(x, "failed")
    /\ UNCHANGED discord /\ Rest

Send(x) ==
    /\ x.step = "check"
    /\ hand' = (hand \ {x}) \cup {[x EXCEPT !.step = "wait"]}
    /\ wire' = wire \cup {x.occ}
    /\ UNCHANGED <<posted, writes>> /\ Rest

(* Discord carries out the request, whether or not anybody waits; a request that
   stays on the wire for ever was lost. *)
Deliver(o) ==
    /\ wire' = wire \ {o}
    /\ posted' = [posted EXCEPT ![o] = @ + 1]
    /\ UNCHANGED <<hand, writes>> /\ Rest

Answered(x) ==
    /\ x.step = "wait" /\ posted[x.occ] > 0 /\ Finish(x, "sent")
    /\ UNCHANGED discord /\ Rest

Rejected(x) ==
    /\ x.step = "wait" /\ x.occ \in wire /\ Finish(x, "failed")
    /\ wire' = wire \ {x.occ} /\ UNCHANGED posted /\ Rest

(* Mutant: a send nobody answered is tried again. *)
TimesOut_Retried(x) ==
    /\ x.step = "wait"
    /\ hand' = (hand \ {x}) \cup {[x EXCEPT !.step = "check"]}
    /\ UNCHANGED <<discord, writes>> /\ Rest

(* "An ambiguous Discord send timeout must never be auto-retried." *)
TimesOut(x) ==
    /\ x.step = "wait" /\ Finish(x, "failed")
    /\ UNCHANGED discord /\ Rest

-----------------------------------------------------------------------------
(* The update of finish, if it ever happens: the row must still be 'claimed', by
   this claim. *)

(* Mutant: the update of a campaign does not compare last_claim_id. *)
Current_AnyClaim(o) == status[o[1]] = "claimed"

Current(o) == status[o[1]] = "claimed" /\ count[o[1]] = o[2]

Written(w) ==
    LET r == w.occ[1] IN
    /\ ~Locked(r)
    /\ writes' = writes \ {w}
    /\ IF Current(w.occ)
       THEN /\ status' = [status EXCEPT ![r] = w.result]
            /\ message' = [message EXCEPT ![r] = IF w.result = "sent" THEN w.occ[2] ELSE 0]
       ELSE UNCHANGED <<status, message>>
    /\ UNCHANGED <<now, place, waiting, due, count, open, worker, discord, faults>>

-----------------------------------------------------------------------------
(* A process dies with what it has in hand; what it asked for goes on. *)

Crash(p) ==
    /\ p \notin down /\ Faulty
    /\ down' = down \cup {p}
    /\ hand' = {x \in hand : x.by # p}
    /\ open' = Forsaken(p)
    /\ UNCHANGED <<rowVars, table>> /\ Idle

Restart(p) ==
    /\ p \in down
    /\ down' = down \ {p} /\ table' = [table EXCEPT ![p] = "posts"]
    /\ UNCHANGED <<rowVars, open, hand, faults>> /\ Idle

-----------------------------------------------------------------------------
Staff(r)  == Ask(r) \/ Cancel(r)
Insert(r) == InsertPost(r) \/ QuotaCounts(r) \/ InsertCampaign(r) \/ InsertFails(r)
Claim(t)  == ClaimCommits(t) \/ ClaimFails(t) \/ AnswerIsLost(t) \/ RollsBack(t)
Dispatch(x) == Refuse(x) \/ Send(x) \/ Answered(x) \/ Rejected(x) \/ TimesOut(x)
Loop(p)   == ClaimBegins(p) \/ ClaimFindsNothing(p) \/ Restart(p)

Next ==
    \/ Tick
    \/ \E r \in Rows : Staff(r) \/ Insert(r)
    \/ \E p \in Procs : Loop(p) \/ Crash(p)
    \/ \E t \in open : Claim(t)
    \/ \E x \in hand : Dispatch(x)
    \/ \E o \in wire : Deliver(o)
    \/ \E w \in writes : Written(w)

Spec == Init /\ [][Next]_vars

(* What a process does of itself: one of these is enabled at a time, but for the
   occurrences it has in hand. *)
Work(p) ==
    \/ Loop(p)
    \/ \E t \in open : t.by = p /\ Claim(t)
    \/ \E x \in hand : x.by = p /\ Dispatch(x)

(* Every call of a worker has a timeout, its loop never ends, a process that died
   is started again and the database ends every transaction. *)
Fairness ==
    /\ WF_vars(Tick)
    /\ \A p \in Procs : WF_vars(Work(p))
    /\ WF_vars(\E t \in open : t.by = None /\ Claim(t))

FairSpec == Spec /\ Fairness

-----------------------------------------------------------------------------
Places   == {"new", "asked", "counted", "made", "refused"}
Statuses == {"none", "claimed", "sent", "failed", "missed", "cancelled"}
Tokens   == [by : Procs, occ : Occurrences, step : {"check", "wait"}]
Results  == [occ : Occurrences, result : {"sent", "failed"}]
Claims   == [by : Procs \cup {None}, time : 0..MaxTime,
             missed : SUBSET Rows, ready : SUBSET Rows]

(* Every variable stays in its set; claimed_count <= max_occurrences is a check
   of the table. *)
TypeOK ==
    /\ now \in 0..MaxTime
    /\ place \in [Rows -> Places]
    /\ waiting \subseteq Rows
    /\ due \in [Rows -> Nat]
    /\ count \in [Rows -> 0..MaxSends] /\ \A r \in Rows : count[r] <= Sends(r)
    /\ status \in [Rows -> Statuses] /\ message \in [Rows -> 0..MaxSends]
    /\ open \subseteq Claims
    /\ down \subseteq Procs /\ table \in [Procs -> Tables]
    /\ hand \subseteq Tokens /\ wire \subseteq Occurrences
    /\ posted \in [Occurrences -> Nat]
    /\ writes \subseteq Results
    /\ faults \in 0..MaxFaults

(* "at-most-once claims; claimed events are never auto-replayed": no occurrence
   gets a second message and no row more than its sends, with workers of two processes at the same rows, lost
   answers, sends that time out and restarts. *)
AtMostOnce ==
    \A o \in Occurrences : posted[o] <= 1 /\ (o[2] > Sends(o[1]) => posted[o] = 0)

(* What finish stores is true and of the last claim: a row that says 'sent'
   names the message of its last claim, and that message is in the channel. *)
SentIsPosted ==
    \A r \in Rows : status[r] = "sent" =>
        count[r] > 0 /\ message[r] = count[r] /\ posted[Occ(r)] > 0

(* A post that was cancelled, or given up as too late, is not in the channel and
   never gets there. *)
StoppedNeverPosts ==
    \A r \in Posts : status[r] \in {"cancelled", "missed"} =>
        posted[<<r, 1>>] = 0 /\ <<r, 1>> \notin wire

(* A campaign's time and count move together and only by a claim: one that
   selected it within the window of its time takes that time as one send, and one
   that found it too late skips to a time that is still to come. *)
OnTime(r) ==
    due'[r] # due[r] \/ count'[r] # count[r] =>
        /\ {due[r], due'[r]} \subseteq Fires[r] /\ due'[r] > due[r]
        /\ \E t \in open \ open' :
            \/ /\ r \in t.ready /\ count'[r] = count[r] + 1
               /\ due[r] <= t.time /\ t.time <= due[r] + CampaignWindow
            \/ /\ r \in t.missed /\ count'[r] = count[r]
               /\ due'[r] > t.time

(* "No catch-up bursts": each time the clock strikes is claimed at most once, and
   only within five minutes of it; the times an outage left behind are skipped
   together and none of them is ever claimed. *)
NoBurst == [][\A r \in Campaigns : place[r] = "made" => OnTime(r)]_vars

(* "At most 20 recurring campaigns per server", with concurrent inserts. *)
QuotaHolds == Cardinality(waiting \cap Campaigns) <= Quota

(* What StudioPromise says, of the rows as staff and Discord see them: no send is
   granted before its time, and none to a row that is over, however a cancellation
   and a claim of the row overlap.  A send that was granted before the row was
   cancelled may still be posted: "an in-flight claim may still complete". *)
Stage == [r \in Rows |->
    IF r \in waiting THEN "open"
    ELSE IF place[r] = "new" THEN "new"
    ELSE IF place[r] \in {"asked", "counted"} THEN "asked" ELSE "over"]

Promise ==
    INSTANCE StudioPromise WITH
        clock <- now, stage <- Stage, time <- due, granted <- count

PromiseKept == Promise!Spec

(* The workers catch up: again and again no row is overdue, each having been
   claimed, given up or moved to a later time, whatever processes died and
   answers were lost on the way. *)
DueIsResolved == []<>(\A r \in waiting : due[r] > now)
=============================================================================
