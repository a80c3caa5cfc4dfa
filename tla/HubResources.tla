---------------------------- MODULE HubResources ----------------------------
(***************************************************************************)
(* The life of one Community Hub session in community_hub_runtime.py: its  *)
(* public card, thread and voice room are made one after the other, each   *)
(* planned in the database before it exists on Discord and recorded after; *)
(* one task per session cleans up when it has ended or is empty; a restart *)
(* recovers what the dead process left.                                    *)
(*                                                                         *)
(* The session's state is that of HubRoster, where "live" stands for all   *)
(* states from open to paused and `present' for its having participants.   *)
(* Every await is a step boundary.  What another client of Discord or the  *)
(* database may do meanwhile, and which call fails, is nondeterministic;   *)
(* MaxFaults bounds the failures and MaxCrashes the restarts.              *)
(***************************************************************************)
EXTENDS Naturals, FiniteSets

CONSTANTS
    Rooms,          \* the rooms this guild lets sessions have
    MaxCalls,       \* handlers at work at once
    MaxFaults, MaxCrashes

ASSUME ResourceAssumptions ==
    /\ Rooms \subseteq {"thread", "voice"}
    /\ MaxCalls \in Nat /\ MaxFaults \in Nat /\ MaxCrashes \in Nat

VARIABLES
    state, present,
    rec,        \* [Rooms -> state of its dank_community_managed_resources row]
    known,      \* rooms whose row has a discord_id
    disc,       \* [Rooms -> what is on Discord]
    late,       \* rooms planned when the session was already over
    prov,       \* where provision_session is
    calls,      \* handlers that changed the session and have yet to act on it
    task,       \* _cleanup_tasks[session]: where its runner is
    todo,       \* the rows the runner has listed: <<room, "id" if it had a discord_id>>
    failed,     \* the runner counted a failure
    boot,       \* where _reconcile_startup is
    due,        \* the rows it has listed: <<room, state, likewise>>
    old,        \* the session is of an earlier process
    up, lost, faults, crashes

session == <<state, present>>
rooms   == <<rec, known, disc, late>>
runner  == <<task, todo, failed>>
starter == <<boot, due, old>>
world   == <<up, faults, crashes>>
vars    == <<session, rooms, prov, calls, runner, starter, lost, world>>

Finals   == {"ended", "archived", "cleaned", "failed"}
Over     == Finals \cup {"ending"}
Endable  == {"creating", "live", "failed", "ending"}    \* where begin_end is no error
Recovery == {"planned", "active", "unresolved", "failed"}
Recs     == Recovery \cup {"none", "archived", "deleted"}
Discs    == {"absent", "there", "archived", "gone"}
Ids      == {"id", "no id"}
Calls    == {"end", "idle", "cancel", "empty", "voice"}

(* Program counters: a step, the room it is about, and the state to write. *)
Step(name) == <<name, "-", "-">>
Off == Step("off")

IdOf(r) == IF r \in known THEN "id" ELSE "no id"

(* Rows are listed in the order of creation: the thread comes first. *)
First(r, rows) == r = "thread" \/ \A row \in rows : row[1] # "thread"

At(pc, step) == up /\ pc[1] = step
AtRoom(pc, step, r) == At(pc, step) /\ pc[2] = r
Fault == faults < MaxFaults /\ faults' = faults + 1 /\ UNCHANGED <<up, crashes>>

(* The session is ending and nobody is left who would clean up. *)
Abandons ==
    lost' = \/ lost
            \/ /\ state' = "ending" /\ calls' \subseteq {"cancel"}
               /\ task'[1] = "off" /\ boot'[1] = "off" /\ prov'[1] # "fail"

Init ==
    /\ state = "none" /\ present = FALSE
    /\ rec = [r \in Rooms |-> "none"] /\ disc = [r \in Rooms |-> "absent"]
    /\ known = {} /\ late = {} /\ todo = {} /\ due = {} /\ calls = {}
    /\ prov = Off /\ task = Off /\ boot = Off
    /\ failed = FALSE /\ old = FALSE /\ lost = FALSE /\ up = TRUE
    /\ faults = 0 /\ crashes = 0

-----------------------------------------------------------------------------
(* provision_session *)

Create ==
    /\ up /\ state = "none"
    /\ state' = "creating" /\ present' = TRUE /\ prov' = Step("panel")
    /\ UNCHANGED <<rooms, calls, runner, starter, lost, world>>

(* Settings and permissions decide which rooms are made. *)
Following(done) == {Step("publish")} \cup {<<"plan", r, "-">> : r \in Rooms \ done}

SendPanel ==
    /\ At(prov, "panel")
    /\ prov' \in Following({})
    /\ UNCHANGED <<session, rooms, calls, runner, starter, lost, world>>

Plan(r) ==
    /\ AtRoom(prov, "plan", r)
    /\ rec' = [rec EXCEPT ![r] = "planned"]
    /\ late' = IF state \in Over THEN late \cup {r} ELSE late
    /\ prov' = <<"make", r, "-">>
    /\ UNCHANGED <<session, known, disc, calls, runner, starter, lost, world>>

Make(r) ==
    /\ AtRoom(prov, "make", r)
    /\ disc' = [disc EXCEPT ![r] = "there"]
    /\ prov' = <<"keep", r, "-">>
    /\ UNCHANGED <<session, rec, known, late, calls, runner, starter, lost, world>>

(* finalize_resource. *)
Keep(r) ==
    /\ AtRoom(prov, "keep", r)
    /\ rec' = [rec EXCEPT ![r] = "active"] /\ known' = known \cup {r}
    /\ prov' \in Following({r, "thread"})
    /\ UNCHANGED <<session, disc, late, calls, runner, starter, lost, world>>

(* Refused to a host who has left meanwhile. *)
Publish ==
    /\ At(prov, "publish")
    /\ state' \in IF state = "creating" THEN {"live", "creating"} ELSE {state}
    /\ prov' = Off
    /\ UNCHANGED <<present, rooms, calls, runner, starter, lost, world>>

(* A room that cannot be made, or whose row cannot be written, is given up.  Unless
   Discord forbids it ("failed") it may have been made all the same. *)
RoomFails(r) ==
    /\ prov[1] \in {"plan", "make", "keep"} /\ AtRoom(prov, prov[1], r) /\ Fault
    /\ CASE prov[1] = "make" ->
              \E st \in {"failed", "unresolved"} :
                  /\ rec' = [rec EXCEPT ![r] = st]
                  /\ \/ UNCHANGED disc
                     \/ st = "unresolved" /\ disc' = [disc EXCEPT ![r] = "there"]
         [] OTHER -> UNCHANGED <<rec, disc>>
    /\ prov' \in Following({r, "thread"})
    /\ UNCHANGED <<session, known, late, calls, runner, starter, lost>>

(* The card cannot be sent: begin_end, then finalize_end_session as "failed". *)
PanelFails ==
    /\ At(prov, "panel") /\ Fault
    /\ prov' \in {Step("withdraw"), Off}
    /\ UNCHANGED <<session, rooms, calls, runner, starter, lost>>

Withdraw ==
    /\ At(prov, "withdraw")
    /\ \/ state \in Endable /\ present /\ state' = "ending" /\ prov' = Step("fail")
       \/ prov' = Off /\ UNCHANGED state     \* refused: it is over, or has another host
    /\ UNCHANGED <<present, rooms, calls, runner, starter, lost, world>>

FailSession ==
    /\ At(prov, "fail")
    /\ state' = IF state = "cleaned" THEN state ELSE "failed"
    /\ prov' = Off
    /\ UNCHANGED <<present, rooms, calls, runner, starter, lost, world>>

(* The operation's timeout, or a failing statement, ends it anywhere. *)
ProvisionStops ==
    /\ up /\ prov[1] # "off" /\ Fault
    /\ prov' = Off
    /\ UNCHANGED <<session, rooms, calls, runner, starter>>
    /\ IF prov[1] = "fail" THEN Abandons ELSE UNCHANGED lost

-----------------------------------------------------------------------------
(* Handlers.  Each changes the session in one statement and then, awaits later,
   schedules or cancels the cleanup.  The session's mutations exclude each other,
   but only the public card's handlers act on the task before they let go. *)

Starts(call) ==
    /\ up /\ Cardinality(calls) < MaxCalls
    /\ calls' = calls \cup {call}

BeginEnd(call) ==
    /\ Starts(call)
    /\ state \in Endable
    /\ state' = "ending"
    /\ UNCHANGED <<present, rooms, prov, runner, lost, world>>

End == BeginEnd("end") /\ UNCHANGED starter

(* Mutant: only published sessions expire. *)
Expire_LiveOnly == state = "live" /\ BeginEnd("idle") /\ UNCHANGED starter

(* _expire_idle_sessions, at the latest when the session is too old. *)
Expire == state \in {"creating", "live"} /\ BeginEnd("idle") /\ UNCHANGED starter

(* The same with a session that was ended after it was listed. *)
ExpireLate == state = "ending" /\ BeginEnd("idle") /\ UNCHANGED starter

Join ==
    /\ Starts("cancel") /\ state = "live"
    /\ present' = TRUE
    /\ UNCHANGED <<state, rooms, prov, runner, starter, lost, world>>

(* The last participant leaves. *)
Leave ==
    /\ Starts("empty") /\ present /\ "end" \notin calls
    /\ present' = FALSE
    /\ state' = IF state = "creating" THEN "live" ELSE state
    /\ UNCHANGED <<rooms, prov, runner, starter, lost, world>>

(* The voice room empties: _voice_sessions knows the recorded ones. *)
VoiceEmpties ==
    /\ Starts("voice") /\ state = "ending"
    /\ "voice" \in known /\ disc["voice"] = "there"
    /\ UNCHANGED <<session, rooms, prov, runner, starter, lost, world>>

Schedule(how) == task' = IF task[1] = "off" THEN Step(how) ELSE task

(* A task that is being cancelled is not done yet, and refuses its successor. *)
FollowUp(call) ==
    /\ up /\ call \in calls
    /\ calls' = calls \ {call}
    /\ CASE call = "cancel" -> task' = IF task[1] = "off" THEN Off ELSE Step("cancelled")
         [] call = "empty"  -> Schedule("empty")
         [] OTHER           -> Schedule("wait")
    /\ UNCHANGED <<session, rooms, prov, todo, failed, starter, lost, world>>

(* A failing statement in between: settings_for, the metrics, the response. *)
CallFails(call) ==
    /\ up /\ call \in calls /\ Fault
    /\ calls' = calls \ {call}
    /\ UNCHANGED <<session, rooms, prov, runner, starter>>
    /\ Abandons

-----------------------------------------------------------------------------
(* The cleanup task *)

Leaves == task' = Off /\ todo' = {} /\ failed' = FALSE

(* The grace period of an empty session is over: its members are read ... *)
CheckMembers ==
    /\ At(task, "empty")
    /\ UNCHANGED <<session, rooms, prov, calls, starter, world>>
    /\ IF present THEN Leaves /\ Abandons
                  ELSE task' = Step("state") /\ UNCHANGED <<todo, failed, lost>>

(* ... then its state ... *)
CheckState ==
    /\ At(task, "state")
    /\ CASE state = "ending"            -> task' = Step("wait") /\ UNCHANGED <<todo, failed>>
         [] state \in Finals \ {"failed"} -> Leaves
         [] OTHER                       -> task' = Step("commit") /\ UNCHANGED <<todo, failed>>
    /\ UNCHANGED <<session, rooms, prov, calls, starter, lost, world>>

(* ... then it is ended, unless somebody else has. *)
CommitEnd ==
    /\ At(task, "commit")
    /\ UNCHANGED <<present, rooms, prov, calls, starter, world>>
    /\ IF state \in Endable
       THEN state' = "ending" /\ task' = Step("wait") /\ UNCHANGED <<todo, failed, lost>>
       ELSE UNCHANGED <<state, lost>> /\ Leaves

(* Mutant: rows without a Discord id are passed over. *)
Listed_KnownOnly == {<<r, "id">> : r \in {q \in known : rec[q] # "deleted"}}

Listed == {<<r, IdOf(r)>> : r \in {q \in Rooms : rec[q] \notin {"none", "deleted"}}}

(* cleanup_session_now. *)
List ==
    /\ At(task, "wait")
    /\ IF state \in Over \ {"cleaned"}
       THEN task' = Step("clean") /\ todo' = Listed /\ failed' = FALSE
       ELSE Leaves
    /\ UNCHANGED <<session, rooms, prov, calls, starter, lost, world>>

(* Mutant: a room without an id is filed with the archived ones. *)
Unproven_Archived == "archived"

(* "No proven Discord resource ID means no destructive cleanup." *)
Unproven == "unresolved"

SkipUnproven(r) ==
    /\ At(task, "clean") /\ <<r, "no id">> \in todo /\ First(r, todo)
    /\ rec' = [rec EXCEPT ![r] = Unproven]
    /\ todo' = todo \ {<<r, "no id">>} /\ failed' = TRUE
    /\ UNCHANGED <<session, known, disc, late, prov, calls, task, starter, lost, world>>

(* A voice room is deleted; a thread is archived or deleted, as the guild likes. *)
RemoveRoom(r) ==
    /\ At(task, "clean") /\ <<r, "id">> \in todo /\ First(r, todo)
    /\ todo' = todo \ {<<r, "id">>}
    /\ \/ /\ disc' = [disc EXCEPT ![r] = "gone"]
          /\ task' = <<"mark", r, "deleted">>
       \/ /\ r = "thread" /\ disc[r] # "gone"
          /\ disc' = [disc EXCEPT ![r] = "archived"]
          /\ task' = <<"mark", r, "archived">>
    /\ UNCHANGED <<session, rec, known, late, prov, calls, failed, starter, lost, world>>

RemoveFails(r) ==
    /\ At(task, "clean") /\ <<r, "id">> \in todo /\ First(r, todo) /\ Fault
    /\ todo' = todo \ {<<r, "id">>} /\ failed' = TRUE /\ task' = <<"mark", r, "failed">>
    /\ disc' \in {disc, [disc EXCEPT ![r] = "gone"]}
    /\ UNCHANGED <<session, rec, known, late, prov, calls, starter, lost>>

MarkRoom(r) ==
    /\ AtRoom(task, "mark", r)
    /\ rec' = [rec EXCEPT ![r] = task[3]]
    /\ task' = Step("clean")
    /\ UNCHANGED <<session, known, disc, late, prov, calls, todo, failed, starter, lost, world>>

Finalize ==
    /\ At(task, "clean") /\ todo = {}
    /\ state' = IF state = "cleaned" THEN state ELSE IF failed THEN "ended" ELSE "cleaned"
    /\ Leaves
    /\ UNCHANGED <<present, rooms, prov, calls, starter, lost, world>>

(* The exception of a failing statement, or the cancellation, reaches the task. *)
TaskFails ==
    /\ up /\ task[1] # "off" /\ Fault
    /\ Leaves /\ UNCHANGED <<session, rooms, prov, calls, starter>>
    /\ Abandons

TaskCancelled ==
    /\ At(task, "cancelled")
    /\ Leaves /\ UNCHANGED <<session, rooms, prov, calls, starter, world>>
    /\ Abandons

-----------------------------------------------------------------------------
(* Restart *)

Crash ==
    /\ up /\ crashes < MaxCrashes
    /\ up' = FALSE /\ crashes' = crashes + 1 /\ old' = (state # "none")
    /\ prov' = Off /\ calls' = {} /\ boot' = Off /\ due' = {} /\ lost' = FALSE
    /\ Leaves
    /\ UNCHANGED <<session, rooms, faults>>

Boot ==
    /\ ~ up
    /\ up' = TRUE /\ boot' = Step("list")
    /\ UNCHANGED <<session, rooms, prov, calls, runner, due, old, lost, faults, crashes>>

Due == {<<r, rec[r], IdOf(r)>> : r \in {q \in Rooms : rec[q] \in Recovery}}

(* _reconcile_startup, first part: the rows that may name something on Discord. *)
ListDue ==
    /\ At(boot, "list")
    /\ due' = Due
    /\ boot' = Step("rooms")
    /\ UNCHANGED <<session, rooms, prov, calls, runner, old, lost, world>>

(* Mutant: what is not cached is taken to be gone. *)
FindKnown_Cached(r, st) ==
    LET new == CASE disc[r] = "there" -> "active"
                 [] st = "active"     -> "keep"
                 [] OTHER             -> "deleted"
    IN  boot' = IF new \in {"keep", st} THEN Step("rooms") ELSE <<"write", r, new>>

(* _reconcile_resource of a room whose id is known, but for the final statement:
   a cached one is there, archived threads are not cached. *)
FindKnown(r, st) ==
    LET new == CASE disc[r] = "there" -> "active"
                 [] st = "active"     -> "keep"
                 [] disc[r] = "gone"  -> "deleted"
                 [] OTHER             -> "active"
    IN  boot' = IF new \in {"keep", st} THEN Step("rooms") ELSE <<"write", r, new>>

(* Without an id the audit log may tell, if the bot may read it. *)
FindUnknown(r) ==
    boot' \in {<<"write", r, "unresolved">>}
              \cup (IF disc[r] # "absent" THEN {<<"write", r, "found">>} ELSE {})

Reconcile(r) ==
    /\ At(boot, "rooms")
    /\ \E row \in due :
          /\ row[1] = r /\ First(r, due) /\ due' = due \ {row}
          /\ IF row[3] = "id" THEN FindKnown(r, row[2]) ELSE FindUnknown(r)
    /\ UNCHANGED <<session, rooms, prov, calls, runner, old, lost, world>>

(* Mutant: the outcome is written as it is. *)
Written_Raw(new) == new

Written(new) == IF new = "found" THEN "active" ELSE new

WriteFound(r) ==
    /\ AtRoom(boot, "write", r)
    /\ rec' = [rec EXCEPT ![r] = Written(boot[3])]
    /\ known' = IF boot[3] = "found" THEN known \cup {r} ELSE known
    /\ boot' = Step("rooms")
    /\ UNCHANGED <<session, disc, late, prov, calls, runner, due, old, lost, world>>

(* Discord does not tell, or a statement fails: the row is left to staff. *)
ReconcileFails(r) ==
    /\ AtRoom(boot, "write", r) /\ Fault
    /\ rec' \in {rec, [rec EXCEPT ![r] = "unresolved"]}
    /\ boot' = Step("rooms")
    /\ UNCHANGED <<session, known, disc, late, prov, calls, runner, due, old, lost>>

(* Mutant: only sessions that were not published are looked for. *)
Resumed_Never == FALSE

Resumed == state = "ending"

(* Second part: "sessions owned by the previous process must not remain zombies". *)
ListSessions ==
    /\ At(boot, "rooms") /\ due = {}
    /\ IF Resumed THEN Schedule("wait") ELSE UNCHANGED task
    /\ boot' = IF state = "creating" /\ old THEN Step("orphan") ELSE Off
    /\ UNCHANGED <<session, rooms, prov, calls, todo, failed, due, old, lost, world>>

EndOrphan ==
    /\ At(boot, "orphan")
    /\ boot' = Off /\ UNCHANGED <<due, old>>
    /\ IF state \in Endable THEN BeginEnd("idle")
       ELSE UNCHANGED <<session, rooms, prov, calls, runner, lost, world>>

(* "startup reconcile skipped", "session-state reconcile degraded". *)
StartupFails ==
    /\ up /\ boot[1] \in {"list", "rooms", "orphan"} /\ Fault
    /\ boot' = Off /\ due' = {}
    /\ UNCHANGED <<session, rooms, prov, calls, runner, old>>
    /\ Abandons

(* Somebody with the right to deletes a room. *)
AdminDeletes(r) ==
    /\ disc[r] \in {"there", "archived"} /\ Fault
    /\ disc' = [disc EXCEPT ![r] = "gone"]
    /\ UNCHANGED <<session, rec, known, late, prov, calls, runner, starter, lost>>

-----------------------------------------------------------------------------
ProvisionStep ==
    \/ SendPanel \/ Publish \/ Withdraw \/ FailSession
    \/ \E r \in Rooms : Plan(r) \/ Make(r) \/ Keep(r)

TaskStep ==
    \/ CheckMembers \/ CheckState \/ CommitEnd \/ List \/ Finalize \/ TaskCancelled
    \/ \E r \in Rooms : SkipUnproven(r) \/ RemoveRoom(r) \/ MarkRoom(r)

StartStep ==
    \/ ListDue \/ ListSessions \/ EndOrphan
    \/ \E r \in Rooms : Reconcile(r) \/ WriteFound(r)

Failure ==
    \/ PanelFails \/ ProvisionStops \/ TaskFails \/ StartupFails
    \/ \E r \in Rooms : RoomFails(r) \/ RemoveFails(r) \/ ReconcileFails(r) \/ AdminDeletes(r)
    \/ \E call \in Calls : CallFails(call)

Request == Create \/ End \/ Join \/ Leave \/ VoiceEmpties

Next ==
    \/ Request \/ Expire \/ ExpireLate \/ ProvisionStep \/ TaskStep \/ StartStep \/ Failure
    \/ Crash \/ Boot
    \/ \E call \in Calls : FollowUp(call)

Spec == Init /\ [][Next]_vars

(* The event loop runs what is ready, timers fire, the supervisor restarts the
   bot, and the maintenance loop comes round.  Nobody needs to press a button. *)
FairSpec ==
    /\ Spec
    /\ WF_vars(ProvisionStep) /\ WF_vars(TaskStep) /\ WF_vars(StartStep)
    /\ WF_vars(Boot) /\ WF_vars(Expire)
    /\ \A call \in Calls : WF_vars(FollowUp(call))

-----------------------------------------------------------------------------
Provs == {"off", "panel", "publish", "withdraw", "fail"} \X {"-"} \X {"-"}
         \cup {"plan", "make", "keep"} \X Rooms \X {"-"}
Tasks == {"off", "empty", "state", "commit", "wait", "clean", "cancelled"} \X {"-"} \X {"-"}
         \cup {"mark"} \X Rooms \X {"deleted", "archived", "failed"}
Boots == {"off", "list", "rooms", "orphan"} \X {"-"} \X {"-"}
         \cup {"write"} \X Rooms \X {"active", "deleted", "unresolved", "found"}

(* Rows, rooms and program counters stay in their domains. *)
TypeOK ==
    /\ state \in {"none", "creating", "live"} \cup Over /\ present \in BOOLEAN
    /\ rec \in [Rooms -> Recs] /\ disc \in [Rooms -> Discs]
    /\ known \subseteq Rooms /\ late \subseteq Rooms
    /\ todo \subseteq Rooms \X Ids /\ due \subseteq Rooms \X Recovery \X Ids
    /\ calls \subseteq Calls
    /\ prov \in Provs /\ task \in Tasks /\ boot \in Boots
    /\ failed \in BOOLEAN /\ old \in BOOLEAN /\ up \in BOOLEAN /\ lost \in BOOLEAN
    /\ faults \in 0..MaxFaults /\ crashes \in 0..MaxCrashes

(* A session is "cleaned" only when no room planned before it ended is open,
   whatever was recorded by then and whoever ran the cleanup. *)
CleanedLeavesNothing ==
    state = "cleaned" => \A r \in Rooms \ late : disc[r] # "there"

(* A room the bot made is never forgotten: as long as it is open, either its row
   has its id or the next start looks for it in the audit log. *)
RoomsAreFound ==
    \A r \in Rooms : disc[r] = "there" => r \in known \/ rec[r] \in Recovery \ {"active"}

(* A row says "deleted" only of a room that is gone, although the startup pass
   and the cleanup may both have it in hand. *)
DeletedIsGone == \A r \in Rooms : rec[r] = "deleted" => disc[r] = "gone"

(* A session that is ending is finalised, across restarts, unless the last one at
   work on it failed, was cancelled by a late join, or was an empty session's task
   that found a member and left: schedule_cleanup had refused the one who ended the
   session while that task was pending. *)
EndingIsResolved == state = "ending" ~> state \in Finals \/ lost

(* A session is not left unpublished: its process, the next one or the expiry
   ends it. *)
CreatingEnds == state = "creating" ~> state # "creating"

(* "Session is ending.  New joins are stopped and temporary spaces will clean up
   after the server's grace period." *)
EndingIsCleanedUp == state = "ending" ~> state \in Finals

NoRoomIsLeft == state = "cleaned" => \A r \in Rooms : disc[r] # "there"
=============================================================================
