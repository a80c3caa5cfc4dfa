-------------------------- MODULE TicketLifecycle --------------------------
(***************************************************************************)
(* The row of one ticket under everybody who writes it.                    *)
(*                                                                         *)
(* The operations of tickets_new/service.py run under the ticket's         *)
(* mutation lock: each reads the row, asks claim_policy.py whether its     *)
(* actor may do this, and calls tickets_new/repository.py, which reads the *)
(* row twice more and then writes it by id, whatever the row is by then.   *)
(* Others write the same row without that lock: the channel synchroniser   *)
(* and the name cache, the guild owner's emergency override (a lock of its *)
(* own), the cleanup after a member who left, and ticket_events.py when    *)
(* Discord says the channel is gone.                                       *)
(*                                                                         *)
(* Every read and every write is an action of its own.  A failed read is   *)
(* taken as "no row"; a failed write may or may not have happened; a       *)
(* request whose caller timed out or died may still land later.            *)
(***************************************************************************)
EXTENDS Naturals

CONSTANTS
    Staff,              \* members who can claim
    GuildOwner,         \* the guild's owner
    Requester,          \* the member the ticket is for
    System,             \* a close without an actor: inactivity, departed member
    Calls,              \* the calls that may be made
    Sweeper,            \* the periodic search for tickets without a channel
    Swept,              \* whether it covers this ticket: no ghost, its row has its IDs
    Asked,              \* the requests that are made
    StartRows,          \* rows a ticket may have at the start
    MaxTries,           \* attempts to mark a ticket deleted, 3 in the code
    MaxFaults,          \* bound on failed reads and writes, timeouts, restarts
    None, Keep

Locked    == {"claim", "unclaim", "transfer", "annotate", "close", "reopen", "delete"}
Emergency == {"etransfer", "eunclaim", "edelete"}
Unlocked  == Emergency \cup {"touch", "sync", "external", "departed"}

OpenLike == {"open", "claimed"}
Statuses == OpenLike \cup {"closed", "deleted"}
Rows     == [status : Statuses, by : Staff \cup {None}]
Patches  == [status : Statuses \cup {Keep}, by : Staff \cup {None, Keep}]

\* What may be asked, and by whom.
Requests ==
    {r \in [kind : Locked \cup Unlocked,
            who : Staff \cup {GuildOwner, Requester, System}, to : Staff \cup {None}] :
        /\ r.to # None <=> r.kind \in {"claim", "transfer", "etransfer"}
        /\ r.kind = "claim" => r.who = r.to
        /\ r.kind \in {"transfer", "unclaim", "annotate", "reopen", "delete"}
              => r.who \in Staff \cup {GuildOwner}
        /\ r.kind \in Emergency => r.who = GuildOwner
        /\ r.kind \in {"touch", "sync", "external", "departed"} => r.who = System}

ASSUME LifecycleAssumptions ==
    /\ Asked \subseteq Requests
    /\ StartRows \subseteq {r \in Rows : r.status = "claimed" => r.by # None}
    /\ MaxTries \in Nat \ {0} /\ MaxFaults \in Nat /\ Swept \in BOOLEAN
    /\ Sweeper \notin Calls /\ None \notin Calls \cup {Sweeper}
    /\ None \notin Staff /\ Keep \notin Staff /\ None # Keep
    /\ Keep \notin Statuses /\ None \notin Statuses \cup Locked \cup Unlocked
    /\ Requester \notin Staff /\ System \notin Staff
    /\ GuildOwner # Requester /\ GuildOwner # System /\ Requester # System

VARIABLES
    row,                \* status and claimant in the tickets table
    channel,            \* the ticket's channel is still there
    mutex,              \* holder of _ticket_mutation_lock, or None
    override,           \* holder of the emergency override's lock, or None
    pc,                 \* where each call is
    call,               \* what it was asked: kind, actor, target
    op,                 \* the repository function it is in
    patch,              \* what it wants to write, then what it writes
    tries,              \* its attempts to mark the ticket deleted
    disturbed,          \* the row changed without the lock since its holder decided
    late,               \* writes whose caller is gone
    faults

locals == <<pc, call, op, patch, tries>>
vars   == <<row, channel, mutex, override, locals, disturbed, late, faults>>

Workers == Calls \cup {Sweeper}
Ops     == {"claim", "unclaim", "transfer", "close", "reopen", "delete",
            "touch", "sync", None}
Steps   == {"new", "check", "lock", "decide", "guard", "prepare", "write",
            "remove", "done"}

Kind(c) == call[c].kind
Who(c)  == call[c].who

SweepRequest == [kind |-> "external", who |-> System, to |-> None]

Init ==
    /\ row \in StartRows
    /\ channel = TRUE
    /\ mutex = None /\ override = None
    /\ pc = [c \in Workers |-> "new"]
    /\ call = [c \in Workers |-> SweepRequest]
    /\ op = [c \in Workers |-> None]
    /\ patch = [c \in Workers |-> [status |-> Keep, by |-> Keep]]
    /\ tries = [c \in Workers |-> 0]
    /\ disturbed = FALSE /\ late = {} /\ faults = 0

-----------------------------------------------------------------------------
(* The row as the code reads it, and what the policy makes of it.          *)

\* A row stored open with a claimant is read as claimed.
Normal(r) ==
    IF r.status = "open" /\ r.by # None THEN [r EXCEPT !.status = "claimed"] ELSE r

\* Mutant: any member may act, whoever the claimant is.
Allowed_AnyMember(r, action, who) ==
    \/ who \in {System, GuildOwner} \cup Staff
    \/ who = Requester /\ action = "close" /\ r.status = "open"

\* evaluate_ticket_action for the ordinary actions; r is a normal row.
Allowed(r, action, who) ==
    LET timely == IF action \in {"delete", "reopen"} THEN r.status = "closed"
                  ELSE r.status \in OpenLike
    IN  \/ who = System
        \/ who = GuildOwner /\ timely
        \/ who = Requester /\ action = "close" /\ r.status = "open"
        \/ who \in Staff /\ r.by = who /\ timely

\* The checks each operation makes on the row it read, the no-ops included:
\* when they fail it answers without a write.
Proceeds(r, k, who, to) ==
    CASE k = "claim"     -> /\ r.status \in OpenLike
                            /\ r.by = None
      [] k = "unclaim"   -> r.status = "claimed" /\ Allowed(r, k, who)
      [] k = "transfer"  -> Allowed(r, k, who) /\ r.by # to
      [] k = "annotate"  -> Allowed(r, k, who)
      [] k = "close"     -> Allowed(r, k, who) /\ r.status # "deleted"
      [] k \in {"reopen", "delete"} -> r.status = "closed" /\ Allowed(r, k, who)
      [] k = "etransfer" -> r.status \in OpenLike /\ r.by # to
      [] k = "eunclaim"  -> r.status \in OpenLike /\ r.by # None
      [] k = "edelete"   -> r.status = "closed"
      [] k = "external"  -> r.status # "deleted"
      [] k = "departed"  -> r.status \in OpenLike
      [] OTHER           -> TRUE

-----------------------------------------------------------------------------
(* repository.py: what an update asks for and what is written.             *)

Payload(o, to) ==
    CASE o \in {"claim", "transfer"} -> [status |-> "claimed", by |-> to]
      [] o \in {"unclaim", "reopen"} -> [status |-> "open", by |-> None]
      [] o = "close"                 -> [status |-> "closed", by |-> Keep]
      [] o = "delete"                -> [status |-> "deleted", by |-> Keep]
      [] OTHER                       -> [status |-> Keep, by |-> Keep]

\* The check a repository function makes on the row it read.
Needed(r, o, to) ==
    CASE o \in {"claim", "transfer"} ->
            r.status \in OpenLike /\ ~(r.status = "claimed" /\ r.by = to)
      [] o = "unclaim"               -> r.status = "claimed"
      [] o = "close"                 -> r.status \in OpenLike
      [] o = "reopen"                -> r.status \in {"claimed", "closed"}
      [] o = "delete"                -> r.status = "closed"
      [] OTHER                       -> TRUE

Requested(r, p) == IF p.status = Keep THEN r.status ELSE p.status
Assignee(r, p)  == IF p.by \in Staff THEN p.by ELSE r.by

\* Transitions that _prepare_ticket_update refuses.
Rejected(r, p) ==
    \/ r.status = "deleted" /\ Requested(r, p) # "deleted"
    \/ r.status \in OpenLike /\ Requested(r, p) = "deleted"
    \/ /\ Requested(r, p) = "claimed" /\ p.by \notin Staff
       /\ (r.status = "closed" \/ r.by = None)

\* Mutant: the claimant it read is not sent along with the status.
Prepared_StatusOnly(r, p) == [status |-> Requested(r, p), by |-> p.by]

\* Every update carries a status, and the claimant it read if it has none.
Prepared(r, p) ==
    [status |-> Requested(r, p),
     by |-> IF Assignee(r, p) = None /\ Requested(r, p) \notin OpenLike
            THEN p.by ELSE Assignee(r, p)]

Apply(r, p) ==
    [status |-> IF p.status = Keep THEN r.status ELSE p.status,
     by |-> IF p.by = Keep THEN r.by ELSE p.by]

\* What the synchroniser makes of the row it read, of the channel it sees and
\* of the claimant it guesses from recent messages, who fills an empty place.
Synced(r, looksClosed, guess) ==
    LET claimant == IF r.by # None THEN r.by ELSE guess
    IN  [status |-> CASE r.status \notin OpenLike -> r.status
                      [] looksClosed              -> "closed"
                      [] claimant # None          -> "claimed"
                      [] OTHER                    -> "open",
         by |-> claimant]

-----------------------------------------------------------------------------
(* How a call moves on.                                                    *)

Fault == faults < MaxFaults /\ faults' = faults + 1
Fine  == faults' = faults

Held(c)   == mutex = c
Unlock(c) == mutex' = IF Held(c) THEN None ELSE mutex

\* The row may change without the lock while its holder acts on what it read.
Watch(unlocked) ==
    disturbed' = /\ mutex # None /\ mutex' = mutex
                 /\ disturbed \/ (unlocked /\ row' # row)

\* The call is over; the flows that delete a ticket still remove its channel.
End(c) ==
    /\ Unlock(c)
    /\ op' = [op EXCEPT ![c] = None]
    /\ patch' = [patch EXCEPT ![c] = [status |-> Keep, by |-> Keep]]
    /\ IF \/ Kind(c) = "delete" /\ pc[c] # "remove"
          \/ Kind(c) = "departed" /\ pc[c] \notin {"decide", "remove"}
       THEN /\ pc' = [pc EXCEPT ![c] = "remove"]
            /\ UNCHANGED <<call, tries, override>>
       ELSE /\ pc' = [pc EXCEPT ![c] = IF c = Sweeper THEN "new" ELSE "done"]
            /\ call' = [call EXCEPT ![c] = SweepRequest]
            /\ tries' = [tries EXCEPT ![c] = 0]
            /\ override' = IF override = c THEN None ELSE override

\* The call is answered before it holds anything.
Refused(c) == /\ pc' = [pc EXCEPT ![c] = "done"]
              /\ call' = [call EXCEPT ![c] = SweepRequest]

\* The call goes into repository function o with what it wants written.
Enter(c, o, p) ==
    /\ op' = [op EXCEPT ![c] = o]
    /\ patch' = [patch EXCEPT ![c] = p]
    /\ pc' = [pc EXCEPT ![c] = IF o \in {"touch", "sync"} THEN "prepare" ELSE "guard"]
    /\ tries' = [tries EXCEPT ![c] =
                    IF Kind(c) = "edelete" /\ o = "delete" THEN @ + 1 ELSE @]
    /\ UNCHANGED override

\* Mutant: one attempt too many.
NextOps_OneMore(c, ok) ==
    CASE Kind(c) = "edelete" -> IF tries[c] <= MaxTries THEN {"delete"} ELSE {None}
      [] OTHER -> {None}

\* What follows the repository function the call is in; ok is its answer.
NextOps(c, ok) ==
    IF op[c] = "touch" THEN {None}
    ELSE CASE Kind(c) = "close"  -> {"touch"}
           [] Kind(c) = "reopen" -> {"touch", None}
           [] Kind(c) = "sync"   -> IF ok THEN {"touch"} ELSE {None}
           [] Kind(c) \in {"claim", "transfer", "etransfer"} ->
                IF ok THEN {"touch", None} ELSE {None}
           [] Kind(c) = "external" -> IF op[c] = "close" THEN {"delete"} ELSE {None}
           [] Kind(c) = "departed" -> IF op[c] = "delete" /\ ~ok THEN {"close"} ELSE {None}
           [] Kind(c) = "edelete"  -> {o \in {"delete", None} :
                                        IF o = None THEN ok \/ tries[c] = MaxTries
                                        ELSE tries[c] < MaxTries}
           [] OTHER -> {None}

Continue(c, ok) ==
    \E o \in NextOps(c, ok) :
        IF o = None THEN End(c)
        ELSE /\ Enter(c, o, IF Kind(c) = "sync" THEN [status |-> Keep, by |-> call[c].to]
                            ELSE Payload(o, None))
             /\ UNCHANGED <<call, mutex>>

\* Mutant: a vanished ticket is marked deleted without being closed first.
FirstOps_NoClose(r, k) ==
    CASE k = "external"  -> {"delete"}
      [] k = "annotate"  -> {"touch"}
      [] k = "sync"      -> {"touch", "sync"}
      [] k = "etransfer" -> {"transfer"}
      [] k = "eunclaim"  -> {"unclaim"}
      [] k = "departed"  -> {"delete"}
      [] OTHER           -> {k}

\* What a call does first with the row r it read.
FirstOps(r, k) ==
    CASE k = "close"     -> {IF r.status = "closed" THEN "touch" ELSE "close"}
      [] k = "external"  -> {IF r.status = "closed" THEN "delete" ELSE "close"}
      [] k = "annotate"  -> {"touch"}
      [] k = "sync"      -> {"touch", "sync"}
      [] k = "etransfer" -> {"transfer"}
      [] k = "eunclaim"  -> {"unclaim"}
      [] k = "departed"  -> {"delete"}
      [] OTHER           -> {k}

-----------------------------------------------------------------------------
(* A call starts, and waits for its lock.                                  *)

Begin(c) ==
    /\ pc[c] = "new" /\ c # Sweeper
    /\ \E r \in Asked :
        /\ channel <=> r.kind # "external"
        /\ call' = [call EXCEPT ![c] = r]
        /\ op' = [op EXCEPT ![c] = IF r.kind = "touch" THEN "touch" ELSE None]
        /\ pc' = [pc EXCEPT ![c] = CASE r.kind = "delete" -> "check"
                                     [] r.kind \in (Locked \ {"delete"}) \cup Emergency -> "lock"
                                     [] r.kind = "touch" -> "prepare"
                                     [] OTHER -> "decide"]
    /\ UNCHANGED <<row, channel, mutex, override, patch, tries, disturbed, late, faults>>

\* A pass over the tickets not yet deleted finds the channel gone.  It skips
\* ghosts and rows without a channel's ID.
Sweep ==
    /\ Swept
    /\ pc[Sweeper] = "new" /\ ~channel /\ row.status # "deleted"
    /\ pc' = [pc EXCEPT ![Sweeper] = "decide"]
    /\ UNCHANGED <<row, channel, mutex, override, call, op, patch, tries,
                   disturbed, late, faults>>

\* The deletion flow asks the policy before it starts.
Check(c) ==
    /\ pc[c] = "check"
    /\ \/ /\ Fine /\ Proceeds(Normal(row), "delete", Who(c), None)
          /\ pc' = [pc EXCEPT ![c] = "lock"] /\ UNCHANGED call
       \/ /\ (Fine /\ ~Proceeds(Normal(row), "delete", Who(c), None)) \/ Fault
          /\ Refused(c)
    /\ UNCHANGED <<row, channel, mutex, override, op, patch, tries, disturbed, late>>

\* Mutant: each call finds a lock of its own.
AcquireMutex_OwnLock(c) ==
    /\ pc[c] = "lock" /\ Kind(c) \in Locked
    /\ mutex' = c
    /\ pc' = [pc EXCEPT ![c] = "decide"]
    /\ Watch(FALSE)
    /\ UNCHANGED <<row, channel, override, call, op, patch, tries, late, faults>>

AcquireMutex(c) ==
    /\ pc[c] = "lock" /\ Kind(c) \in Locked
    /\ mutex = None
    /\ mutex' = c
    /\ pc' = [pc EXCEPT ![c] = "decide"]
    /\ Watch(FALSE)
    /\ UNCHANGED <<row, channel, override, call, op, patch, tries, late, faults>>

\* Another override in progress is an answer, not a wait.
AcquireOverride(c) ==
    /\ pc[c] = "lock" /\ Kind(c) \in Emergency
    /\ IF override = None
       THEN override' = c /\ pc' = [pc EXCEPT ![c] = "decide"] /\ UNCHANGED call
       ELSE UNCHANGED override /\ Refused(c)
    /\ UNCHANGED <<row, channel, mutex, op, patch, tries, disturbed, late, faults>>

-----------------------------------------------------------------------------
(* The reads: a failed one is taken as a missing row.                      *)

\* The operation reads the row and decides whether to go on.
Decide(c) ==
    /\ pc[c] = "decide"
    /\ \/ /\ Fine /\ Proceeds(Normal(row), Kind(c), Who(c), call[c].to)
          /\ UNCHANGED mutex
          /\ \E o \in FirstOps(Normal(row), Kind(c)) :
                IF o = "edelete"
                THEN /\ pc' = [pc EXCEPT ![c] = "remove"]
                     /\ UNCHANGED <<override, call, op, patch, tries>>
                ELSE IF o = "sync"
                THEN \E closed \in BOOLEAN, guess \in Staff \cup {None} :
                        LET synced == Synced(Normal(row), closed, guess)
                        IN  /\ Enter(c, o, synced)
                            /\ call' = [call EXCEPT ![c].to = synced.by]
                ELSE /\ Enter(c, o, Payload(o, call[c].to))
                     /\ UNCHANGED call
       \/ /\ Fine /\ ~Proceeds(Normal(row), Kind(c), Who(c), call[c].to)
          /\ End(c)
       \/ Fault /\ End(c)
    /\ disturbed' = (disturbed /\ ~Held(c))
    /\ UNCHANGED <<row, channel, late>>

\* The repository function reads the row and may find nothing left to do.
Guard(c) ==
    /\ pc[c] = "guard"
    /\ LET go == /\ pc' = [pc EXCEPT ![c] = "prepare"]
                 /\ UNCHANGED <<override, mutex, call, op, patch, tries>>
       IN  \/ Fine /\ Needed(Normal(row), op[c], call[c].to) /\ go
           \/ /\ Fine /\ ~Needed(Normal(row), op[c], call[c].to)
              /\ Continue(c, Normal(row).status = patch[c].status)
           \/ Fault /\ go
    /\ UNCHANGED <<row, channel, late>>
    /\ Watch(FALSE)

\* The update reads the row again and fits the patch to it; without a row the
\* patch is written as it is.
Prepare(c) ==
    /\ pc[c] = "prepare"
    /\ LET send(p) == /\ patch' = [patch EXCEPT ![c] = p]
                      /\ pc' = [pc EXCEPT ![c] = "write"]
                      /\ UNCHANGED <<override, mutex, call, op, tries>>
       IN  \/ Fine /\ Rejected(Normal(row), patch[c]) /\ Continue(c, FALSE)
           \/ /\ Fine /\ ~Rejected(Normal(row), patch[c])
              /\ send(Prepared(Normal(row), patch[c]))
           \/ Fault /\ IF op[c] = "touch" THEN Continue(c, FALSE) ELSE send(patch[c])
    /\ UNCHANGED <<row, channel, late>>
    /\ Watch(FALSE)

-----------------------------------------------------------------------------
(* The writes.                                                             *)

Lands(p) == row' = Apply(row, p)

\* The update goes out by id, whatever the row is by now.  One that failed may
\* have happened all the same.
Write(c) ==
    /\ pc[c] = "write"
    /\ \/ Fine /\ Lands(patch[c]) /\ Continue(c, TRUE)
       \/ Fault /\ (Lands(patch[c]) \/ UNCHANGED row) /\ Continue(c, FALSE)
    /\ UNCHANGED <<channel, late>>
    /\ Watch(Kind(c) \notin Locked)

\* Discord deletes the channel or refuses; the emergency flow writes the row
\* only afterwards.
Remove(c) ==
    /\ pc[c] = "remove"
    /\ \/ /\ Fine /\ channel' = FALSE
          /\ IF Kind(c) = "edelete"
             THEN Enter(c, "delete", Payload("delete", None)) /\ UNCHANGED <<call, mutex>>
             ELSE End(c)
       \/ Fault /\ UNCHANGED channel /\ End(c)
    /\ UNCHANGED <<row, late>>
    /\ Watch(FALSE)

\* The deletion flow stops waiting for its database write and lets go of the
\* lock; what it had sent is on its way.
Abandon(c) ==
    /\ Kind(c) = "delete" /\ pc[c] \in {"lock", "decide", "guard", "prepare", "write"}
    /\ Fault
    /\ late' = IF pc[c] = "write" THEN late \cup {patch[c]} ELSE late
    /\ End(c)
    /\ UNCHANGED <<row, channel>>
    /\ Watch(FALSE)

LateWrite ==
    /\ \E p \in late :
        /\ late' = late \ {p}
        /\ Lands(p) \/ UNCHANGED row
    /\ UNCHANGED <<channel, mutex, override, locals, faults>>
    /\ Watch(TRUE)

\* The process ends: locks and calls are gone, requests already sent are not.
Restart ==
    /\ Fault
    /\ late' = late \cup {patch[c] : c \in {d \in Workers : pc[d] = "write"}}
    /\ mutex' = None /\ override' = None /\ disturbed' = FALSE
    /\ pc' = [c \in Workers |-> IF c = Sweeper \/ pc[c] = "new" THEN "new" ELSE "done"]
    /\ call' = [c \in Workers |-> SweepRequest]
    /\ op' = [c \in Workers |-> None]
    /\ patch' = [c \in Workers |-> [status |-> Keep, by |-> Keep]]
    /\ tries' = [c \in Workers |-> 0]
    /\ UNCHANGED <<row, channel>>

\* Somebody deletes the channel in Discord.
DeleteChannel ==
    /\ channel /\ channel' = FALSE
    /\ UNCHANGED <<row, mutex, override, locals, disturbed, late, faults>>

-----------------------------------------------------------------------------
Step(c) ==
    \/ Check(c) \/ AcquireMutex(c) \/ AcquireOverride(c)
    \/ Decide(c) \/ Guard(c) \/ Prepare(c) \/ Write(c) \/ Remove(c)

Next ==
    \/ \E c \in Workers : Begin(c) \/ Step(c) \/ Abandon(c)
    \/ Sweep \/ LateWrite \/ Restart \/ DeleteChannel

\* Tasks that started go on, the sweep comes round again.
Fairness == WF_vars(Sweep) /\ \A c \in Workers : WF_vars(Step(c))

Spec     == Init /\ [][Next]_vars
FairSpec == Spec /\ Fairness

-----------------------------------------------------------------------------
(* Properties.                                                             *)

\* A synchroniser on its way, with the claimant it read or guessed.
Syncs == [kind : {"sync"}, who : {System}, to : Staff \cup {None}]

\* The types; the lock's holder has not finished, and only the deletion flow
\* and the restart leave requests behind.
TypeOK ==
    /\ row \in Rows /\ channel \in BOOLEAN
    /\ mutex \in Calls \cup {None} /\ override \in Calls \cup {None}
    /\ pc \in [Workers -> Steps]
    /\ call \in [Workers -> Requests \cup Syncs]
    /\ op \in [Workers -> Ops] /\ patch \in [Workers -> Patches]
    /\ tries \in [Workers -> 0..MaxTries]
    /\ disturbed \in BOOLEAN /\ late \subseteq Patches /\ faults \in 0..MaxFaults
    /\ mutex # None => pc[mutex] \in {"decide", "guard", "prepare", "write"}

\* In its first repository function, with what it decided not yet written.
Deciding(c) ==
    /\ pc[c] \in {"guard", "prepare", "write"}
    /\ op[c] = "touch" => Kind(c) = "annotate"

\* Until an operation under the mutation lock has written, what allowed it
\* still holds of the row, unless a writer without the lock changed the row.
DecisionStillHolds ==
    \A c \in Calls :
        Held(c) /\ ~disturbed /\ Deciding(c)
            => Proceeds(Normal(row), Kind(c), Who(c), call[c].to)

LockedWrite(c) == Held(c) /\ ~disturbed /\ pc[c] = "write" /\ pc'[c] # "write"

\* A write under the lock takes a ticket away from its claimant only when the
\* claimant or the guild's owner asked, unless the row changed without the lock.
ClaimantKept ==
    [][\A c \in Calls :
        LockedWrite(c) /\ row.by # None /\ row'.by # row.by
            => Who(c) \in {row.by, GuildOwner}]_vars

\* An unclaim takes the claimant off the ticket.
UnclaimFrees ==
    [][\A c \in Calls :
        LockedWrite(c) /\ Kind(c) = "unclaim" => row'.by = None]_vars

\* A deleted ticket does not change.
DeletedIsImmutable == [][row.status = "deleted" => row'.status = "deleted"]_vars

\* A deletion flow removes the channel of a ticket that is closed or deleted.
OnlyClosedAreRemoved ==
    [][\A c \in Calls :
        pc[c] = "remove" /\ pc'[c] # "remove" /\ channel /\ ~channel'
            => row.status \in {"closed", "deleted"}]_vars

\* Whoever writes, with whatever the failed reads left out: a ticket stored as
\* claimed has a claimant.
ClaimedHasClaimant == row.status = "claimed" => row.by # None

\* A ticket that the sweep covers and whose channel is gone (it never comes back)
\* is in the end marked deleted for good, in a guild for which the sweep runs.
GoneIsDeleted == Swept => (<>[]~channel => <>[](row.status = "deleted"))
=============================================================================
