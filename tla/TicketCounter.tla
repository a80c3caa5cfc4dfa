--------------------------- MODULE TicketCounter ---------------------------
(***************************************************************************)
(* The numbers of one guild's tickets: tickets_new/counter_allocator.py.   *)
(*                                                                         *)
(* reserve_next_ticket_number runs under the guild's asyncio lock, in a    *)
(* thread that talks to the database.  It first raises the counter to what *)
(* the ticket rows and the guild's channels show (_ensure_counter_seed),   *)
(* then asks the reserve_ticket_number RPC for the next number and, if     *)
(* that fails, compares and swaps the counter itself.  Each database       *)
(* statement is an action; a failed read gives the default the code        *)
(* swallows it with, and a failed write may or may not have happened.      *)
(*                                                                         *)
(* When the caller is cancelled, or its process restarts, the lock is free *)
(* while the thread or its request goes on: the call is abandoned.         *)
(*                                                                         *)
(* What the numbers are for, opening a channel and storing a ticket row    *)
(* (tickets_new/service.py), matters here because the allocator reads both.*)
(***************************************************************************)
EXTENDS Naturals, FiniteSets

CONSTANTS
    Calls,              \* calls of reserve_next_ticket_number for the guild
    Abandonable,        \* calls whose caller may be cancelled
    Legacy,             \* the highest number on a channel of the old scheme
    StartHistory,       \* the highest number of a ticket row at the start
    StartCounter,       \* the counter's row at the start, or None
    MaxTries,           \* max_retries of the compare-and-swap, 20 in the code
    MaxReadFaults,      \* bound on failed reads
    MaxWriteFaults,     \* bound on failed writes
    None

ASSUME CounterAssumptions ==
    /\ Abandonable \subseteq Calls
    /\ Legacy \in Nat /\ StartHistory \in Nat
    /\ StartCounter \in Nat \cup {None}
    /\ MaxTries \in Nat /\ MaxReadFaults \in Nat /\ MaxWriteFaults \in Nat
    /\ None \notin Nat /\ None \notin Calls

VARIABLES
    counter,            \* last_ticket_number in ticket_counters, None: no row
    history,            \* the highest ticket_number in tickets
    channels,           \* numbers on the guild's ticket channels
    pc,                 \* where each call is
    chan,               \* its channel_floor
    floor,              \* desired_floor while it seeds, floor afterwards
    seen,               \* what it last read and will compare with
    tries,              \* attempts of its compare-and-swap
    fallback,           \* calls in _reserve_with_compare_and_swap
    lock,               \* the guild's lock: its holder, or None
    abandoned,          \* calls that nobody awaits any more
    num,                \* the number a call returned, 0: none
    opened, stored,     \* calls whose number got its channel, its ticket row
    readFaults, writeFaults

locals == <<chan, floor, seen, tries, fallback>>
tables == <<counter, history>>
guild  == <<channels, opened, stored>>
bounds == <<readFaults, writeFaults>>
vars   == <<tables, guild, pc, locals, lock, abandoned, num, bounds>>

Steps == {"new", "history", "counter", "insert", "raise", "reread",
          "rpc", "commit", "read", "swap", "done", "failed"}

Set(f, c, v) == [f EXCEPT ![c] = v]
Larger(m, n) == IF m >= n THEN m ELSE n

Init ==
    /\ counter = StartCounter
    /\ history = StartHistory
    /\ channels = {Legacy}
    /\ pc = [c \in Calls |-> "new"]
    /\ chan = [c \in Calls |-> 0] /\ floor = [c \in Calls |-> 0]
    /\ seen = [c \in Calls |-> 0] /\ tries = [c \in Calls |-> 0]
    /\ fallback = {}
    /\ lock = None /\ abandoned = {}
    /\ num = [c \in Calls |-> 0]
    /\ opened = {} /\ stored = {}
    /\ readFaults = 0 /\ writeFaults = 0

-----------------------------------------------------------------------------
(* Statements: one that works, and one that raises. *)

ReadFails ==
    /\ readFaults < MaxReadFaults
    /\ readFaults' = readFaults + 1
    /\ UNCHANGED writeFaults

Works == UNCHANGED bounds

WriteWorks(value) == counter' = value /\ Works

WriteFails(value) ==
    /\ writeFaults < MaxWriteFaults
    /\ writeFaults' = writeFaults + 1
    /\ counter' \in {counter, value}
    /\ UNCHANGED readFaults

(* The value an update "... where last_ticket_number = seen" leaves. *)
Swapped(c, value) == IF counter = seen[c] THEN value ELSE counter

Value == IF counter = None THEN 0 ELSE counter

-----------------------------------------------------------------------------
(* reserve_next_ticket_number: the lock, and the scan of the guild's channels *)

Highest == {n \in channels \cup {0} : \A m \in channels : m <= n}

Begin(c) ==
    /\ pc[c] = "new" /\ lock = None
    /\ \E n \in Highest : chan' = Set(chan, c, n)
    /\ pc' = Set(pc, c, "history")
    /\ lock' = c
    /\ UNCHANGED <<tables, guild, floor, seen, tries, fallback, abandoned, num, bounds>>

(* No database client: the call refuses to allocate. *)
NoDatabase(c) ==
    /\ pc[c] = "new" /\ lock = None
    /\ pc' = Set(pc, c, "failed")
    /\ UNCHANGED <<tables, guild, locals, lock, abandoned, num, bounds>>

(* The number goes to the caller, if it still waits. *)
Return(c, n) ==
    /\ pc' = Set(pc, c, "done")
    /\ num' = IF c \in abandoned THEN num ELSE Set(num, c, n)
    /\ lock' = IF lock = c THEN None ELSE lock

Abandon(c) ==
    /\ c \in Abandonable /\ lock = c
    /\ lock' = None
    /\ abandoned' = abandoned \cup {c}
    /\ UNCHANGED <<tables, guild, pc, locals, num, bounds>>

-----------------------------------------------------------------------------
(* _ensure_counter_seed: the floor, and the counter raised to it *)

Idle == UNCHANGED <<history, guild, lock, abandoned, num>>

Seeded(c) == IF c \in fallback THEN "read" ELSE "rpc"

(* Mutant: the guild's channels are not looked at. *)
ReadHistory_RowsOnly(c) ==
    /\ pc[c] = "history"
    /\ Works /\ floor' = Set(floor, c, history)
    /\ pc' = Set(pc, c, "counter")
    /\ UNCHANGED <<counter, chan, seen, tries, fallback>> /\ Idle

ReadHistory(c) ==
    /\ pc[c] = "history"
    /\ \/ Works /\ floor' = Set(floor, c, Larger(history, chan[c]))
       \/ ReadFails /\ floor' = Set(floor, c, chan[c])
    /\ pc' = Set(pc, c, "counter")
    /\ UNCHANGED <<counter, chan, seen, tries, fallback>> /\ Idle

(* A failed read of the counter looks like a missing row. *)
ReadCounter(c) ==
    /\ pc[c] = "counter"
    /\ \/ /\ counter # None /\ floor[c] <= counter /\ Works
          /\ floor' = Set(floor, c, counter)
          /\ pc' = Set(pc, c, Seeded(c))
          /\ UNCHANGED seen
       \/ /\ counter # None /\ floor[c] > counter /\ Works
          /\ seen' = Set(seen, c, counter)
          /\ pc' = Set(pc, c, "raise")
          /\ UNCHANGED floor
       \/ /\ (counter = None /\ Works) \/ ReadFails
          /\ pc' = Set(pc, c, "insert")
          /\ UNCHANGED <<floor, seen>>
    /\ UNCHANGED <<counter, chan, tries, fallback>> /\ Idle

(* _upsert_counter_floor, whose error is swallowed. *)
SeedInsert(c) ==
    /\ pc[c] = "insert"
    /\ WriteWorks(floor[c]) \/ WriteFails(floor[c])
    /\ pc' = Set(pc, c, Seeded(c))
    /\ UNCHANGED locals /\ Idle

(* Mutant: the counter is raised whatever it has become since. *)
SeedRaise_Blind(c) ==
    /\ pc[c] = "raise"
    /\ WriteWorks(floor[c])
    /\ pc' = Set(pc, c, Seeded(c))
    /\ UNCHANGED locals /\ Idle

SeedRaise(c) ==
    /\ pc[c] = "raise"
    /\ \/ /\ WriteWorks(Swapped(c, floor[c]))
          /\ pc' = Set(pc, c, IF counter = seen[c] THEN Seeded(c) ELSE "reread")
       \/ /\ WriteFails(Swapped(c, floor[c]))
          /\ pc' = Set(pc, c, "reread")
    /\ UNCHANGED locals /\ Idle

SeedReread(c) ==
    /\ pc[c] = "reread"
    /\ \/ Works /\ floor' = Set(floor, c, Larger(floor[c], Value))
       \/ ReadFails /\ UNCHANGED floor
    /\ pc' = Set(pc, c, Seeded(c))
    /\ UNCHANGED <<counter, chan, seen, tries, fallback>> /\ Idle

-----------------------------------------------------------------------------
(* _reserve_with_rpc: reserve_ticket_number reads the history, then raises and
   increments the counter under the lock of its row *)

RpcReads(c) ==
    /\ pc[c] = "rpc"
    /\ seen' = Set(seen, c, history)
    /\ pc' = Set(pc, c, "commit")
    /\ UNCHANGED <<counter, chan, floor, tries, fallback, bounds>> /\ Idle

(* Mutant: the counter follows the history and not the greater of the two. *)
RpcCommits_HistoryOnly(c) ==
    LET n == seen[c] + 1 IN
    /\ pc[c] = "commit"
    /\ WriteWorks(n) /\ Return(c, n)
    /\ UNCHANGED <<history, guild, locals, abandoned>>

RpcCommits(c) ==
    LET n == Larger(Value, seen[c]) + 1 IN
    /\ pc[c] = "commit"
    /\ \/ WriteWorks(n) /\ Return(c, n) /\ UNCHANGED <<chan, fallback>>
       \/ /\ WriteFails(n)
          /\ fallback' = fallback \cup {c}
          /\ chan' = Set(chan, c, floor[c])
          /\ pc' = Set(pc, c, "history")
          /\ UNCHANGED <<num, lock>>
    /\ UNCHANGED <<history, guild, floor, seen, tries, abandoned>>

-----------------------------------------------------------------------------
(* _reserve_with_compare_and_swap *)

(* Mutant: the attempts are not counted. *)
Retry_Uncounted(c, step) == UNCHANGED tries /\ pc' = Set(pc, c, step)

Retry(c, step) == tries' = Set(tries, c, tries[c] + 1) /\ pc' = Set(pc, c, step)

(* Mutant: one attempt too many. *)
TryRead_OffByOne(c) ==
    /\ pc[c] = "read" /\ tries[c] <= MaxTries
    /\ \/ /\ counter # None /\ Works
          /\ seen' = Set(seen, c, Larger(counter, Larger(floor[c], chan[c])))
          /\ pc' = Set(pc, c, "swap")
          /\ UNCHANGED tries
       \/ /\ (counter = None /\ Works) \/ ReadFails
          /\ Retry(c, "history")
          /\ UNCHANGED seen
    /\ UNCHANGED <<counter, chan, floor, fallback>> /\ Idle

TryRead(c) ==
    /\ pc[c] = "read" /\ tries[c] < MaxTries
    /\ \/ /\ counter # None /\ Works
          /\ seen' = Set(seen, c, Larger(counter, Larger(floor[c], chan[c])))
          /\ pc' = Set(pc, c, "swap")
          /\ UNCHANGED tries
       \/ /\ (counter = None /\ Works) \/ ReadFails
          /\ Retry(c, "history")
          /\ UNCHANGED seen
    /\ UNCHANGED <<counter, chan, floor, fallback>> /\ Idle

TrySwap(c) ==
    /\ pc[c] = "swap"
    /\ \/ /\ counter = seen[c]
          /\ WriteWorks(seen[c] + 1)
          /\ Return(c, seen[c] + 1)
          /\ UNCHANGED tries
       \/ /\ counter # seen[c] /\ WriteWorks(counter)
          /\ Retry(c, "read") /\ UNCHANGED <<num, lock>>
       \/ /\ WriteFails(Swapped(c, seen[c] + 1))
          /\ Retry(c, "read") /\ UNCHANGED <<num, lock>>
    /\ UNCHANGED <<history, guild, chan, floor, seen, fallback, abandoned>>

(* "Could not reserve a unique ticket number" *)
GiveUp(c) ==
    /\ pc[c] = "read" /\ tries[c] = MaxTries
    /\ pc' = Set(pc, c, "failed")
    /\ lock' = IF lock = c THEN None ELSE lock
    /\ UNCHANGED <<tables, guild, locals, abandoned, num, bounds>>

-----------------------------------------------------------------------------
(* create_ticket_channel: the channel, then the row.  Either may fail, in which
   case nothing happens, and the channel may be deleted at any time; rows stay. *)

OpenChannel(c) ==
    /\ num[c] # 0 /\ c \notin opened
    /\ channels' = channels \cup {num[c]}
    /\ opened' = opened \cup {c}
    /\ UNCHANGED <<tables, stored, pc, locals, lock, abandoned, num, bounds>>

StoreTicket(c) ==
    /\ c \in opened /\ c \notin stored
    /\ history' = Larger(history, num[c])
    /\ stored' = stored \cup {c}
    /\ UNCHANGED <<counter, channels, opened, pc, locals, lock, abandoned, num, bounds>>

DeleteChannel(c) ==
    /\ c \in opened /\ num[c] \in channels
    /\ channels' = channels \ {num[c]}
    /\ UNCHANGED <<tables, opened, stored, pc, locals, lock, abandoned, num, bounds>>

-----------------------------------------------------------------------------
Seed(c)  == ReadHistory(c) \/ ReadCounter(c) \/ SeedInsert(c) \/ SeedRaise(c) \/ SeedReread(c)
Rpc(c)   == RpcReads(c) \/ RpcCommits(c)
Try(c)   == TryRead(c) \/ TrySwap(c) \/ GiveUp(c)
Work(c)  == Seed(c) \/ Rpc(c) \/ Try(c)
Guild(c) == OpenChannel(c) \/ StoreTicket(c) \/ DeleteChannel(c)

Next == \E c \in Calls : Begin(c) \/ NoDatabase(c) \/ Abandon(c) \/ Work(c) \/ Guild(c)

Spec == Init /\ [][Next]_vars

(* The thread of a call somebody awaits runs on; one of a dead process may not.
   asyncio.Lock wakes its waiters in order. *)
Fairness ==
    \A c \in Calls : WF_vars(c \notin abandoned /\ Work(c)) /\ SF_vars(Begin(c))

FairSpec == Spec /\ Fairness

-----------------------------------------------------------------------------
(* Every variable stays in its set (the module's tables and locals). *)
TypeOK ==
    /\ counter \in Nat \cup {None} /\ history \in Nat
    /\ channels \in SUBSET Nat
    /\ pc \in [Calls -> Steps]
    /\ chan \in [Calls -> Nat] /\ floor \in [Calls -> Nat] /\ seen \in [Calls -> Nat]
    /\ tries \in [Calls -> 0..MaxTries]
    /\ fallback \subseteq Calls
    /\ lock \in Calls \cup {None} /\ abandoned \subseteq Calls
    /\ num \in [Calls -> Nat]
    /\ opened \subseteq Calls /\ stored \subseteq Calls
    /\ readFaults \in 0..MaxReadFaults /\ writeFaults \in 0..MaxWriteFaults

(* A number that c gets is larger than all that were given before. *)
GivesMore(c) ==
    /\ num[c] = 0
    /\ \A d \in Calls : num[d] < num'[c] /\ (d # c => num'[d] = num[d])

(* "Reserve the next never-reused ticket number for one guild": a number that
   reserve_next_ticket_number returns is larger than all it returned before, so
   none is given twice, though channels are deleted and rows are not yet stored. *)
NeverReused == [][\A c \in Calls : num'[c] # num[c] => GivesMore(c)]_num

(* The same for as long as no read has failed: a failed one passes for a missing
   row, which is then written (_counter_row_sync). *)
NumbersOnlyGrow ==
    [][readFaults' = 0 => \A c \in Calls : num'[c] # num[c] => GivesMore(c)]_vars

(* "Seed/reseed upward only. Never lower the counter.", as long as no read has
   failed. *)
CounterNeverLowered ==
    [][readFaults' = 0 /\ counter # None => (counter' # None /\ counter <= counter')]_vars

(* "Discord channel state can seed a migration floor": as long as no call of the
   database has failed, no number is given that a channel of the old scheme may have. *)
AboveLegacy ==
    readFaults = 0 /\ writeFaults = 0 => \A c \in Calls : num[c] # 0 => num[c] > Legacy

(* A call somebody awaits gets a number or an error: the lock is not held for
   ever, and the compare-and-swap gives up. *)
CallsEnd ==
    \A c \in Calls : (pc[c] = "new") ~> (pc[c] \in {"done", "failed"} \/ c \in abandoned)
=============================================================================
