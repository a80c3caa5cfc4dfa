----------------------- MODULE TicketLifecycleProofs -----------------------
(***************************************************************************)
(* Proofs about TicketLifecycle, for any members, calls, requests and      *)
(* numbers of faults.                                                      *)
(*                                                                         *)
(* What an operation decided under the mutation lock stays true because    *)
(* nobody else under the lock is between its decision and its write        *)
(* (Exclusive), and because whoever writes without the lock leaves a mark  *)
(* (disturbed).  That a write keeps the claimant rests, besides, on what   *)
(* the operations ask the repository to write (Work).                      *)
(***************************************************************************)
EXTENDS TicketLifecycle, TLAPS

Busy == {"decide", "guard", "prepare", "write"}

\* The state of the calls is well typed.
CallsTyped ==
    /\ pc \in [Workers -> Steps] /\ call \in [Workers -> Requests \cup Syncs]
    /\ op \in [Workers -> Ops] /\ patch \in [Workers -> Patches]
    /\ tries \in [Workers -> 0..MaxTries]

Typed ==
    /\ CallsTyped
    /\ row \in Rows /\ channel \in BOOLEAN
    /\ mutex \in Calls \cup {None} /\ override \in Calls \cup {None}
    /\ disturbed \in BOOLEAN /\ late \subseteq Patches /\ faults \in 0..MaxFaults
    /\ call[Sweeper] = SweepRequest

\* Only an emergency deletion that writes has counted attempts.
TriesCounted(c) ==
    tries[c] # 0 => Kind(c) = "edelete" /\ pc[c] \in {"guard", "prepare", "write"}

\* The mutation lock is held by exactly the call that works under it.
Exclusive(c) == mutex = c <=> Kind(c) \in Locked /\ pc[c] \in Busy

\* What a call under the lock is doing, and what it may write.
Work(c) ==
    Kind(c) \in Locked /\ pc[c] \in {"guard", "prepare", "write"} =>
        /\ op[c] \in {Kind(c), "touch"} /\ op[c] # "annotate"
        /\ op[c] \in {"touch", "close", "delete"} =>
              \/ patch[c].by = Keep
              \/ pc[c] = "write" /\ (~disturbed => patch[c].by = row.by)

\* What allowed it still holds.
Founded(c) ==
    Held(c) /\ ~disturbed /\ Deciding(c)
        => Proceeds(Normal(row), Kind(c), Who(c), call[c].to)

Good(c) == TriesCounted(c) /\ Exclusive(c) /\ Work(c) /\ Founded(c)

LInv == Typed /\ \A c \in Workers : Good(c)

-----------------------------------------------------------------------------
(* The helpers by which a call moves on.                                   *)

Others(c) ==
    \A d \in Workers \ {c} :
        /\ pc'[d] = pc[d] /\ call'[d] = call[d] /\ op'[d] = op[d]
        /\ patch'[d] = patch[d] /\ tries'[d] = tries[d]

Ended(c) ==
    /\ CallsTyped' /\ Others(c) /\ override' \in Calls \cup {None}
    /\ mutex' = (IF mutex = c THEN None ELSE mutex)
    /\ pc'[c] \in {"remove", "new", "done"} /\ tries'[c] = 0
    /\ call'[c] \in {call[c], SweepRequest} /\ patch'[c].status = Keep

Entered(c, o, p) ==
    /\ CallsTyped' /\ Others(c) /\ override' = override /\ mutex' = mutex /\ call' = call
    /\ pc'[c] \in {"guard", "prepare"} /\ op'[c] = o /\ patch'[c] = p
    /\ tries'[c] # 0 => Kind(c) = "edelete"

LEMMA SweepAsked == SweepRequest \in Requests
  BY LifecycleAssumptions DEF SweepRequest, Requests, Locked, Unlocked, Emergency

\* What a request says about who asks.
LEMMA RequestFacts ==
  ASSUME NEW q \in Requests \cup Syncs
  PROVE  /\ q.kind \in Locked \cup Unlocked /\ q.to \in Staff \cup {None}
         /\ q.kind \in {"claim", "transfer", "etransfer"} => q.to \in Staff
         /\ q.kind \in {"unclaim", "reopen", "transfer"} => q.who \in Staff \cup {GuildOwner}
  BY LifecycleAssumptions DEF Requests, Syncs, Locked, Unlocked, Emergency

LEMMA PayloadType ==
  ASSUME NEW o, NEW t \in Staff \cup {None}
  PROVE  Payload(o, t) \in Patches
  BY LifecycleAssumptions DEF Payload, Patches, Statuses, OpenLike

LEMMA NormalType ==
  ASSUME NEW r \in Rows
  PROVE  Normal(r) \in Rows /\ Normal(r).by = r.by
  BY DEF Normal, Rows, Statuses, OpenLike

LEMMA PreparedType ==
  ASSUME NEW r \in Rows, NEW p \in Patches
  PROVE  Prepared(r, p) \in Patches
  BY LifecycleAssumptions DEF Prepared, Requested, Assignee, Rows, Patches, Statuses, OpenLike

LEMMA SyncedType ==
  ASSUME NEW r \in Rows, NEW b \in BOOLEAN, NEW g \in Staff \cup {None}
  PROVE  /\ Synced(r, b, g) \in Patches
         /\ Synced(r, b, g).by \in Staff \cup {None}
         /\ Synced(r, b, g).status # Keep
         /\ Synced(r, b, g).status = "claimed" => Synced(r, b, g).by \in Staff
  BY LifecycleAssumptions DEF Synced, Rows, Patches, Statuses, OpenLike

LEMMA ApplyType ==
  ASSUME NEW r \in Rows, NEW p \in Patches
  PROVE  Apply(r, p) \in Rows
  BY LifecycleAssumptions DEF Apply, Rows, Patches, Statuses, OpenLike

LEMMA NextOpsType ==
  ASSUME NEW c, NEW ok, NEW o \in NextOps(c, ok)
  PROVE  /\ o \in {"touch", "delete", "close", None} /\ (op[c] = "touch" => o = None)
         /\ Kind(c) \in Locked \cup {"sync"} => o \notin {"delete", "close"}
         /\ Kind(c) = "edelete" /\ o = "delete" => tries[c] < MaxTries
  BY LifecycleAssumptions DEF NextOps, Locked

LEMMA EndEffect ==
  ASSUME LInv, NEW c \in Workers, End(c)
  PROVE  Ended(c)
  <1> USE DEF LInv, Typed, CallsTyped
  <1>1. [status |-> Keep, by |-> Keep] \in Patches
    BY DEF Patches
  <1>2. CallsTyped'
    BY <1>1, SweepAsked, LifecycleAssumptions DEF End, Steps, Ops, Workers
  <1>3. Others(c)
    BY DEF End, Others
  <1>4. tries'[c] = 0
    BY DEF End, Good, TriesCounted, Kind
  <1> QED
    BY <1>2, <1>3, <1>4 DEF End, Ended, Unlock, Held, Steps

LEMMA EnterEffect ==
  ASSUME LInv, NEW c \in Workers, NEW o \in Ops, NEW p \in Patches, Enter(c, o, p),
         call' = call, mutex' = mutex,
         Kind(c) = "edelete" /\ o = "delete" => tries[c] < MaxTries
  PROVE  Entered(c, o, p)
  <1> USE DEF LInv, Typed, CallsTyped
  <1>1. CallsTyped'
    BY LifecycleAssumptions DEF Enter, Steps
  <1> QED
    BY <1>1 DEF Enter, Entered, Others, Good, TriesCounted, Kind

\* What the call may do after the repository function it was in.
LEMMA ContinueEffect ==
  ASSUME LInv, NEW c \in Workers, NEW ok, Continue(c, ok)
  PROVE  \/ Ended(c)
         \/ \E o \in Ops, p \in Patches :
               /\ Entered(c, o, p)
               /\ op[c] # "touch"
               /\ Kind(c) \in Locked => o = "touch" /\ p.by = Keep
               /\ p.status # "claimed" /\ (o # "touch" => p.status # Keep)
  <1>1. PICK o \in NextOps(c, ok) :
            IF o = None THEN End(c)
            ELSE /\ Enter(c, o, IF Kind(c) = "sync" THEN [status |-> Keep, by |-> call[c].to]
                                ELSE Payload(o, None))
                 /\ UNCHANGED <<call, mutex>>
    BY DEF Continue
  <1>2. CASE o = None
    BY <1>1, <1>2, EndEffect
  <1>3. CASE o # None
    <2> DEFINE p == IF Kind(c) = "sync" THEN [status |-> Keep, by |-> call[c].to]
                    ELSE Payload(o, None)
    <2>1. p \in Patches
      <3>1. call[c].to \in Staff \cup {None}
        BY RequestFacts DEF LInv, Typed, CallsTyped
      <3> QED
        BY <3>1, PayloadType DEF Patches
    <2>2. o \in Ops /\ o \in {"touch", "delete", "close"} /\ op[c] # "touch"
      BY <1>1, <1>3, NextOpsType DEF Ops
    <2>3. Enter(c, o, p) /\ call' = call /\ mutex' = mutex
      BY <1>1, <1>3
    <2>4. Entered(c, o, p)
      BY <1>1, <2>1, <2>2, <2>3, EnterEffect, NextOpsType
    <2>5. Kind(c) \in Locked => o = "touch" /\ p.by = Keep
      BY <1>1, <2>2, NextOpsType DEF Payload, Locked
    <2>6. p.status # "claimed" /\ (o # "touch" => p.status # Keep)
      BY <1>1, <2>2, NextOpsType, LifecycleAssumptions DEF Payload, Statuses, OpenLike
    <2> QED
      BY <2>1, <2>2, <2>4, <2>5, <2>6
  <1> QED
    BY <1>2, <1>3

\* No other call that holds the lock is taken by surprise.
Calm(c) ==
    \A d \in Workers \ {c} : mutex = d /\ ~disturbed' => ~disturbed /\ row' = row

LEMMA OthersGood ==
  ASSUME LInv, NEW c \in Workers, Others(c), Calm(c), NEW d \in Workers \ {c},
         mutex' = d <=> mutex = d
  PROVE  Good(d)'
  <1> USE DEF LInv, Others, Kind, Who
  <1>1. Good(d)
    OBVIOUS
  <1>2. TriesCounted(d)' /\ Exclusive(d)'
    BY <1>1 DEF Good, TriesCounted, Exclusive
  <1>3. Work(d)'
    BY <1>1 DEF Good, Exclusive, Work, Busy, Calm
  <1>4. Founded(d)'
    BY <1>1 DEF Good, Founded, Deciding, Held, Calm
  <1> QED
    BY <1>2, <1>3, <1>4 DEF Good

LEMMA EndGood ==
  ASSUME LInv, NEW c \in Workers, Ended(c), Calm(c)
  PROVE  \A d \in Workers : Good(d)'
  <1>1. mutex' # c /\ None \notin Workers
    BY LifecycleAssumptions DEF Ended, Workers
  <1>2. Good(c)'
    BY <1>1 DEF Ended, Good, TriesCounted, Exclusive, Work, Founded, Held, Busy
  <1>3. \A d \in Workers \ {c} : Good(d)'
    BY <1>1, OthersGood DEF Ended
  <1> QED
    BY <1>2, <1>3

LEMMA ContinueGood ==
  ASSUME LInv, NEW c \in Workers, NEW ok, pc[c] \in {"guard", "prepare", "write"},
         Continue(c, ok), Calm(c)
  PROVE  /\ CallsTyped' /\ mutex' \in Calls \cup {None} /\ override' \in Calls \cup {None}
         /\ call'[Sweeper] = SweepRequest /\ \A d \in Workers : Good(d)'
  <1> USE DEF LInv, Typed
  <1>1. CASE Ended(c)
    BY <1>1, EndGood, LifecycleAssumptions DEF Ended, Others, Workers
  <1>2. ASSUME NEW o \in Ops, NEW p \in Patches, Entered(c, o, p), op[c] # "touch",
               Kind(c) \in Locked => o = "touch" /\ p.by = Keep
        PROVE  \A d \in Workers : Good(d)'
    <2>1. Good(c) /\ Kind(c)' = Kind(c)
      BY <1>2 DEF Entered, Kind
    <2>2. TriesCounted(c)' /\ Exclusive(c)'
      BY <1>2, <2>1 DEF Good, Entered, TriesCounted, Exclusive, Busy
    <2>3. Work(c)'
      BY <1>2, <2>1 DEF Entered, Work
    <2>4. Founded(c)'
      BY <1>2, <2>1 DEF Entered, Good, Founded, Held, Exclusive, Work, Deciding
    <2>5. \A d \in Workers \ {c} : Good(d)'
      BY <1>2, OthersGood DEF Entered
    <2> QED
      BY <2>2, <2>3, <2>4, <2>5 DEF Good
  <1> QED
    BY <1>1, <1>2, ContinueEffect DEF Entered

-----------------------------------------------------------------------------
(* The steps.                                                              *)

LEMMA WatchCalm ==
  ASSUME LInv, NEW c \in Workers, NEW b \in BOOLEAN, Watch(b),
         row' # row => (b <=> Kind(c) \notin Locked),
         Kind(c) \in Locked => pc[c] \in Busy,
         mutex # c => mutex' = mutex
  PROVE  Calm(c)
  <1>1. ASSUME NEW d \in Workers \ {c}, mutex = d, ~disturbed'
        PROVE  ~disturbed /\ row' = row
    <2>1. Kind(c) \notin Locked
      BY <1>1 DEF LInv, Good, Exclusive
    <2>2. mutex # None
      BY <1>1, LifecycleAssumptions DEF Workers
    <2> QED
      BY <1>1, <2>1, <2>2 DEF Watch, LInv, Typed
  <1> QED
    BY <1>1 DEF Calm

LEMMA FaultsBounded ==
  ASSUME LInv, Fine \/ Fault
  PROVE  faults' \in 0..MaxFaults
  BY LifecycleAssumptions DEF LInv, Typed, Fine, Fault

LEMMA BeginGood ==
  ASSUME LInv, NEW c \in Workers, Begin(c)
  PROVE  LInv'
  <1> USE DEF LInv
  <1>1. PICK r \in Asked :
            /\ call' = [call EXCEPT ![c] = r]
            /\ op' = [op EXCEPT ![c] = IF r.kind = "touch" THEN "touch" ELSE None]
            /\ pc' = [pc EXCEPT ![c] = CASE r.kind = "delete" -> "check"
                              [] r.kind \in (Locked \ {"delete"}) \cup Emergency -> "lock"
                              [] r.kind = "touch" -> "prepare"
                              [] OTHER -> "decide"]
    BY DEF Begin
  <1>2. r \in Requests
    BY LifecycleAssumptions
  <1>3. /\ pc'[c] \in {"check", "lock", "prepare", "decide"}
        /\ r.kind \in Locked => pc'[c] \in {"check", "lock"}
        /\ r.kind # "touch" => pc'[c] # "prepare"
    BY <1>1, <1>2 DEF Typed, CallsTyped, Locked, Unlocked, Emergency
  <1>4. Typed'
    BY <1>1, <1>2, <1>3 DEF Begin, Typed, CallsTyped, Steps, Ops
  <1>5. Others(c) /\ Calm(c)
    BY <1>1 DEF Begin, Others, Calm, Typed, CallsTyped
  <1>6. call'[c] = r /\ tries'[c] = 0 /\ mutex # c /\ mutex' = mutex
    BY <1>1 DEF Begin, Good, TriesCounted, Exclusive, Busy, Typed, CallsTyped
  <1>7. Good(c)'
    BY <1>3, <1>6 DEF Good, TriesCounted, Exclusive, Work, Founded, Held, Busy, Kind
  <1> QED
    BY <1>4, <1>5, <1>6, <1>7, OthersGood

LEMMA CheckGood ==
  ASSUME LInv, NEW c \in Workers, Check(c)
  PROVE  LInv'
  <1> USE DEF LInv
  <1>1. /\ pc' = [pc EXCEPT ![c] = pc'[c]] /\ pc'[c] \in {"lock", "done"}
        /\ call' = [call EXCEPT ![c] = call'[c]] /\ call'[c] \in {call[c], SweepRequest}
    BY DEF Check, Refused, Typed, CallsTyped
  <1>2. Typed'
    BY <1>1, SweepAsked, LifecycleAssumptions
    DEF Check, Fine, Fault, Typed, CallsTyped, Steps, Workers
  <1>3. Others(c) /\ Calm(c)
    BY <1>1 DEF Check, Others, Calm, Typed, CallsTyped
  <1>4. tries'[c] = 0 /\ mutex # c /\ mutex' = mutex
    BY DEF Check, Good, TriesCounted, Exclusive, Busy
  <1>5. Good(c)'
    BY <1>1, <1>4 DEF Good, TriesCounted, Exclusive, Work, Founded, Held, Busy
  <1> QED
    BY <1>2, <1>3, <1>4, <1>5, OthersGood

LEMMA AcquireMutexGood ==
  ASSUME LInv, NEW c \in Workers, AcquireMutex(c)
  PROVE  LInv'
  <1> USE DEF LInv
  <1>1. c \in Calls
    BY DEF AcquireMutex, Typed, Workers, Kind, SweepRequest, Locked
  <1>2. Typed'
    BY <1>1 DEF AcquireMutex, Watch, Typed, CallsTyped, Steps
  <1>3. Others(c) /\ Calm(c) /\ None \notin Workers
    BY LifecycleAssumptions DEF AcquireMutex, Others, Calm, Typed, CallsTyped, Workers
  <1>4. Good(c)'
    BY DEF AcquireMutex, Good, TriesCounted, Exclusive, Work, Founded, Deciding, Busy, Kind,
           Typed, CallsTyped
  <1>5. \A d \in Workers \ {c} : Good(d)'
    BY <1>3, OthersGood DEF AcquireMutex
  <1> QED
    BY <1>2, <1>4, <1>5

LEMMA AcquireOverrideGood ==
  ASSUME LInv, NEW c \in Workers, AcquireOverride(c)
  PROVE  LInv'
  <1> USE DEF LInv
  <1>1. /\ pc' = [pc EXCEPT ![c] = pc'[c]] /\ pc'[c] \in {"decide", "done"}
        /\ call' = [call EXCEPT ![c] = call'[c]] /\ call'[c] \in {call[c], SweepRequest}
    BY DEF AcquireOverride, Refused, Typed, CallsTyped
  <1>2. c \in Calls
    BY DEF AcquireOverride, Typed, Workers, Kind, SweepRequest, Emergency
  <1>3. Typed'
    BY <1>1, <1>2, SweepAsked, LifecycleAssumptions
    DEF AcquireOverride, Typed, CallsTyped, Steps, Workers
  <1>4. Others(c) /\ Calm(c)
    BY <1>1 DEF AcquireOverride, Others, Calm, Typed, CallsTyped
  <1>5. /\ tries'[c] = 0 /\ mutex # c /\ mutex' = mutex
        /\ call'[c].kind \notin Locked
    BY <1>1 DEF AcquireOverride, Good, TriesCounted, Exclusive, Busy, Kind, SweepRequest,
                Emergency, Locked
  <1>6. Good(c)'
    BY <1>1, <1>5 DEF Good, TriesCounted, Exclusive, Work, Founded, Held, Busy, Kind
  <1> QED
    BY <1>3, <1>4, <1>5, <1>6, OthersGood

LEMMA DecideGood ==
  ASSUME LInv, NEW c \in Workers, Decide(c)
  PROVE  LInv'
  <1> USE DEF LInv
  <1>1. /\ pc[c] = "decide" /\ row' = row /\ channel' = channel /\ late' = late
        /\ disturbed' = (disturbed /\ ~Held(c)) /\ Good(c)
    BY DEF Decide
  <1>2. faults' \in 0..MaxFaults
    BY FaultsBounded DEF Decide
  <1>3. Calm(c)
    BY <1>1 DEF Calm, Held, Typed
  <1>4. CASE End(c)
    <2>1. Ended(c)
      BY <1>4, EndEffect
    <2>2. Typed'
      BY <1>1, <1>2, <2>1, SweepAsked, LifecycleAssumptions
      DEF Ended, Others, Typed, Held, Workers
    <2> QED
      BY <1>3, <2>1, <2>2, EndGood
  <1>5. ASSUME Proceeds(Normal(row), Kind(c), Who(c), call[c].to), mutex' = mutex,
               Kind(c) = "edelete", pc' = [pc EXCEPT ![c] = "remove"],
               UNCHANGED <<override, call, op, patch, tries>>
        PROVE  LInv'
    <2>1. Typed'
      BY <1>1, <1>2, <1>5 DEF Typed, CallsTyped, Steps
    <2>2. Others(c)
      BY <1>5 DEF Others, Typed, CallsTyped
    <2>3. Good(c)'
      BY <1>1, <1>5 DEF Good, TriesCounted, Exclusive, Work, Founded, Held, Busy, Kind, Locked,
                        Typed, CallsTyped
    <2> QED
      BY <1>3, <1>5, <2>1, <2>2, <2>3, OthersGood
  <1>6. ASSUME Proceeds(Normal(row), Kind(c), Who(c), call[c].to), mutex' = mutex,
               NEW o \in FirstOps(Normal(row), Kind(c)), o # "edelete", o # "sync",
               Enter(c, o, Payload(o, call[c].to)), call' = call
        PROVE  LInv'
    <2>1. call[c] \in Requests \cup Syncs
      BY DEF Typed, CallsTyped
    <2>2. Kind(c) \in Locked \cup Unlocked /\ call[c].to \in Staff \cup {None}
      BY <2>1, RequestFacts DEF Kind
    <2>3. o \in Ops /\ (Kind(c) \in Locked => o \in {Kind(c), "touch"} /\ o # "annotate")
      BY <1>6, <2>2 DEF FirstOps, Ops, Locked, Unlocked, Emergency
    <2>4. Kind(c) = "edelete" => FALSE
      BY <1>6 DEF FirstOps
    <2>5. Entered(c, o, Payload(o, call[c].to))
      BY <1>6, <2>2, <2>3, <2>4, PayloadType, EnterEffect
    <2>6. Typed'
      BY <1>1, <1>2, <2>5 DEF Entered, Typed
    <2>7. o \in {"touch", "close", "delete"} => Payload(o, call[c].to).by = Keep
      BY DEF Payload
    <2>8. Good(c)'
      BY <1>1, <1>6, <2>3, <2>5, <2>7
      DEF Entered, Good, TriesCounted, Exclusive, Work, Founded, Busy, Kind, Who
    <2> QED
      BY <1>3, <2>5, <2>6, <2>8, OthersGood DEF Entered
  <1>7. ASSUME mutex' = mutex, NEW p \in Patches, p.by \in Staff \cup {None},
               Kind(c) = "sync", Enter(c, "sync", p), call' = [call EXCEPT ![c].to = p.by]
        PROVE  LInv'
    <2>2. c # Sweeper
      BY <1>7 DEF Typed, Kind, SweepRequest
    <2>3. call[c] \in Requests \cup Syncs
      BY DEF Typed, CallsTyped
    <2>4. [call[c] EXCEPT !.to = p.by] \in Syncs
      BY <1>7, <2>3 DEF Requests, Syncs, Kind
    <2>5. Typed' /\ Others(c)
      BY <1>1, <1>2, <1>7, <2>2, <2>4
      DEF Enter, Others, Typed, CallsTyped, Steps, Ops, Kind
    <2>6. Good(c)'
      BY <1>1, <1>7, <2>4
      DEF Enter, Good, TriesCounted, Exclusive, Work, Founded, Held, Busy, Kind, Locked, Syncs,
          Typed, CallsTyped
    <2> QED
      BY <1>3, <1>7, <2>5, <2>6, OthersGood
  <1>8. ASSUME NEW o \in FirstOps(Normal(row), Kind(c))
        PROVE  /\ o = "sync" => Kind(c) = "sync"
               /\ o = "edelete" => Kind(c) = "edelete"
    BY DEF FirstOps
  <1>9. \A b \in BOOLEAN, g \in Staff \cup {None} :
           /\ Synced(Normal(row), b, g) \in Patches
           /\ Synced(Normal(row), b, g).by \in Staff \cup {None}
    BY NormalType, SyncedType DEF Typed
  <1> QED
    BY <1>4, <1>5, <1>6, <1>7, <1>8, <1>9 DEF Decide

LEMMA GuardGood ==
  ASSUME LInv, NEW c \in Workers, Guard(c)
  PROVE  LInv'
  <1> USE DEF LInv
  <1>1. /\ pc[c] = "guard" /\ row' = row /\ channel' = channel /\ late' = late
        /\ Watch(FALSE) /\ disturbed' \in BOOLEAN /\ Good(c)
    BY DEF Guard, Watch, Typed
  <1>2. faults' \in 0..MaxFaults
    BY FaultsBounded DEF Guard
  <1>3. CASE /\ pc' = [pc EXCEPT ![c] = "prepare"]
             /\ UNCHANGED <<override, mutex, call, op, patch, tries>>
    <2>1. Typed' /\ Others(c)
      BY <1>1, <1>2, <1>3 DEF Others, Typed, CallsTyped, Steps
    <2>2. Calm(c)
      BY <1>1, <1>3, WatchCalm DEF Busy
    <2>3. (Held(c) /\ ~disturbed') => ~disturbed
      BY <1>1, <1>3, LifecycleAssumptions DEF Watch, Held, Typed, Workers
    <2>4. Good(c)'
      BY <1>1, <1>3, <2>3
      DEF Good, TriesCounted, Exclusive, Work, Founded, Deciding, Held, Busy, Kind, Who,
          Typed, CallsTyped
    <2> QED
      BY <1>3, <2>1, <2>2, <2>4, OthersGood
  <1>4. ASSUME NEW ok, Continue(c, ok)
        PROVE  LInv'
    <2>1. Calm(c)
      <3>1. mutex # c => mutex' = mutex
        BY <1>4, ContinueEffect DEF Ended, Entered
      <3> QED
        BY <1>1, <3>1, WatchCalm DEF Busy
    <2> QED
      BY <1>1, <1>2, <1>4, <2>1, ContinueGood DEF Typed
  <1> QED
    BY <1>3, <1>4 DEF Guard

LEMMA PrepareGood ==
  ASSUME LInv, NEW c \in Workers, Prepare(c)
  PROVE  LInv'
  <1> USE DEF LInv
  <1>1. /\ pc[c] = "prepare" /\ row' = row /\ channel' = channel /\ late' = late
        /\ Watch(FALSE) /\ disturbed' \in BOOLEAN /\ Good(c)
    BY DEF Prepare, Watch, Typed
  <1>2. faults' \in 0..MaxFaults
    BY FaultsBounded DEF Prepare
  <1>3. ASSUME NEW p \in {patch[c], Prepared(Normal(row), patch[c])},
               patch' = [patch EXCEPT ![c] = p], pc' = [pc EXCEPT ![c] = "write"],
               UNCHANGED <<override, mutex, call, op, tries>>
        PROVE  LInv'
    <2>1. patch[c] \in Patches /\ row \in Rows
      BY DEF Typed, CallsTyped
    <2>2. p \in Patches
      BY <1>3, <2>1, NormalType, PreparedType
    <2>3. Typed' /\ Others(c)
      BY <1>1, <1>2, <1>3, <2>2 DEF Others, Typed, CallsTyped, Steps
    <2>4. Calm(c)
      BY <1>1, <1>3, WatchCalm DEF Busy
    <2>5. (Held(c) /\ ~disturbed') => ~disturbed
      BY <1>1, <1>3, LifecycleAssumptions DEF Watch, Held, Typed, Workers
    <2>6. patch[c].by = Keep => p.by \in {Keep, row.by}
      BY <1>3, <2>1, NormalType, LifecycleAssumptions DEF Prepared, Assignee, Rows
    <2>7. Work(c)'
      BY <1>1, <1>3, <2>1, <2>6
      DEF Good, Work, Kind, Typed, CallsTyped
    <2>8. Good(c)'
      BY <1>1, <1>3, <2>5, <2>7
      DEF Good, TriesCounted, Exclusive, Founded, Deciding, Held, Busy, Kind, Who,
          Typed, CallsTyped
    <2> QED
      BY <1>3, <2>3, <2>4, <2>8, OthersGood
  <1>4. ASSUME NEW ok, Continue(c, ok)
        PROVE  LInv'
    <2>1. Calm(c)
      <3>1. mutex # c => mutex' = mutex
        BY <1>4, ContinueEffect DEF Ended, Entered
      <3> QED
        BY <1>1, <3>1, WatchCalm DEF Busy
    <2> QED
      BY <1>1, <1>2, <1>4, <2>1, ContinueGood DEF Typed
  <1> QED
    BY <1>3, <1>4 DEF Prepare

LEMMA WriteGood ==
  ASSUME LInv, NEW c \in Workers, Write(c)
  PROVE  LInv'
  <1> USE DEF LInv
  <1>1. PICK ok \in BOOLEAN : Continue(c, ok)
    BY DEF Write
  <1>2. patch[c] \in Patches /\ row \in Rows
    BY DEF Typed, CallsTyped
  <1>3. row' \in Rows /\ disturbed' \in BOOLEAN /\ faults' \in 0..MaxFaults
    BY <1>2, ApplyType, FaultsBounded DEF Write, Lands, Watch, Typed
  <1>4. Calm(c)
    <2>1. mutex # c => mutex' = mutex
      BY <1>1, ContinueEffect DEF Ended, Entered
    <2> QED
      BY <2>1, WatchCalm DEF Write, Busy
  <1> QED
    BY <1>1, <1>3, <1>4, ContinueGood DEF Write, Typed

LEMMA RemoveGood ==
  ASSUME LInv, NEW c \in Workers, Remove(c)
  PROVE  LInv'
  <1> USE DEF LInv
  <1>1. /\ pc[c] = "remove" /\ row' = row /\ channel' \in BOOLEAN /\ late' = late
        /\ Watch(FALSE) /\ disturbed' \in BOOLEAN /\ mutex # c /\ tries[c] = 0
    BY DEF Remove, Watch, Typed, Good, Exclusive, Busy, TriesCounted
  <1>2. faults' \in 0..MaxFaults
    BY FaultsBounded DEF Remove
  <1>3. CASE End(c)
    <2>1. Ended(c)
      BY <1>3, EndEffect
    <2>2. Calm(c)
      BY <1>1, <2>1, LifecycleAssumptions DEF Ended, Calm, Watch, Typed, Workers
    <2>3. Typed'
      BY <1>1, <1>2, <2>1, SweepAsked, LifecycleAssumptions
      DEF Ended, Others, Typed, Workers
    <2> QED
      BY <2>1, <2>2, <2>3, EndGood
  <1>4. ASSUME Kind(c) = "edelete", Enter(c, "delete", Payload("delete", None)),
               UNCHANGED <<call, mutex>>
        PROVE  LInv'
    <2>1. Entered(c, "delete", Payload("delete", None))
      BY <1>1, <1>4, PayloadType, EnterEffect, LifecycleAssumptions DEF Ops
    <2>2. Calm(c)
      BY <1>1, <1>4, LifecycleAssumptions DEF Calm, Watch, Typed, Workers
    <2>3. Typed'
      BY <1>1, <1>2, <2>1 DEF Entered, Typed
    <2>4. Good(c)'
      BY <1>1, <1>4, <2>1
      DEF Entered, Good, TriesCounted, Exclusive, Work, Founded, Held, Kind, Locked
    <2> QED
      BY <2>1, <2>2, <2>3, <2>4, OthersGood DEF Entered
  <1> QED
    BY <1>3, <1>4 DEF Remove

LEMMA AbandonGood ==
  ASSUME LInv, NEW c \in Workers, Abandon(c)
  PROVE  LInv'
  <1> USE DEF LInv
  <1>1. Ended(c)
    BY EndEffect DEF Abandon
  <1>2. Calm(c)
    BY <1>1, LifecycleAssumptions DEF Abandon, Ended, Calm, Watch, Typed, Workers
  <1>3. late' \subseteq Patches /\ faults' \in 0..MaxFaults /\ disturbed' \in BOOLEAN
    BY FaultsBounded DEF Abandon, Watch, Typed, CallsTyped
  <1>4. Typed'
    BY <1>1, <1>3, SweepAsked, LifecycleAssumptions DEF Abandon, Ended, Others, Typed, Workers
  <1> QED
    BY <1>1, <1>2, <1>4, EndGood

LEMMA EnvironmentGood ==
  ASSUME LInv, Sweep \/ LateWrite \/ Restart \/ DeleteChannel
  PROVE  LInv'
  <1> USE DEF LInv
  <1>0. None \notin Workers /\ Sweeper \in Workers
    BY LifecycleAssumptions DEF Workers
  <1>1. CASE Sweep
    <2>1. Typed' /\ Others(Sweeper) /\ Calm(Sweeper)
      BY <1>0, <1>1 DEF Sweep, Others, Calm, Typed, CallsTyped, Steps
    <2>2. Good(Sweeper)'
      BY <1>0, <1>1
      DEF Sweep, Good, TriesCounted, Exclusive, Work, Founded, Held, Kind, SweepRequest,
          Locked, Typed, CallsTyped
    <2> QED
      BY <1>0, <1>1, <2>1, <2>2, OthersGood DEF Sweep
  <1>2. CASE LateWrite
    <2>1. Typed'
      BY <1>2, ApplyType DEF LateWrite, Lands, Watch, Typed, CallsTyped, locals
    <2>2. ASSUME NEW d \in Workers
          PROVE  Good(d)'
      <3>1. Good(d) /\ (mutex = d /\ ~disturbed' => ~disturbed /\ row' = row)
        BY <1>0, <1>2 DEF LateWrite, Watch, Typed
      <3>2. TriesCounted(d)' /\ Exclusive(d)'
        BY <1>2, <3>1 DEF LateWrite, locals, Good, TriesCounted, Exclusive, Kind
      <3>3. Work(d)'
        BY <1>2, <3>1 DEF LateWrite, locals, Good, Exclusive, Work, Busy, Kind
      <3>4. Founded(d)'
        BY <1>2, <3>1 DEF LateWrite, locals, Good, Founded, Deciding, Held, Kind, Who
      <3> QED
        BY <3>2, <3>3, <3>4 DEF Good
    <2> QED
      BY <2>1, <2>2
  <1>3. CASE Restart
    <2>1. [status |-> Keep, by |-> Keep] \in Patches
      BY DEF Patches
    <2>2. Typed'
      <3>1. CallsTyped'
        BY <1>3, <2>1, SweepAsked, LifecycleAssumptions
        DEF Restart, Typed, CallsTyped, Steps, Ops
      <3>2. late' \subseteq Patches /\ faults' \in 0..MaxFaults
        BY <1>3, FaultsBounded DEF Restart, Typed, CallsTyped
      <3> QED
        BY <1>0, <1>3, <3>1, <3>2 DEF Restart, Typed
    <2>3. ASSUME NEW d \in Workers
          PROVE  Good(d)'
      BY <1>0, <1>3 DEF Restart, Good, TriesCounted, Exclusive, Work, Founded, Held, Busy
    <2> QED
      BY <2>2, <2>3
  <1>4. CASE DeleteChannel
    <2>1. Typed'
      BY <1>4 DEF DeleteChannel, locals, Typed, CallsTyped
    <2>2. ASSUME NEW d \in Workers
          PROVE  Good(d)'
      <3>1. Good(d)
        OBVIOUS
      <3> QED
        BY <1>4, <3>1
        DEF DeleteChannel, locals, Good, TriesCounted, Exclusive, Work, Founded, Deciding,
            Held, Kind, Who
    <2> QED
      BY <2>1, <2>2
  <1> QED
    BY <1>1, <1>2, <1>3, <1>4

-----------------------------------------------------------------------------
(* The invariant, and what follows from it.                                *)

LEMMA StartGood == Init => LInv
  <1> SUFFICES ASSUME Init PROVE LInv
    OBVIOUS
  <1>1. None \notin Workers /\ Sweeper \in Workers
    BY LifecycleAssumptions DEF Workers
  <1>2. [status |-> Keep, by |-> Keep] \in Patches
    BY DEF Patches
  <1>3. Typed
    <2>1. CallsTyped
      BY <1>2, SweepAsked, LifecycleAssumptions DEF Init, CallsTyped, Steps, Ops
    <2>2. row \in Rows /\ late \subseteq Patches /\ faults \in 0..MaxFaults
      BY LifecycleAssumptions DEF Init
    <2>3. channel \in BOOLEAN /\ disturbed \in BOOLEAN
      BY DEF Init
    <2>4. mutex \in Calls \cup {None} /\ override \in Calls \cup {None}
      BY DEF Init
    <2>5. call[Sweeper] = SweepRequest
      BY <1>1 DEF Init
    <2> QED
      BY <2>1, <2>2, <2>3, <2>4, <2>5 DEF Typed
  <1>4. ASSUME NEW d \in Workers
        PROVE  Good(d)
    BY <1>1 DEF Init, Good, TriesCounted, Exclusive, Work, Founded, Held, Busy
  <1> QED
    BY <1>3, <1>4 DEF LInv

LEMMA StepGood == LInv /\ [Next]_vars => LInv'
  <1> SUFFICES ASSUME LInv, [Next]_vars PROVE LInv'
    OBVIOUS
  <1>1. CASE UNCHANGED vars
    <2>1. Typed'
      BY <1>1 DEF vars, locals, LInv, Typed, CallsTyped
    <2>2. ASSUME NEW d \in Workers
          PROVE  Good(d)'
      <3>1. Good(d)
        BY DEF LInv
      <3> QED
        BY <1>1, <3>1
        DEF vars, locals, Good, TriesCounted, Exclusive, Work, Founded, Deciding, Held,
            Kind, Who
    <2> QED
      BY <2>1, <2>2 DEF LInv
  <1>2. ASSUME NEW c \in Workers, Begin(c) \/ Step(c) \/ Abandon(c)
        PROVE  LInv'
    BY <1>2, BeginGood, CheckGood, AcquireMutexGood, AcquireOverrideGood, DecideGood,
       GuardGood, PrepareGood, WriteGood, RemoveGood, AbandonGood
    DEF Step
  <1> QED
    BY <1>1, <1>2, EnvironmentGood DEF Next

LEMMA InvariantHolds == Spec => []LInv
  BY StartGood, StepGood, PTL DEF Spec

\* The types of the ticket's row, of the calls and of the locks, for any
\* members, calls and faults; the holder of the mutation lock is under way
\* (_ticket_mutation_lock in service.py).
THEOREM TypeCorrect == Spec => []TypeOK
  <1>1. LInv => TypeOK
    BY LifecycleAssumptions
    DEF LInv, Typed, CallsTyped, TypeOK, Good, Exclusive, Busy, Workers
  <1> QED
    BY <1>1, InvariantHolds, PTL

\* What an operation of service.py decided under the mutation lock holds until
\* it has written, whatever the other calls, faults and restarts do, unless a
\* writer without the lock changed the row.
THEOREM DecisionsHold == Spec => []DecisionStillHolds
  <1>1. LInv => DecisionStillHolds
    BY DEF LInv, Good, Founded, DecisionStillHolds, Workers
  <1> QED
    BY <1>1, InvariantHolds, PTL

\* A write under the lock takes a ticket from its claimant only for that
\* claimant or the guild's owner, unless the row changed without the lock
\* (evaluate_ticket_action with the repository functions it guards).
THEOREM ClaimantsKept == Spec => ClaimantKept
  <1> DEFINE Kept(c) == LockedWrite(c) /\ row.by # None /\ row'.by # row.by
                           => Who(c) \in {row.by, GuildOwner}
  <1>1. ASSUME LInv, [Next]_vars, NEW c \in Calls
        PROVE  Kept(c)
    <2> SUFFICES ASSUME LockedWrite(c), row.by # None, row'.by # row.by
                 PROVE  Who(c) \in {row.by, GuildOwner}
      OBVIOUS
    <2>1. c \in Workers /\ Good(c) /\ row \in Rows
      BY <1>1 DEF LInv, Typed, Workers
    <2>2. mutex = c /\ ~disturbed /\ pc[c] = "write" /\ pc'[c] # "write"
      BY DEF LockedWrite, Held
    <2>3. /\ Kind(c) \in Locked /\ op[c] \in {Kind(c), "touch"} /\ op[c] # "annotate"
          /\ op[c] \in {"touch", "close", "delete"} => patch[c].by \in {Keep, row.by}
      BY <2>1, <2>2 DEF Good, Exclusive, Work
    <2>4. row' = Apply(row, patch[c])
      <3>1. ~LateWrite
        BY <2>2 DEF LateWrite, locals
      <3>2. PICK d \in Workers : Write(d)
        BY <1>1, <3>1
        DEF Next, vars, Step, Begin, Check, AcquireMutex, AcquireOverride, Decide, Guard,
            Prepare, Remove, Abandon, Sweep, Restart, DeleteChannel
      <3>3. d = c
        BY <1>1, <2>1, <2>2, <3>2, ContinueEffect DEF Write, Ended, Entered, Others
      <3> QED
        BY <3>2, <3>3 DEF Write, Lands
    <2>5. op[c] \in {"claim", "unclaim", "transfer", "reopen"} /\ op[c] = Kind(c)
      BY <2>3, <2>4 DEF Apply, Locked
    <2>6. Proceeds(Normal(row), Kind(c), Who(c), call[c].to)
      BY <2>1, <2>2, <2>5 DEF Good, Founded, Held, Deciding
    <2>7. Normal(row).by = row.by /\ call[c] \in Requests \cup Syncs
      BY <1>1, <2>1, NormalType DEF LInv, Typed, CallsTyped
    <2>8. Kind(c) \in {"unclaim", "transfer", "reopen"}
      BY <2>5, <2>6, <2>7 DEF Proceeds
    <2>9. Allowed(Normal(row), Kind(c), Who(c)) /\ Who(c) \in Staff \cup {GuildOwner}
      BY <2>6, <2>7, <2>8, RequestFacts DEF Proceeds, Kind, Who
    <2> QED
      BY <2>7, <2>8, <2>9, LifecycleAssumptions DEF Allowed
  <1>2. LInv /\ [Next]_vars => [\A c \in Calls : Kept(c)]_vars
    BY <1>1
  <1> QED
    BY <1>2, InvariantHolds, PTL DEF Spec, ClaimantKept

-----------------------------------------------------------------------------
(* Every row stored as claimed has a claimant.                             *)

\* What a write may carry, and what a call may hold before it.
Complete(p) == p.status # Keep /\ (p.status = "claimed" => p.by \in Staff)

ClaimInv ==
    /\ ClaimedHasClaimant
    /\ \A p \in late : Complete(p)
    /\ \A c \in Workers :
          /\ pc[c] = "new" => patch[c].status = Keep
          /\ pc[c] = "write" => Complete(patch[c])
          /\ pc[c] \in {"guard", "prepare"} =>
                /\ patch[c].status = "claimed" => patch[c].by \in Staff
                /\ op[c] # "touch" => patch[c].status # Keep

LEMMA CompleteLands ==
  ASSUME LInv, ClaimInv, NEW p \in Patches, Complete(p), row' = Apply(row, p)
  PROVE  ClaimedHasClaimant'
  BY LifecycleAssumptions DEF Complete, ClaimInv, ClaimedHasClaimant, Apply

LEMMA PreparedComplete ==
  ASSUME NEW r \in Rows, NEW p \in Patches, ~Rejected(r, p)
  PROVE  Complete(Prepared(r, p))
  BY LifecycleAssumptions
  DEF Complete, Prepared, Rejected, Requested, Assignee, Rows, Patches, Statuses, OpenLike

\* A call that ends or goes into another repository function keeps it.
LEMMA ContinueClaims ==
  ASSUME LInv, ClaimInv, NEW c \in Workers, NEW ok, Continue(c, ok) \/ End(c),
         ClaimedHasClaimant', \A p \in late' : Complete(p)
  PROVE  ClaimInv'
  <1>1. CASE Ended(c)
    BY <1>1 DEF ClaimInv, Ended, Others
  <1>2. ASSUME NEW o \in Ops, NEW p \in Patches, Entered(c, o, p),
               p.status # "claimed" /\ (o # "touch" => p.status # Keep)
        PROVE  ClaimInv'
    BY <1>2 DEF ClaimInv, Entered, Others
  <1> QED
    BY <1>1, <1>2, EndEffect, ContinueEffect

LEMMA DecideClaims ==
  ASSUME LInv, ClaimInv, NEW c \in Workers, Decide(c)
  PROVE  ClaimInv'
  <1>1. ClaimedHasClaimant' /\ late' = late /\ \A p \in late' : Complete(p)
    BY DEF Decide, ClaimInv, ClaimedHasClaimant
  <1>2. CASE End(c)
    BY <1>1, <1>2, ContinueClaims
  <1>3. CASE pc' = [pc EXCEPT ![c] = "remove"] /\ UNCHANGED <<op, patch>>
    BY <1>1, <1>3 DEF ClaimInv, LInv, Typed, CallsTyped
  <1>4. ASSUME NEW o \in FirstOps(Normal(row), Kind(c)), o # "edelete", NEW p,
               Enter(c, o, p),
               IF o = "sync" THEN \E b \in BOOLEAN, g \in Staff \cup {None} :
                                     p = Synced(Normal(row), b, g)
                             ELSE p = Payload(o, call[c].to)
        PROVE  ClaimInv'
    <2>1. call[c] \in Requests \cup Syncs /\ row \in Rows
      BY DEF LInv, Typed, CallsTyped
    <2>2. /\ p.status = "claimed" => p.by \in Staff
          /\ o # "touch" => p.status # Keep
      <3>1. CASE o = "sync"
        BY <1>4, <2>1, <3>1, NormalType, SyncedType
      <3>2. CASE o # "sync"
        <4>1. o \in {"claim", "transfer"} => Kind(c) \in {"claim", "transfer", "etransfer"}
          BY <1>4 DEF FirstOps
        <4>2. o \in {"claim", "transfer"} => call[c].to \in Staff
          BY <2>1, <4>1, RequestFacts DEF Kind
        <4>3. o \in {"touch", "claim", "unclaim", "transfer", "close", "reopen", "delete"}
          BY <1>4, <2>1, <3>2, RequestFacts
          DEF FirstOps, Kind, Locked, Unlocked, Emergency
        <4> QED
          BY <1>4, <3>2, <4>2, <4>3, LifecycleAssumptions DEF Payload, Statuses, OpenLike
      <3> QED
        BY <3>1, <3>2
    <2>3. /\ patch' = [patch EXCEPT ![c] = p] /\ op' = [op EXCEPT ![c] = o]
          /\ pc' = [pc EXCEPT ![c] = pc'[c]] /\ pc'[c] \in {"prepare", "guard"}
      BY <1>4 DEF Enter, LInv, Typed, CallsTyped
    <2> QED
      BY <1>1, <2>2, <2>3 DEF ClaimInv, LInv, Typed, CallsTyped
  <1> QED
    BY <1>2, <1>3, <1>4 DEF Decide

LEMMA PrepareClaims ==
  ASSUME LInv, ClaimInv, NEW c \in Workers, Prepare(c)
  PROVE  ClaimInv'
  <1>1. /\ ClaimedHasClaimant' /\ late' = late /\ \A p \in late' : Complete(p)
        /\ pc[c] = "prepare"
    BY DEF Prepare, ClaimInv, ClaimedHasClaimant
  <1>2. patch[c] \in Patches /\ Normal(row) \in Rows
    BY NormalType DEF LInv, Typed, CallsTyped
  <1>3. ASSUME NEW ok, Continue(c, ok)
        PROVE  ClaimInv'
    BY <1>1, <1>3, ContinueClaims
  <1>4. ASSUME NEW p, patch' = [patch EXCEPT ![c] = p], pc' = [pc EXCEPT ![c] = "write"],
               op' = op, Complete(p)
        PROVE  ClaimInv'
    BY <1>1, <1>4 DEF ClaimInv, LInv, Typed, CallsTyped
  <1>5. ~Rejected(Normal(row), patch[c]) => Complete(Prepared(Normal(row), patch[c]))
    BY <1>2, PreparedComplete
  <1>6. op[c] # "touch" => Complete(patch[c])
    BY <1>1 DEF ClaimInv, Complete
  <1> QED
    BY <1>3, <1>4, <1>5, <1>6 DEF Prepare

LEMMA WriteClaims ==
  ASSUME LInv, ClaimInv, NEW c \in Workers, Write(c)
  PROVE  ClaimInv'
  <1>1. /\ Complete(patch[c]) /\ patch[c] \in Patches
        /\ late' = late /\ \A p \in late' : Complete(p)
    BY DEF Write, ClaimInv, LInv, Typed, CallsTyped
  <1>2. ClaimedHasClaimant'
    <2>1. CASE row' = row
      BY <2>1 DEF ClaimInv, ClaimedHasClaimant
    <2>2. CASE Lands(patch[c])
      BY <1>1, <2>2, CompleteLands DEF Lands
    <2> QED
      BY <2>1, <2>2 DEF Write
  <1>3. PICK ok \in BOOLEAN : Continue(c, ok)
    BY DEF Write
  <1> QED
    BY <1>1, <1>2, <1>3, ContinueClaims

LEMMA RemoveClaims ==
  ASSUME LInv, ClaimInv, NEW c \in Workers, Remove(c)
  PROVE  ClaimInv'
  <1>1. /\ ClaimedHasClaimant' /\ late' = late /\ \A p \in late' : Complete(p)
    BY DEF Remove, ClaimInv, ClaimedHasClaimant
  <1>2. CASE End(c)
    BY <1>1, <1>2, ContinueClaims
  <1>3. CASE Enter(c, "delete", Payload("delete", None))
    <2>1. Payload("delete", None).status = "deleted"
      BY DEF Payload
    <2> QED
      BY <1>1, <1>3, <2>1, LifecycleAssumptions
      DEF Enter, ClaimInv, LInv, Typed, CallsTyped, Statuses
  <1> QED
    BY <1>2, <1>3 DEF Remove

LEMMA OtherClaims ==
  ASSUME LInv, ClaimInv, NEW c \in Workers,
         Begin(c) \/ Check(c) \/ AcquireMutex(c) \/ AcquireOverride(c) \/ Guard(c) \/ Abandon(c)
  PROVE  ClaimInv'
  <1> USE DEF LInv, Typed, CallsTyped
  <1>1. ClaimedHasClaimant'
    BY DEF Begin, Check, AcquireMutex, AcquireOverride, Guard, Abandon, ClaimInv,
           ClaimedHasClaimant
  <1>2. CASE Begin(c)
    <2>1. pc[c] = "new" /\ patch[c].status = Keep /\ patch' = patch /\ late' = late
      BY <1>2 DEF Begin, ClaimInv
    <2>2. PICK r \in Asked :
            /\ op' = [op EXCEPT ![c] = IF r.kind = "touch" THEN "touch" ELSE None]
            /\ pc' = [pc EXCEPT ![c] = CASE r.kind = "delete" -> "check"
                              [] r.kind \in (Locked \ {"delete"}) \cup Emergency -> "lock"
                              [] r.kind = "touch" -> "prepare"
                              [] OTHER -> "decide"]
      BY <1>2 DEF Begin
    <2>3. /\ pc'[c] \in {"check", "lock", "decide", "prepare"}
          /\ pc'[c] = "prepare" => op'[c] = "touch"
          /\ \A d \in Workers \ {c} : pc'[d] = pc[d] /\ op'[d] = op[d]
      BY <2>2
    <2>4. Keep # "claimed"
      BY LifecycleAssumptions DEF Statuses, OpenLike
    <2> QED
      BY <1>1, <2>1, <2>3, <2>4 DEF ClaimInv
  <1>3. CASE Check(c) \/ AcquireMutex(c) \/ AcquireOverride(c)
    BY <1>1, <1>3 DEF Check, AcquireMutex, AcquireOverride, Refused, ClaimInv
  <1>4. CASE Guard(c)
    <2>1. CASE pc' = [pc EXCEPT ![c] = "prepare"] /\ UNCHANGED <<op, patch>>
      BY <1>1, <1>4, <2>1 DEF Guard, ClaimInv
    <2>2. ASSUME NEW ok, Continue(c, ok)
          PROVE  ClaimInv'
      BY <1>1, <1>4, <2>2, ContinueClaims DEF Guard, ClaimInv
    <2> QED
      BY <1>4, <2>1, <2>2 DEF Guard
  <1>5. CASE Abandon(c)
    <2>1. \A p \in late' : Complete(p)
      BY <1>5 DEF Abandon, ClaimInv
    <2> QED
      BY <1>1, <1>5, <2>1, ContinueClaims DEF Abandon
  <1> QED
    BY <1>2, <1>3, <1>4, <1>5

LEMMA EnvironmentClaims ==
  ASSUME LInv, ClaimInv, Sweep \/ LateWrite \/ Restart \/ DeleteChannel
  PROVE  ClaimInv'
  <1> USE DEF LInv, Typed, CallsTyped
  <1>1. CASE Sweep
    BY <1>1 DEF Sweep, ClaimInv, ClaimedHasClaimant
  <1>2. CASE LateWrite
    <2>1. PICK p \in late : late' = late \ {p} /\ (Lands(p) \/ UNCHANGED row)
      BY <1>2 DEF LateWrite
    <2>2. ClaimedHasClaimant'
      BY <2>1, CompleteLands DEF Lands, ClaimInv, ClaimedHasClaimant
    <2> QED
      BY <1>2, <2>1, <2>2 DEF LateWrite, locals, ClaimInv
  <1>3. CASE Restart
    BY <1>3 DEF Restart, ClaimInv, ClaimedHasClaimant
  <1>4. CASE DeleteChannel
    BY <1>4 DEF DeleteChannel, locals, ClaimInv, ClaimedHasClaimant
  <1> QED
    BY <1>1, <1>2, <1>3, <1>4

LEMMA ClaimsStep == LInv /\ ClaimInv /\ [Next]_vars => ClaimInv'
  <1> SUFFICES ASSUME LInv, ClaimInv, [Next]_vars PROVE ClaimInv'
    OBVIOUS
  <1>1. CASE UNCHANGED vars
    BY <1>1 DEF vars, locals, ClaimInv, ClaimedHasClaimant
  <1>2. ASSUME NEW c \in Workers, Begin(c) \/ Step(c) \/ Abandon(c)
        PROVE  ClaimInv'
    BY <1>2, DecideClaims, PrepareClaims, WriteClaims, RemoveClaims, OtherClaims DEF Step
  <1> QED
    BY <1>1, <1>2, EnvironmentClaims DEF Next

\* Whoever writes, with whatever the failed reads left out of the update, a
\* ticket stored as claimed has a claimant (_prepare_ticket_update in
\* repository.py).
THEOREM ClaimantsExist == Spec => []ClaimedHasClaimant
  <1>1. Init => ClaimInv
    BY LifecycleAssumptions DEF Init, ClaimInv, ClaimedHasClaimant
  <1>2. ClaimInv => ClaimedHasClaimant
    BY DEF ClaimInv
  <1> QED
    BY <1>1, <1>2, InvariantHolds, ClaimsStep, PTL DEF Spec
=============================================================================
