------------------------- MODULE DownloadQueueProofs -------------------------
(***************************************************************************)
(* Proofs about DownloadQueue, for every set of messages and guilds, every *)
(* number of workers, every capacity and any number of crashes and faults, *)
(* under one assumption the code does not enforce: no call of              *)
(* start_download_workers begins while another is at its await             *)
(* (StartsApart).  MCDownloadQueueTwoReady.cfg shows what happens without. *)
(***************************************************************************)
EXTENDS DownloadQueue, TLAPS

(* At most one call is between the guards on _WORKERS and the spawn. *)
Starting(s) == starter[s] \in {"recovering", "recovered"}
StartsApart == \A s, t \in Starters : Starting(s) /\ Starting(t) => s = t

----------------------------------------------------------------------------
(* The inductive invariant *)

(* A worker between its claim and its delete owns a running row, alone. *)
JobHeld == \A w \in Workers : Busy(w) => job[w] \in Messages

BusyOwnsRow ==
    /\ orphans = {}
    /\ \A w \in Workers : Busy(w) => row[job[w]] = "running"
    /\ \A v, w \in Workers :
          (v # w /\ Busy(v) /\ Busy(w)) => job[v] # job[w]

(* The claim's NOT EXISTS, seen as a property of the table. *)
OneRunningRow ==
    \A m, n \in Messages :
        (row[m] = "running" /\ row[n] = "running" /\ GuildOf[m] = GuildOf[n]) => m = n

(* Recovery runs before there is any worker. *)
RecoveryIsAlone ==
    /\ pool = NoStarter => \A w \in Workers : pc[w] = "absent"
    /\ \A s \in Starters :
          starter[s] \in {"recovering", "recovered"} => pool = NoStarter

StaleAreQueued == \A m \in stale : row[m] = "queued"

(* A request not started, or started and not yet delivered, was not sent. *)
SentAfterStart ==
    /\ \A m \in Messages : row[m] = "queued" => sends[m] = 0
    /\ \A w \in Workers :
          pc[w] \in {"claimed", "checking", "delivering"} => sends[job[w]] = 0

IInv ==
    /\ TypeOK
    /\ JobHeld
    /\ BusyOwnsRow
    /\ OneRunningRow
    /\ RecoveryIsAlone
    /\ StaleAreQueued
    /\ SentAfterStart

----------------------------------------------------------------------------
(* Type correctness: every variable stays in its set, whatever overlaps
   (the code behaviour is the whole of share_router_download_queue.py). *)
LEMMA TypeInit == Init => TypeOK /\ JobHeld
  BY QueueAssumptions DEF Init, TypeOK, Rows, StarterSteps, WorkerSteps,
     BusySteps, JobHeld, Busy

LEMMA TypeStep == TypeOK /\ JobHeld /\ [Next]_vars => (TypeOK /\ JobHeld)'
<1> SUFFICES ASSUME TypeOK, JobHeld, [Next]_vars PROVE TypeOK' /\ JobHeld'
  OBVIOUS
<1> USE QueueAssumptions
<1> USE DEF TypeOK, JobHeld, Busy, Rows, StarterSteps, WorkerSteps, BusySteps, table, workers, bounds
<1>1. ASSUME NEW m \in Messages, SubmitQueued(m) PROVE TypeOK' /\ JobHeld'
  BY <1>1 DEF SubmitQueued, RowWithout, OlderWithout, Outstanding
<1>2. ASSUME NEW m \in Messages, SubmitRejected(m) PROVE TypeOK' /\ JobHeld'
  BY <1>2 DEF SubmitRejected, Delete, RowWithout, OlderWithout
<1>3. ASSUME NEW m \in Messages, Age(m) PROVE TypeOK' /\ JobHeld'
  BY <1>3 DEF Age
<1>4. ASSUME NEW s \in Starters, Start(s) PROVE TypeOK' /\ JobHeld'
  BY <1>4 DEF Start, StartCalled, Recover, RecoverFails, Spawn, Delete,
              RowWithout, OlderWithout
<1>5. ASSUME NEW w \in Workers, Claim(w) PROVE TypeOK' /\ JobHeld'
  BY <1>5 DEF Claim, Goto, RowWithout, OlderWithout, Eligible
<1>6. ASSUME NEW w \in Workers, ClaimNothing(w) \/ Complete(w) PROVE TypeOK' /\ JobHeld'
  BY <1>6 DEF ClaimNothing, Complete, Goto, Delete, RowWithout, OlderWithout
<1>7. ASSUME NEW w \in Workers, TakeJob(w) PROVE TypeOK' /\ JobHeld'
  BY <1>7 DEF TakeJob, Goto
<1>8. ASSUME NEW w \in Workers, Deliver(w) PROVE TypeOK' /\ JobHeld'
  BY <1>8 DEF Deliver, Goto
<1>9. ASSUME NEW w \in Workers,
             CallClaim(w) \/ ClaimFails(w) \/ CheckPasses(w) \/ CheckStops(w)
             \/ DeliverNothing(w) \/ CompleteFails(w) \/ WakeUp(w)
      PROVE  TypeOK' /\ JobHeld'
  BY <1>9 DEF CallClaim, ClaimFails, CheckPasses, CheckStops, DeliverNothing,
              CompleteFails, WakeUp, Goto
<1>10. CASE Crash
  <2>1. crashes' \in 0..MaxCrashes
    BY <1>10 DEF Crash
  <2>2. /\ starter' \in [Starters -> StarterSteps]
        /\ pc' \in [Workers -> WorkerSteps]
        /\ job' \in [Workers -> Messages \cup {NoMessage}]
        /\ prev' \in [Workers -> Guilds \cup {NoGuild}]
    BY <1>10 DEF Crash
  <2>3. JobHeld'
    BY <1>10 DEF Crash
  <2>4. QED
    BY <1>10, <2>1, <2>2, <2>3 DEF Crash
<1>11. CASE Boot
  BY <1>11 DEF Boot
<1>12. CASE UNCHANGED vars
  BY <1>12 DEF vars
<1>13. QED
  BY <1>1, <1>2, <1>3, <1>4, <1>5, <1>6, <1>7, <1>8, <1>9, <1>10, <1>11, <1>12
  DEF Next, Gateway, Worker

(* Every variable of the queue stays in its set (the whole of
   share_router_download_queue.py), overlapping starts or not. *)
THEOREM TypeCorrect == Spec => []TypeOK
<1>1. Init => TypeOK /\ JobHeld
  BY TypeInit
<1>2. (TypeOK /\ JobHeld) /\ [Next]_vars => (TypeOK /\ JobHeld)'
  BY TypeStep
<1>3. QED
  BY <1>1, <1>2, PTL DEF Spec

----------------------------------------------------------------------------
(* The invariant is inductive. *)
LEMMA InvInit == Init => IInv
<1> SUFFICES ASSUME Init PROVE IInv
  OBVIOUS
<1>1. TypeOK /\ JobHeld
  BY TypeInit
<1>2. BusyOwnsRow /\ OneRunningRow /\ StaleAreQueued /\ SentAfterStart
  BY DEF Init, BusyOwnsRow, Busy, BusySteps, OneRunningRow, StaleAreQueued,
         SentAfterStart
<1>3. RecoveryIsAlone
  BY DEF Init, RecoveryIsAlone
<1>4. QED
  BY <1>1, <1>2, <1>3 DEF IInv

LEMMA InvStep == IInv /\ StartsApart /\ [Next]_vars => IInv'
<1> SUFFICES ASSUME IInv, StartsApart, [Next]_vars PROVE IInv'
  OBVIOUS
<1> USE QueueAssumptions
<1>t. TypeOK /\ JobHeld /\ TypeOK' /\ JobHeld'
  BY TypeStep DEF IInv
<1> DEFINE Rest == BusyOwnsRow /\ OneRunningRow /\ RecoveryIsAlone
                   /\ StaleAreQueued /\ SentAfterStart
<1>r. Rest
  BY DEF IInv
<1> SUFFICES Rest'
  BY <1>t DEF IInv
<1> USE <1>t, <1>r
<1> USE DEF TypeOK, JobHeld, Busy, BusySteps, BusyOwnsRow, OneRunningRow,
            RecoveryIsAlone, StaleAreQueued, SentAfterStart,
            table, workers, bounds
<1>1. ASSUME NEW m \in Messages, SubmitQueued(m) PROVE Rest'
  BY <1>1 DEF SubmitQueued, Admissible, RowWithout, Outstanding
<1>2. ASSUME NEW m \in Messages, SubmitRejected(m) PROVE Rest'
  BY <1>2 DEF SubmitRejected, Delete, RowWithout
<1>3. ASSUME NEW m \in Messages, Age(m) PROVE Rest'
  BY <1>3 DEF Age
<1>4. ASSUME NEW s \in Starters, StartCalled(s) PROVE Rest'
  BY <1>4 DEF StartCalled
<1>5. ASSUME NEW s \in Starters, Recover(s) PROVE Rest'
  BY <1>5 DEF Recover, Delete, RowWithout
<1>6. ASSUME NEW s \in Starters, RecoverFails(s) PROVE Rest'
  BY <1>6 DEF RecoverFails
<1>7. ASSUME NEW s \in Starters, Spawn(s) PROVE Rest'
  BY <1>7 DEF Spawn, StartsApart, Starting, Workers
<1>8. ASSUME NEW w \in Workers, Claim(w) PROVE Rest'
  BY <1>8 DEF Claim, Goto, RowWithout, Eligible
<1>9. ASSUME NEW w \in Workers, Complete(w) PROVE Rest'
  BY <1>9 DEF Complete, Goto, Delete, RowWithout
<1>10. ASSUME NEW w \in Workers, ClaimNothing(w) PROVE Rest'
  BY <1>10 DEF ClaimNothing, Goto, Delete, RowWithout
<1>11. ASSUME NEW w \in Workers, Deliver(w) PROVE Rest'
  BY <1>11 DEF Deliver, Goto
<1>12. ASSUME NEW w \in Workers,
              CallClaim(w) \/ ClaimFails(w) \/ TakeJob(w) \/ CheckPasses(w)
              \/ CheckStops(w) \/ DeliverNothing(w) \/ CompleteFails(w) \/ WakeUp(w)
       PROVE  Rest'
  BY <1>12 DEF CallClaim, ClaimFails, TakeJob, CheckPasses, CheckStops,
               DeliverNothing, CompleteFails, WakeUp, Goto
<1>13. CASE Crash
  BY <1>13 DEF Crash
<1>14. CASE Boot
  BY <1>14 DEF Boot
<1>15. CASE UNCHANGED vars
  BY <1>15 DEF vars
<1>16. QED
  BY <1>1, <1>2, <1>3, <1>4, <1>5, <1>6, <1>7, <1>8, <1>9, <1>10, <1>11, <1>12,
     <1>13, <1>14, <1>15
  DEF Next, Gateway, Start, Worker

LEMMA InvAlways == Spec /\ []StartsApart => []IInv
<1>1. Init => IInv
  BY InvInit
<1>2. IInv /\ StartsApart /\ [Next]_vars => IInv'
  BY InvStep
<1>3. QED
  BY <1>1, <1>2, PTL DEF Spec

----------------------------------------------------------------------------
(* Two workers never process requests of one guild ("Each guild runs at most
   one active download"): each owns a running row, and the claim leaves a
   guild one running row. *)
THEOREM OneActive == Spec /\ []StartsApart => []OneActivePerGuild
<1>1. IInv => OneActivePerGuild
  <2> SUFFICES ASSUME IInv, NEW v \in Workers, NEW w \in Workers,
                      v # w, Busy(v), Busy(w), GuildOf[job[v]] = GuildOf[job[w]]
               PROVE  FALSE
    BY DEF OneActivePerGuild
  <2>1. /\ job[v] \in Messages /\ row[job[v]] = "running"
        /\ job[w] \in Messages /\ row[job[w]] = "running"
    BY DEF IInv, JobHeld, BusyOwnsRow
  <2>2. job[v] = job[w]
    BY <2>1 DEF IInv, OneRunningRow
  <2>3. QED
    BY <2>2 DEF IInv, BusyOwnsRow
<1>2. QED
  BY <1>1, InvAlways, PTL

----------------------------------------------------------------------------
(* The table implements the promise of DownloadPromise: the step of one
   transaction moves every message the way its request may move. *)
LEMMA PromiseInit == Init => Promise!Init
  BY DEF Init, Promise!Init

(* What a message's part of a step of the table may be. *)
Moves(m) ==
    \/ /\ row[m] = "absent" \/ m \in stale
       /\ row'[m] = "queued" /\ m \notin stale' /\ sends'[m] = 0
    \/ /\ row[m] = "queued" /\ m \notin stale /\ sends'[m] = sends[m]
       /\ row'[m] = "queued" /\ m \in stale'
    \/ /\ row[m] = "queued" /\ m \notin stale /\ sends[m] = 0
       /\ row'[m] = "running" /\ sends'[m] = sends[m]
    \/ /\ row[m] = "running" /\ row'[m] = "running"
       /\ sends[m] = 0 /\ sends'[m] = 1
    \/ /\ row[m] = "running" \/ m \in stale
       /\ row'[m] = "absent" /\ sends'[m] = sends[m]
    \/ /\ row'[m] = row[m] /\ sends'[m] = sends[m]
       /\ m \in stale' <=> m \in stale

LEMMA StepMoves ==
    ASSUME IInv, [Next]_vars, NEW x \in Messages
    PROVE  Moves(x)
<1> USE QueueAssumptions
<1> USE DEF Moves, IInv, TypeOK, JobHeld, Busy, BusySteps, Rows, BusyOwnsRow,
            OneRunningRow, RecoveryIsAlone, StaleAreQueued, SentAfterStart,
            table, workers, bounds
<1>1. ASSUME NEW m \in Messages, SubmitQueued(m) PROVE Moves(x)
  BY <1>1 DEF SubmitQueued, Admissible, RowWithout, Outstanding
<1>2. ASSUME NEW m \in Messages, SubmitRejected(m) PROVE Moves(x)
  BY <1>2 DEF SubmitRejected, Delete, RowWithout
<1>3. ASSUME NEW m \in Messages, Age(m) PROVE Moves(x)
  BY <1>3 DEF Age
<1>4. ASSUME NEW s \in Starters, Start(s) PROVE Moves(x)
  BY <1>4 DEF Start, StartCalled, Recover, RecoverFails, Spawn, Delete, RowWithout
<1>5. ASSUME NEW w \in Workers, Claim(w) PROVE Moves(x)
  BY <1>5 DEF Claim, Goto, RowWithout, Eligible
<1>6. ASSUME NEW w \in Workers, Complete(w) \/ ClaimNothing(w) PROVE Moves(x)
  BY <1>6 DEF Complete, ClaimNothing, Delete, RowWithout
<1>7. ASSUME NEW w \in Workers, Deliver(w) PROVE Moves(x)
  BY <1>7 DEF Deliver
<1>8. ASSUME NEW w \in Workers,
             CallClaim(w) \/ ClaimFails(w) \/ TakeJob(w) \/ CheckPasses(w)
             \/ CheckStops(w) \/ DeliverNothing(w) \/ CompleteFails(w) \/ WakeUp(w)
      PROVE  Moves(x)
  BY <1>8 DEF CallClaim, ClaimFails, TakeJob, CheckPasses, CheckStops,
              DeliverNothing, CompleteFails, WakeUp
<1>9. CASE Crash \/ Boot \/ UNCHANGED vars
  BY <1>9 DEF Crash, Boot, vars
<1>10. QED
  BY <1>1, <1>2, <1>3, <1>4, <1>5, <1>6, <1>7, <1>8, <1>9
  DEF Next, Gateway, Worker

(* An accepted request is kept until it starts or grows too old, never starts
   once too old, is delivered at most once, and is never started twice, across
   any number of crashes and restarts. *)
THEOREM PromiseImplemented == Spec /\ []StartsApart => PromiseKept
<1> USE DEF Promise!Phases, Promise!Accept, Promise!WaitTooLong, Promise!Start,
            Promise!Send, Promise!Drop, Promise!Stay
<1>1. IInv /\ IInv' /\ [Next]_vars => Promise!Next
  <2> SUFFICES ASSUME IInv, IInv', [Next]_vars PROVE Promise!Next
    OBVIOUS
  <2>1. \A m \in Messages : Moves(m)
    BY StepMoves
  <2>2. QED
    BY <2>1 DEF Promise!Next, Promise!OneStartedPerGuild, Moves, IInv, TypeOK, Rows,
                OneRunningRow, StaleAreQueued
<1>2. QED
  BY <1>1, PromiseInit, InvAlways, PTL DEF Spec, PromiseKept, Promise!Spec
==============================================================================
